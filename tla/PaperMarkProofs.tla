-------------------------- MODULE PaperMarkProofs --------------------------
(***************************************************************************)
(* Proofs about PaperMark and BookRace.  Of PaperMark: its type, three     *)
(* properties of the exit clock and the fee clock, the counter of          *)
(* rebalances, and what the bins hold, for any pool, any number of         *)
(* positions and any sequence of polls, marks, openings and closings.  Of  *)
(* BookRace: what holds of a row, of its counters and of the log however   *)
(* many sessions mark and close the same positions at once.                *)
(***************************************************************************)
EXTENDS BookRace, SumTheorems

-----------------------------------------------------------------------------
(***************************************************************************)
(* Sets of marks, apart from any position: the mark that comes before      *)
(* another one, and the marks that leave the range, for a price that       *)
(* started on `side0`.                                                     *)
(***************************************************************************)
Dated(M) ==
    /\ IsFiniteSet(M)
    /\ \A m \in M : m.ts \in Nat
    /\ \A k, m \in M : k.ts = m.ts => k = m

Prior(M, m) == {k \in M : k.ts < m.ts /\ \A j \in M : j.ts < m.ts => j.ts <= k.ts}

SidesPrior(M, side0, m) ==
    IF Prior(M, m) = {} THEN {side0} ELSE {k.side : k \in Prior(M, m)}

Exits(M, side0) == {m \in M : m.side # In /\ SidesPrior(M, side0, m) = {In}}

Upto(M, t) == {m \in M : m.ts <= t}

Count(M, side0, t) == Cardinality(Exits(Upto(M, t), side0))

(* A finite set of marks has a first one and a last one. *)
LEMMA Earliest ==
    ASSUME NEW M, IsFiniteSet(M), M # {}, \A m \in M : m.ts \in Nat
    PROVE  \E n \in M : \A k \in M : n.ts <= k.ts
<1> DEFINE Below(k) == {j \in M : j.ts < k.ts}
           C == {Below(k) : k \in M}
<1>1. C \in SUBSET (SUBSET M) /\ C # {}
  OBVIOUS
<1>2. PICK T \in C : \A U \in C : U \subseteq T => U = T
  <2> HIDE DEF C
  <2> QED BY <1>1, Smallest
<1>3. PICK n \in M : T = Below(n)
  BY <1>2
<1>4. ASSUME NEW k \in M, k.ts < n.ts PROVE FALSE
  <2>1. Below(k) \subseteq Below(n)
    BY <1>4
  <2>2. Below(k) = Below(n)
    BY <1>2, <1>3, <2>1
  <2>3. k \in Below(n) /\ k \notin Below(k)
    BY <1>4
  <2> QED BY <2>2, <2>3
<1> QED BY <1>4

(* A set of marks has a latest one.                                        *)
LEMMA Last ==
    ASSUME NEW M, IsFiniteSet(M), M # {}, \A m \in M : m.ts \in Nat
    PROVE  \E n \in M : \A k \in M : k.ts <= n.ts
<1> DEFINE Above(k) == {j \in M : j.ts > k.ts}
           C == {Above(k) : k \in M}
<1>1. C \in SUBSET (SUBSET M) /\ C # {}
  OBVIOUS
<1>2. PICK T \in C : \A U \in C : U \subseteq T => U = T
  <2> HIDE DEF C
  <2> QED BY <1>1, Smallest
<1>3. PICK n \in M : T = Above(n)
  BY <1>2
<1>4. ASSUME NEW k \in M, k.ts > n.ts PROVE FALSE
  <2>1. Above(k) \subseteq Above(n)
    BY <1>4
  <2>2. Above(k) = Above(n)
    BY <1>2, <1>3, <2>1
  <2>3. k \in Above(n) /\ k \notin Above(k)
    BY <1>4
  <2> QED BY <2>2, <2>3
<1> QED BY <1>4

(* What comes before a mark is one mark, or nothing. *)
LEMMA PriorIsOne ==
    ASSUME NEW M, Dated(M), NEW m, m.ts \in Nat, NEW k \in M, k.ts < m.ts
    PROVE  \E n \in M : Prior(M, m) = {n} /\ n.ts < m.ts /\ k.ts <= n.ts
<1> DEFINE B == {j \in M : j.ts < m.ts}
<1>1. IsFiniteSet(B) /\ B # {} /\ \A j \in B : j.ts \in Nat
  BY FS_Subset DEF Dated
<1>2. PICK n \in B : \A j \in B : j.ts <= n.ts
  <2> HIDE DEF B
  <2> QED BY <1>1, Last
<1>3. Prior(M, m) = {n}
  BY <1>2 DEF Prior, Dated
<1> QED BY <1>2, <1>3

(* The earliest mark has none before it.                                   *)
LEMMA PriorNone ==
    ASSUME NEW M, NEW m, \A k \in M : ~(k.ts < m.ts)
    PROVE  Prior(M, m) = {}
BY DEF Prior

(* Marks of different dates stay so when there are fewer.                  *)
LEMMA DatedLess ==
    ASSUME NEW M, Dated(M), NEW S \in SUBSET M
    PROVE  Dated(S)
BY FS_Subset DEF Dated

(* Exits can be counted,                                                   *)
LEMMA ExitsFinite ==
    ASSUME NEW M, Dated(M), NEW side0
    PROVE  IsFiniteSet(Exits(M, side0)) /\ Cardinality(Exits(M, side0)) \in Nat
<1>1. Exits(M, side0) \in SUBSET M
  BY DEF Exits
<1> QED BY <1>1, FS_Subset, FS_CardinalityType DEF Dated

(* A mark later than all others leaves theirs as they were. *)
LEMMA ExitsAppend ==
    ASSUME NEW M, NEW side0, NEW x, Dated(M), x.ts \in Nat, \A m \in M : m.ts < x.ts
    PROVE  /\ Dated(M \cup {x})
           /\ Exits(M \cup {x}, side0) =
                Exits(M, side0) \cup
                  (IF x.side # In /\ SidesPrior(M, side0, x) = {In} THEN {x} ELSE {})
           /\ x \notin Exits(M, side0)
<1> DEFINE N == M \cup {x}
<1>1. \A m \in N : m.ts \in Nat
  BY DEF Dated
<1>2. Dated(N)
  BY FS_AddElement DEF Dated
<1>3. \A m \in N : Prior(N, m) = Prior(M, m)
  BY <1>1 DEF Prior
<1>4. \A m \in N : SidesPrior(N, side0, m) = SidesPrior(M, side0, m)
  BY <1>3 DEF SidesPrior
<1>5. x \notin M
  BY DEF Dated
<1>6. \A m : m \in Exits(N, side0) <=> m \in M \cup {x} /\ m.side # In /\ SidesPrior(M, side0, m) = {In}
  BY <1>4 DEF Exits
<1>7. \A m : m \in Exits(M, side0) <=> m \in M /\ m.side # In /\ SidesPrior(M, side0, m) = {In}
  BY DEF Exits
<1> QED BY <1>2, <1>5, <1>6, <1>7, Zenon

(* A mark that comes in between does not lower their number: where it      *)
(* comes before a mark that left the range, one of the two does.           *)
LEMMA ExitsInsert ==
    ASSUME NEW M, NEW side0, NEW x, x \notin M, Dated(M \cup {x})
    PROVE  Cardinality(Exits(M, side0)) <= Cardinality(Exits(M \cup {x}, side0))
<1> DEFINE N == M \cup {x}
           E == Exits(M, side0)
           F == Exits(N, side0)
<1>1. Dated(M) /\ Dated(N) /\ x.ts \in Nat
  BY DatedLess DEF Dated
<1>2. IsFiniteSet(E) /\ IsFiniteSet(F) /\ Cardinality(E) \in Nat /\ Cardinality(F) \in Nat
  BY <1>1, ExitsFinite
<1>3. \A m \in M : m.ts \in Nat /\ m.ts # x.ts
  BY <1>1 DEF Dated
<1>4. E \subseteq M /\ F \subseteq N
  BY DEF Exits
<1>5. CASE E \subseteq F
  BY <1>2, <1>5, FS_Subset
<1>6. CASE ~(E \subseteq F)
  <2>1. PICK y \in E : y \notin F
    BY <1>6
  <2>2. y \in M /\ y.side # In /\ SidesPrior(M, side0, y) = {In} /\ SidesPrior(N, side0, y) # {In}
    BY <2>1 DEF Exits
  (* the new mark stands right before any such mark *)
  <2>3. ASSUME NEW m \in M, Prior(N, m) # Prior(M, m)
        PROVE  x.ts < m.ts /\ \A j \in M : j.ts < m.ts => j.ts < x.ts
    <3>1. x.ts < m.ts
      BY <2>3, <1>3 DEF Prior
    <3>2. ASSUME NEW j \in M, j.ts < m.ts, ~(j.ts < x.ts) PROVE FALSE
      <4>1. x.ts < j.ts
        BY <1>1, <1>3, <3>2
      <4>2. Prior(N, m) = Prior(M, m)
        BY <1>1, <1>3, <3>2, <4>1 DEF Prior
      <4> QED BY <2>3, <4>2
    <3> QED BY <3>1, <3>2
  <2>4. Prior(N, y) # Prior(M, y)
    BY <2>2 DEF SidesPrior
  <2>5. x.ts < y.ts /\ \A j \in M : j.ts < y.ts => j.ts < x.ts
    BY <2>2, <2>3, <2>4
  <2>6. Prior(N, y) = {x}
    BY <1>1, <1>3, <2>5 DEF Prior
  <2>7. x.side # In
    BY <2>2, <2>6 DEF SidesPrior
  <2>8. Prior(N, x) = Prior(M, y)
    BY <1>1, <1>3, <2>2, <2>5 DEF Prior
  <2>9. SidesPrior(N, side0, x) = {In}
    BY <2>2, <2>8 DEF SidesPrior
  <2>10. x \in F /\ x \notin E
    BY <1>4, <2>7, <2>9 DEF Exits
  <2>11. ASSUME NEW z \in E, z \notin F PROVE z = y
    <3>1. z \in M /\ Prior(N, z) # Prior(M, z)
      BY <2>11 DEF Exits, SidesPrior
    <3>2. x.ts < z.ts /\ \A j \in M : j.ts < z.ts => j.ts < x.ts
      BY <2>3, <3>1
    <3>3. z.ts = y.ts
      BY <1>1, <1>3, <2>2, <2>5, <3>1, <3>2
    <3> QED BY <1>1, <2>2, <3>1, <3>3 DEF Dated
  <2> DEFINE G == (E \ {y}) \cup {x}
  <2>12. G \subseteq F
    BY <2>10, <2>11
  <2>13. IsFiniteSet(E \ {y}) /\ Cardinality(E \ {y}) = Cardinality(E) - 1
    BY <1>2, <2>1, FS_RemoveElement
  <2>14. Cardinality(G) = Cardinality(E)
    <3>1. x \notin E \ {y}
      BY <2>10
    <3>2. Cardinality((E \ {y}) \cup {x}) = Cardinality(E \ {y}) + 1
      BY <2>13, <3>1, FS_AddElement
    <3> QED BY <1>2, <2>13, <3>2
  <2>15. Cardinality(G) <= Cardinality(F)
    BY <1>2, <2>12, FS_Subset
  <2> QED BY <2>14, <2>15
<1> QED BY <1>5, <1>6

(* Nor do any number of marks. *)
LEMMA ExitsMore ==
    ASSUME NEW N, Dated(N), NEW M \in SUBSET N, NEW side0
    PROVE  Cardinality(Exits(M, side0)) <= Cardinality(Exits(N, side0))
<1> DEFINE Fewer(T) == ~(Cardinality(Exits(M, side0)) <= Cardinality(Exits(T, side0)))
           C == {T \in SUBSET N : M \subseteq T /\ Fewer(T)}
<1> SUFFICES ASSUME C # {} PROVE FALSE
  OBVIOUS
<1>1. PICK T \in C : \A U \in C : U \subseteq T => U = T
  <2>1. C \in SUBSET (SUBSET N)
    OBVIOUS
  <2> HIDE DEF C
  <2> QED BY <2>1, Smallest DEF Dated
<1>2. Dated(T) /\ Dated(M) /\ M \subseteq T /\ Fewer(T)
  BY <1>1, DatedLess
<1>3. Cardinality(Exits(M, side0)) \in Nat /\ Cardinality(Exits(T, side0)) \in Nat
  BY <1>2, ExitsFinite
<1>4. M # T
  BY <1>2, <1>3
<1>5. PICK x \in T : x \notin M
  BY <1>2, <1>4
<1> DEFINE U == T \ {x}
<1>6. U \in SUBSET N /\ M \subseteq U /\ U # T /\ Dated(U) /\ T = U \cup {x} /\ x \notin U
  BY <1>1, <1>2, <1>5, DatedLess
<1>7. ~Fewer(U)
  BY <1>1, <1>6
<1> HIDE DEF U
<1>8. Cardinality(Exits(U, side0)) <= Cardinality(Exits(T, side0))
  BY <1>2, <1>6, ExitsInsert
<1>9. Cardinality(Exits(U, side0)) \in Nat
  BY <1>6, ExitsFinite
<1> QED BY <1>2, <1>3, <1>7, <1>8, <1>9

(* The marks up to some time leave the range as they do among all. *)
LEMMA ExitsUpto ==
    ASSUME NEW M, Dated(M), NEW side0, NEW t \in Nat
    PROVE  Exits(Upto(M, t), side0) = {m \in Exits(M, side0) : m.ts <= t}
<1>1. \A m \in M : m.ts \in Nat
  BY DEF Dated
<1>2. \A m \in Upto(M, t) : Prior(Upto(M, t), m) = Prior(M, m)
  BY <1>1 DEF Prior, Upto
<1>3. \A m \in Upto(M, t) : SidesPrior(Upto(M, t), side0, m) = SidesPrior(M, side0, m)
  BY <1>2 DEF SidesPrior
<1> QED BY <1>3 DEF Exits, Upto

(* and one mark more is one exit more at most.                             *)
LEMMA CountMore ==
    ASSUME NEW N, Dated(N), NEW M \in SUBSET N, NEW side0, NEW t \in Nat, NEW u \in Nat, t <= u
    PROVE  /\ Count(M, side0, t) <= Count(N, side0, u)
           /\ Count(M, side0, t) \in Nat /\ Count(N, side0, u) \in Nat
           /\ Count(N, side0, u) <= Cardinality(Exits(N, side0))
<1>1. Dated(M) /\ Dated(Upto(M, t)) /\ Dated(Upto(N, u)) /\ \A m \in N : m.ts \in Nat
  BY DatedLess DEF Upto, Dated
<1>2. Upto(M, t) \in SUBSET Upto(N, u) /\ Upto(N, u) \in SUBSET N
  BY <1>1 DEF Upto
<1> QED BY <1>1, <1>2, ExitsMore, ExitsFinite DEF Count

(* Between a time in range and a mark out of range, some mark leaves it.   *)
LEMMA ExitsBetween ==
    ASSUME NEW M, Dated(M), NEW side0, NEW x \in M, x.side # In,
           NEW after, \/ after = -1 /\ side0 = In
                      \/ \E m \in M : m.side = In /\ m.ts = after,
           after < x.ts
    PROVE  \E y \in Exits(M, side0) : after < y.ts /\ y.ts <= x.ts
<1> DEFINE S == {m \in M : m.side # In /\ m.ts <= x.ts /\ after < m.ts}
<1>0. \A m \in M : m.ts \in Nat
  BY DEF Dated
<1>1. IsFiniteSet(S) /\ S # {} /\ \A m \in S : m.ts \in Nat
  <2>1. x \in S
    BY <1>0
  <2> QED BY <1>0, <2>1, FS_Subset DEF Dated
<1>2. PICK y \in S : \A k \in S : y.ts <= k.ts
  <2> HIDE DEF S
  <2> QED BY <1>1, Earliest
<1>3. y \in M /\ y.side # In /\ y.ts <= x.ts /\ after < y.ts
  OBVIOUS
<1>4. CASE \E k \in M : k.ts < y.ts
  <2>1. PICK k \in M : k.ts < y.ts
    BY <1>4
  <2>2. PICK n \in M : Prior(M, y) = {n} /\ n.ts < y.ts /\ k.ts <= n.ts
    BY <1>0, <1>3, <2>1, PriorIsOne
  <2>3. n.side = In
    <3>1. n \notin S
      BY <1>0, <1>2, <1>3, <2>2
    <3>2. n.side = In \/ ~(after < n.ts)
      BY <1>0, <1>3, <2>2, <3>1
    <3>3. ASSUME ~(after < n.ts) PROVE n.side = In
      <4>1. after # -1
        BY <1>0, <3>3
      <4>2. PICK m \in M : m.side = In /\ m.ts = after
        BY <4>1
      <4>3. m \in M /\ m.ts < y.ts
        BY <1>3, <4>2
      <4>4. m.ts <= n.ts
        BY <2>2, <4>3 DEF Prior
      <4>5. m.ts = n.ts
        BY <1>0, <3>3, <4>2, <4>4
      <4> QED BY <4>2, <4>5 DEF Dated
    <3> QED BY <3>2, <3>3
  <2>4. SidesPrior(M, side0, y) = {In}
    BY <2>2, <2>3 DEF SidesPrior
  <2> QED BY <1>3, <2>4 DEF Exits
<1>5. CASE ~ \E k \in M : k.ts < y.ts
  <2>1. Prior(M, y) = {}
    BY <1>5, PriorNone
  <2>2. side0 = In
    BY <1>3, <1>5
  <2>3. SidesPrior(M, side0, y) = {In}
    BY <2>1, <2>2 DEF SidesPrior
  <2> QED BY <1>3, <2>3 DEF Exits
<1> QED BY <1>4, <1>5

-----------------------------------------------------------------------------
(* A row the table has not handed out yet. *)
Unused(p) == row[p].status = "none" => row[p] = Absent /\ marks[p] = {}

(* The marks of a position stand on price rows: none is newer than the     *)
(* newest row, and one that stands on it agrees with it.                   *)
OnPrices(p) ==
    \A m \in marks[p] :
        /\ m.ts <= price.ts
        /\ m.ts = price.ts => /\ m.active = price.active
                              /\ m.side = SideOf(price.active, row[p].center)

(* Some mark is the newest. *)
Newest(p, m) == m \in marks[p] /\ \A k \in marks[p] : k.ts <= m.ts
HasNewest(p) == marks[p] # {} => \E m \in marks[p] : Newest(p, m)

(* The exit clock: set exactly while out of range, started at a mark, and  *)
(* contradicted by no mark since.                                          *)
Clock(p) ==
    /\ row[p].outSince = NoTs <=> row[p].outSide = In
    /\ row[p].outSide # In =>
         /\ \E m \in marks[p] : m.ts = row[p].outSince
         /\ \A m \in marks[p] : m.ts >= row[p].outSince => m.side = row[p].outSide

(* What the flags were raised on. *)
Raised(p) ==
    /\ row[p].ever => \E m \in marks[p] : m.side = In
    /\ row[p].flags \cap {"soft", "hard"} # {} => row[p].ever
    /\ "hard" \in row[p].flags =>
         /\ row[p].outSide = "below"
         /\ \E m \in marks[p] : row[p].outSince + HardHours <= m.ts

Credited(p) ==
    row[p].feeHours # 0 =>
        \E m \in marks[p], start \in Starts(p) :
            m.side = In /\ row[p].feeHours + start <= m.ts

(* The price was at last_active at the opening or at a mark, so walk only  *)
(* leaves behind bins that it once stood in.                               *)
Walked(p) ==
    row[p].status # "none" =>
        /\ row[p].last \in Landed(p)
        /\ \A o \in Offset :
             /\ row[p].center + o \notin Landed(p)
             /\ FilledRight(row[p], row[p].center + o)
             => row[p].legs[o] = IF row[p].center + o < row[p].last THEN "quote" ELSE "base"

(* The counter of rebalances is exact, and was_in_range is what the newest *)
(* mark, or the entry, says.                                               *)
EntrySide(r) == SideOf(r.entry, r.center)

Counted(p) ==
    row[p].status # "none" =>
        /\ Dated(marks[p])
        /\ row[p].rebals = Cardinality(Exits(marks[p], EntrySide(row[p])))
        /\ row[p].txs = 1 + 2 * row[p].rebals
        /\ marks[p] = {} => (row[p].wasIn <=> EntrySide(row[p]) = In)
        /\ \A n \in marks[p] : Newest(p, n) => (row[p].wasIn <=> n.side = In)

PosInv(p) ==
    /\ Unused(p)
    /\ OnPrices(p)
    /\ HasNewest(p)
    /\ Clock(p)
    /\ Raised(p)
    /\ Credited(p)
    /\ Walked(p)
    /\ Counted(p)

MarkInv == TypeOK /\ price.ts <= now /\ \A p \in Position : PosInv(p)

(* The CHOOSE in LastTs returns the time of the newest mark. *)
LEMMA LastTsIsNewest ==
    ASSUME NEW p \in Position, TypeOK, NEW m \in marks[p], Newest(p, m)
    PROVE  LastTs(p) = m.ts
<1> DEFINE T == {k.ts : k \in marks[p]}
<1>1. marks[p] \subseteq Mark
  BY DEF TypeOK
<1>2. T \subseteq Nat
  BY <1>1 DEF Mark
<1>3. m.ts \in T /\ \A k \in marks[p] : k.ts <= m.ts
  BY DEF Newest
<1>4. \E t \in T : \A k \in marks[p] : k.ts <= t
  BY <1>3
<1> DEFINE t0 == CHOOSE t \in T : \A k \in marks[p] : k.ts <= t
<1>5. t0 \in T /\ \A k \in marks[p] : k.ts <= t0
  BY <1>4, Zenon
<1>6. t0 = LastTs(p)
  BY DEF LastTs
<1> HIDE DEF t0
<1>7. PICK k \in marks[p] : t0 = k.ts
  BY <1>5
<1>8. m.ts <= t0 /\ t0 <= m.ts
  BY <1>5, <1>3, <1>7
<1>9. m.ts \in Nat /\ t0 \in Nat
  BY <1>2, <1>3, <1>5
<1>10. QED
  BY <1>6, <1>8, <1>9

LEMMA SideOfIsSide ==
    ASSUME NEW a, NEW c PROVE SideOf(a, c) \in Side
BY DEF SideOf, Side, In

(* Only the newest mark matters to the next one: what the helpers of a     *)
(* mark return is well typed, and the credited time never runs backwards.  *)
LEMMA PrevTsType ==
    ASSUME NEW p \in Position, TypeOK, HasNewest(p)
    PROVE  PrevTs(p) \in Nat
<1>1. CASE marks[p] = {}
  BY <1>1 DEF PrevTs, TypeOK, Row
<1>2. CASE marks[p] # {}
  <2>1. PICK m \in marks[p] : Newest(p, m)
    BY <1>2 DEF HasNewest
  <2>2. LastTs(p) = m.ts
    BY <2>1, LastTsIsNewest
  <2>3. m.ts \in Nat
    BY DEF TypeOK, Mark
  <2>4. QED
    BY <1>2, <2>2, <2>3 DEF PrevTs
<1>3. QED
  BY <1>1, <1>2

(* The fields a mark writes, and the fields it leaves alone. *)
MarkFields(r, legs, last, was, ever, since, side, entry, flags, rebals, txs, credit) ==
    [r EXCEPT !.legs = legs, !.last = last, !.wasIn = was, !.ever = ever, !.outSince = since, !.outSide = side,
              !.entrySigma = entry, !.flags = flags, !.rebals = rebals,
              !.txs = txs, !.feeHours = credit]

LEMMA MarkFieldsType ==
    ASSUME NEW r \in Row, NEW legs \in [Offset -> Leg], NEW last \in Int, NEW was \in BOOLEAN, NEW ever \in BOOLEAN,
           NEW since \in Nat \cup {NoTs}, NEW side \in Side, NEW entry \in Nat,
           NEW flags \in SUBSET Flag, NEW rebals \in Nat, NEW txs \in Nat,
           NEW credit \in Nat
    PROVE  LET s == MarkFields(r, legs, last, was, ever, since, side, entry, flags, rebals, txs, credit)
           IN  /\ s \in Row
               /\ s.status = r.status /\ s.center = r.center /\ s.openedAt = r.openedAt
               /\ s.ever = ever /\ s.outSince = since /\ s.outSide = side
               /\ s.flags = flags /\ s.feeHours = credit
               /\ s.entry = r.entry /\ s.legs = legs /\ s.last = last
               /\ s.wasIn = was /\ s.rebals = rebals /\ s.txs = txs
BY DEF MarkFields, Row

LEMMA WalkType ==
    ASSUME NEW r \in Row, NEW active PROVE Walk(r, active) \in [Offset -> Leg]
BY DEF Walk, Leg, Row

(* What a mark writes: the fields of the row it leaves behind.             *)
LEMMA MarkedRow ==
    ASSUME NEW p \in Position, TypeOK, HasNewest(p),
           NEW sigma \in Sigmas, NEW bad \in BOOLEAN
    PROVE  LET s    == Marked(p, sigma, bad)
               r    == row[p]
               side == SideOf(price.active, r.center)
           IN  /\ s \in Row
               /\ s.status = r.status /\ s.center = r.center /\ s.openedAt = r.openedAt
               /\ s.ever <=> (r.ever \/ side = In)
               /\ s.outSince = OutSince(r, side)
               /\ s.outSide = side
               /\ s.flags \cap {"soft", "hard"} =
                    BelowFlags(s.ever, side, IF s.outSince = NoTs THEN 0
                                             ELSE price.ts - s.outSince)
               /\ s.feeHours = IF side = In
                                THEN r.feeHours + HoursSince(price.ts, PrevTs(p))
                                ELSE r.feeHours
               /\ s.entry = r.entry /\ s.last = price.active
               /\ s.legs = Walk(r, price.active)
               /\ s.wasIn <=> side = In
               /\ s.rebals = IF LeftRange(r, side) THEN r.rebals + 1 ELSE r.rebals
               /\ s.txs = IF LeftRange(r, side) THEN r.txs + 2 ELSE r.txs
<1> DEFINE r     == row[p]
           side  == SideOf(price.active, r.center)
           since == OutSince(r, side)
           was   == side = In
           ever  == r.ever \/ side = In
           entry == IF r.entrySigma = 0 THEN sigma ELSE r.entrySigma
           out   == IF since = NoTs THEN 0 ELSE price.ts - since
           flags == Evaluate(ever, side, out, entry, sigma, bad)
           rebals == IF LeftRange(r, side) THEN r.rebals + 1 ELSE r.rebals
           txs   == IF LeftRange(r, side) THEN r.txs + 2 ELSE r.txs
           hours == HoursSince(price.ts, PrevTs(p))
           credit  == IF side = In THEN r.feeHours + hours ELSE r.feeHours
           legs  == Walk(r, price.active)
           last  == price.active
<1>1. r \in Row /\ price \in [ts : Nat, active : Int]
  BY DEF TypeOK
<1>2. side \in Side
  BY SideOfIsSide
<1>3. since \in Nat \cup {NoTs}
  BY <1>1 DEF OutSince, Row
<1>4. was \in BOOLEAN /\ ever \in BOOLEAN
  BY Zenon
<1>5. entry \in Nat
  BY <1>1, PaperMarkAssumption DEF Row
<1>6. flags \in SUBSET Flag /\ flags \cap {"soft", "hard"} = BelowFlags(ever, side, out)
  <2> HIDE DEF ever, side, out, entry
  <2>1. BelowFlags(ever, side, out) \in SUBSET {"soft", "hard"}
    BY DEF BelowFlags
  <2> DEFINE shock == IF SigmaShock(entry, sigma) THEN {"sigma"} ELSE {}
             pool  == IF bad THEN {"pool"} ELSE {}
  <2>2. flags = BelowFlags(ever, side, out) \cup shock \cup pool
    BY Zenon DEF Evaluate
  <2>3. shock \in SUBSET {"sigma"} /\ pool \in SUBSET {"pool"}
    OBVIOUS
  <2> HIDE DEF shock, pool, flags
  <2>4. QED
    BY <2>1, <2>2, <2>3 DEF Flag
<1>7. rebals \in Nat /\ txs \in Nat
  BY <1>1 DEF Row
<1>8. hours \in Nat
  BY <1>1, PrevTsType DEF HoursSince
<1>9. credit \in Nat
  BY <1>1, <1>8 DEF Row
<1>10. Marked(p, sigma, bad) =
         MarkFields(r, legs, last, was, ever, since, side, entry, flags, rebals, txs, credit)
  BY Zenon DEF Marked, MarkFields
<1>a. legs \in [Offset -> Leg] /\ last \in Int
  BY <1>1, WalkType
<1> HIDE DEF r, side, since, was, ever, entry, flags, rebals, txs, credit, legs, last
<1>11. LET s == Marked(p, sigma, bad)
       IN  /\ s \in Row
           /\ s.status = r.status /\ s.center = r.center /\ s.openedAt = r.openedAt
           /\ s.ever = ever /\ s.outSince = since /\ s.outSide = side
           /\ s.flags = flags /\ s.feeHours = credit
           /\ s.entry = r.entry /\ s.legs = legs /\ s.last = last
           /\ s.wasIn = was /\ s.rebals = rebals /\ s.txs = txs
  <2> DEFINE s == MarkFields(r, legs, last, was, ever, since, side, entry, flags, rebals, txs, credit)
  <2>1. /\ s \in Row
        /\ s.status = r.status /\ s.center = r.center /\ s.openedAt = r.openedAt
        /\ s.ever = ever /\ s.outSince = since /\ s.outSide = side
        /\ s.flags = flags /\ s.feeHours = credit
        /\ s.entry = r.entry /\ s.legs = legs /\ s.last = last
        /\ s.wasIn = was /\ s.rebals = rebals /\ s.txs = txs
    <3> HIDE DEF s
    <3>1. flags \in SUBSET Flag /\ r \in Row
      BY <1>1, <1>6
    <3> QED BY <1>a, <1>2, <1>3, <1>4, <1>5, <1>7, <1>9, <3>1, MarkFieldsType, SMTT(30) DEF s
  <2> HIDE DEF s
  <2> QED BY <1>10, <2>1 DEF s
<1>12. QED
  BY <1>6, <1>11, Zenon DEF r, side, since, was, ever, rebals, txs, out, credit, hours, legs, last

(***************************************************************************)
(* One mark of one open position keeps every part of the invariant.        *)
(***************************************************************************)
LEMMA MarkKeepsPosInv ==
    ASSUME NEW p \in Position, MarkInv, row[p].status = "open",
           NEW sigma \in Sigmas, NEW bad \in BOOLEAN,
           row'[p] = Marked(p, sigma, bad), marks'[p] = MarkRows(p),
           price' = price
    PROVE  PosInv(p)'
<1> DEFINE r    == row[p]
           side == SideOf(price.active, r.center)
           rows == marks[p]
<1>1. TypeOK /\ PosInv(p) /\ HasNewest(p)
  BY DEF MarkInv, PosInv
<1>2. /\ row'[p].status = "open" /\ row'[p].center = r.center
      /\ row'[p].openedAt = r.openedAt
      /\ row'[p].ever <=> (r.ever \/ side = In)
      /\ row'[p].outSince = OutSince(r, side)
      /\ row'[p].outSide = side
      /\ row'[p].flags \cap {"soft", "hard"} =
           BelowFlags(row'[p].ever, side, IF row'[p].outSince = NoTs THEN 0
                                          ELSE price.ts - row'[p].outSince)
      /\ row'[p].feeHours = IF side = In THEN r.feeHours + HoursSince(price.ts, PrevTs(p))
                            ELSE r.feeHours
      /\ row'[p].entry = r.entry /\ row'[p].last = price.active
      /\ row'[p].legs = Walk(r, price.active)
      /\ row'[p].wasIn <=> side = In
      /\ row'[p].rebals = IF LeftRange(r, side) THEN r.rebals + 1 ELSE r.rebals
      /\ row'[p].txs = IF LeftRange(r, side) THEN r.txs + 2 ELSE r.txs
  <2> DEFINE s == Marked(p, sigma, bad)
  <2>1. LET t == s
        IN  /\ t \in Row
            /\ t.status = r.status /\ t.center = r.center /\ t.openedAt = r.openedAt
            /\ t.ever <=> (r.ever \/ side = In)
            /\ t.outSince = OutSince(r, side)
            /\ t.outSide = side
            /\ t.flags \cap {"soft", "hard"} =
                 BelowFlags(t.ever, side, IF t.outSince = NoTs THEN 0
                                          ELSE price.ts - t.outSince)
            /\ t.feeHours = IF side = In
                            THEN r.feeHours + HoursSince(price.ts, PrevTs(p))
                            ELSE r.feeHours
            /\ t.entry = r.entry /\ t.last = price.active
            /\ t.legs = Walk(r, price.active)
            /\ t.wasIn <=> side = In
            /\ t.rebals = IF LeftRange(r, side) THEN r.rebals + 1 ELSE r.rebals
            /\ t.txs = IF LeftRange(r, side) THEN r.txs + 2 ELSE r.txs
    BY <1>1, MarkedRow
  <2>2. row'[p] = s
    OBVIOUS
  <2> HIDE DEF s, side
  <2>3. QED
    BY <2>1, <2>2
<1>3. side \in Side /\ price.ts \in Nat /\ r \in Row /\ rows \in SUBSET Mark
  BY <1>1, SideOfIsSide DEF TypeOK
(* the mark stands on the newest price row, whether or not it was there *)
<1>4. PICK m0 \in marks'[p] : m0.ts = price.ts /\ m0.active = price.active /\ m0.side = side
  <2>1. CASE \E m \in rows : m.ts = price.ts
    <3>1. PICK m \in rows : m.ts = price.ts
      BY <2>1
    <3>2. m.side = side /\ m.active = price.active
      BY <3>1, <1>1 DEF PosInv, OnPrices
    <3>3. QED
      BY <3>1, <3>2 DEF MarkRows
  <2>2. CASE ~ \E m \in rows : m.ts = price.ts
    <3> DEFINE new == [ts |-> price.ts, active |-> price.active, side |-> side]
    <3>1. new \in marks'[p]
      BY <2>2 DEF MarkRows
    <3>2. new.ts = price.ts /\ new.active = price.active /\ new.side = side
      OBVIOUS
    <3>3. QED
      BY <3>1, <3>2
  <2>3. QED
    BY <2>1, <2>2
<1>5. rows \subseteq marks'[p] /\ \A m \in marks'[p] :
        m \in rows \/ (m.ts = price.ts /\ m.active = price.active /\ m.side = side)
  BY DEF MarkRows
<1>6. \A m \in marks'[p] : m.ts <= price.ts /\ m.ts \in Nat
        /\ (m.ts = price.ts => m.side = side /\ m.active = price.active)
  BY <1>1, <1>3, <1>5 DEF PosInv, OnPrices, Mark
<1>7. OnPrices(p)'
  BY <1>2, <1>6 DEF OnPrices, SideOf
<1>8. Unused(p)'
  BY <1>2 DEF Unused
<1>9. HasNewest(p)'
  BY <1>4, <1>6 DEF HasNewest, Newest
<1>10. Clock(p)'
  <2>1. CASE side = In
    BY <2>1, <1>2 DEF Clock, OutSince
  <2>2. CASE side # In /\ (r.outSince = NoTs \/ side # r.outSide)
    <3>1. row'[p].outSince = price.ts /\ row'[p].outSide = side
      BY <2>2, <1>2 DEF OutSince
    <3>2. \A m \in marks'[p] : m.ts >= price.ts => m.side = side
      BY <1>6, <1>3
    <3>3. price.ts # NoTs
      BY <1>3 DEF NoTs
    <3>4. QED
      BY <2>2, <3>1, <3>2, <3>3, <1>4 DEF Clock
  <2>3. CASE side # In /\ r.outSince # NoTs /\ side = r.outSide
    <3>1. row'[p].outSince = r.outSince /\ row'[p].outSide = r.outSide
      BY <2>3, <1>2 DEF OutSince
    <3>2. QED
      BY <2>3, <3>1, <1>1, <1>5 DEF PosInv, Clock
  <2>4. QED
    BY <2>1, <2>2, <2>3
<1>11. Raised(p)'
  <2>1. row'[p].ever => \E m \in marks'[p] : m.side = In
    <3>1. CASE side = In
      BY <3>1, <1>4
    <3>2. CASE r.ever
      BY <3>2, <1>1, <1>5 DEF PosInv, Raised
    <3>3. QED
      BY <3>1, <3>2, <1>2
  <2>2. row'[p].flags \cap {"soft", "hard"} # {} => row'[p].ever
    BY <1>2 DEF BelowFlags
  <2>3. ASSUME "hard" \in row'[p].flags
        PROVE  side = "below" /\ row'[p].outSince + HardHours <= price.ts
    <3> DEFINE out == IF row'[p].outSince = NoTs THEN 0 ELSE price.ts - row'[p].outSince
    <3>1. "hard" \in BelowFlags(row'[p].ever, side, out)
      BY <2>3, <1>2
    <3>2. side = "below" /\ out >= HardHours
      BY <3>1 DEF BelowFlags
    <3>3. row'[p].outSince \in Nat
      BY <1>2, <1>3, <3>2 DEF OutSince, Row, NoTs, In
    <3>4. QED
      BY <3>2, <3>3, <1>3, PaperMarkAssumption DEF NoTs
  <2>4. QED
    BY <2>1, <2>2, <2>3, <1>2, <1>4 DEF Raised
<1>12. Credited(p)'
  <2>1. CASE side # In
    <3>1. row'[p].feeHours = r.feeHours
      BY <2>1, <1>2
    <3>2. QED
      BY <3>1, <1>1, <1>2, <1>5 DEF PosInv, Credited, Starts
  <2>2. CASE side = In /\ rows = {}
    <3>1. r.feeHours = 0 /\ PrevTs(p) = r.openedAt
      BY <2>2, <1>1 DEF PosInv, Credited, PrevTs
    <3>2. row'[p].feeHours = HoursSince(price.ts, r.openedAt)
      BY <2>2, <3>1, <1>2, <1>3 DEF HoursSince, Row
    <3>3. row'[p].feeHours # 0 => row'[p].feeHours + r.openedAt <= price.ts
      BY <3>2, <1>3 DEF HoursSince, Row
    <3>4. QED
      BY <2>2, <3>3, <1>2, <1>4 DEF Credited, Starts
  <2>3. CASE side = In /\ rows # {}
    <3>1. PICK n \in rows : Newest(p, n)
      BY <2>3, <1>1 DEF HasNewest
    <3>2. PrevTs(p) = n.ts
      BY <2>3, <3>1, <1>1, LastTsIsNewest DEF PrevTs
    <3>3. n.ts <= price.ts /\ n.ts \in Nat
      BY <1>5, <1>6, <3>1
    <3>4. row'[p].feeHours = r.feeHours + (price.ts - n.ts)
      BY <2>3, <3>2, <3>3, <1>2, <1>3 DEF HoursSince
    <3>5. CASE r.feeHours = 0
      <4>1. row'[p].feeHours + n.ts <= price.ts /\ n \in marks'[p]
        BY <3>3, <3>4, <3>5, <1>3, <1>5
      <4>2. QED
        BY <2>3, <4>1, <1>2, <1>4 DEF Credited, Starts
    <3>6. CASE r.feeHours # 0
      <4>1. PICK m \in rows, start \in Starts(p) : r.feeHours + start <= m.ts
        BY <3>6, <1>1 DEF PosInv, Credited
      <4>2. start \in Nat /\ m.ts \in Nat /\ m.ts <= n.ts
        BY <4>1, <3>1, <1>3 DEF Starts, Row, Mark, Newest
      <4>3. row'[p].feeHours + start <= price.ts
        BY <3>3, <3>4, <4>1, <4>2, <1>3 DEF Row
      <4>4. start \in Starts(p)'
        BY <4>1, <1>2, <1>5 DEF Starts
      <4>5. QED
        BY <2>3, <4>3, <4>4, <1>4 DEF Credited
    <3>7. QED
      BY <3>5, <3>6
  <2>4. QED
    BY <2>1, <2>2, <2>3
<1>13. Walked(p)'
  <2>1. Landed(p)' = Landed(p) \cup {price.active}
    BY <1>2, <1>4, <1>5 DEF Landed
  <2>2. r.last \in Landed(p) /\ r.last \in Int /\ r.center \in Int /\ price.active \in Int
    BY <1>1, <1>3 DEF PosInv, Walked, Row, TypeOK
  <2>3. ASSUME NEW o \in Offset, r.center + o \notin Landed(p)',
               FilledRight(row'[p], row'[p].center + o)
        PROVE  row'[p].legs[o] = IF r.center + o < price.active THEN "quote" ELSE "base"
    <3> DEFINE b == r.center + o
    <3>1. b # price.active /\ b # r.last /\ b \notin Landed(p) /\ b \in Int /\ FilledRight(r, b)
      BY <1>2, <2>1, <2>2, <2>3, PaperMarkAssumption DEF Offset, FilledRight
    <3>2. r.legs[o] = IF b < r.last THEN "quote" ELSE "base"
      BY <1>1, <3>1 DEF PosInv, Walked
    <3>3. row'[p].legs[o] = IF b \in (r.last + 1)..price.active THEN "quote"
                            ELSE IF b \in price.active..(r.last - 1) THEN "base"
                            ELSE r.legs[o]
      BY <1>2 DEF Walk
    <3> HIDE DEF b
    <3>4. row'[p].legs[o] = IF b < price.active THEN "quote" ELSE "base"
      BY <2>2, <3>1, <3>2, <3>3
    <3>5. QED
      BY <3>4 DEF b
  <2>4. row'[p].last \in Landed(p)'
    BY <1>2, <2>1
  <2>5. QED
    BY <1>2, <2>3, <2>4 DEF Walked
<1>14. Counted(p)'
  <2> DEFINE side0 == EntrySide(r)
  <2>0. Counted(p) /\ OnPrices(p) /\ r.rebals \in Nat /\ r.txs \in Nat
    BY <1>1, <1>3 DEF PosInv, Row
  <2>1. EntrySide(row'[p]) = side0
    BY <1>2 DEF EntrySide
  <2>2. CASE \E m \in rows : m.ts = price.ts
    <3>1. PICK k \in rows : k.ts = price.ts
      BY <2>2
    <3>2. Newest(p, k) /\ k.side = side
      BY <2>0, <3>1 DEF OnPrices, Newest
    <3>3. ~ LeftRange(r, side)
      BY <2>0, <3>2 DEF Counted, LeftRange
    <3>4. marks'[p] = rows
      BY <2>2 DEF MarkRows
    <3>5. \A n \in rows : (Newest(p, n))' => n.side = side
      BY <3>1, <3>2, <3>4, <2>0 DEF Newest, OnPrices, Counted, Dated
    <3> HIDE DEF side, side0
    <3> QED BY <1>2, <2>0, <2>1, <3>1, <3>3, <3>4, <3>5 DEF Counted, side0
  <2>3. CASE ~ \E m \in rows : m.ts = price.ts
    <3> DEFINE x == [ts |-> price.ts, active |-> price.active, side |-> side]
    <3>1. marks'[p] = rows \cup {x} /\ x.ts = price.ts /\ x.side = side
      BY <2>3 DEF MarkRows
    <3> HIDE DEF x
    <3>2. x.ts \in Nat /\ \A m \in rows : m.ts < x.ts
      BY <1>3, <2>0, <2>3, <3>1 DEF OnPrices, Mark
    <3>3. Dated(rows)
      BY <2>0 DEF Counted
    <3>4. SidesPrior(rows, side0, x) = {In} <=> r.wasIn
      <4>1. CASE rows = {}
        <5>1. Prior(rows, x) = {}
          BY <4>1, PriorNone
        <5> QED BY <2>0, <4>1, <5>1 DEF Counted, SidesPrior
      <4>2. CASE rows # {}
        <5>1. PICK n \in rows : Newest(p, n)
          BY <1>1, <4>2 DEF HasNewest
        <5>2. PICK k \in rows : Prior(rows, x) = {k} /\ n.ts <= k.ts
          BY <3>2, <3>3, PriorIsOne
        <5>3. k = n
          BY <3>3, <5>1, <5>2 DEF Newest, Dated
        <5>4. SidesPrior(rows, side0, x) = {n.side}
          BY <5>2, <5>3 DEF SidesPrior
        <5> QED BY <2>0, <5>1, <5>4 DEF Counted
      <4> QED BY <4>1, <4>2
    <3>5. LeftRange(r, side) <=> x.side # In /\ SidesPrior(rows, side0, x) = {In}
      BY <3>1, <3>4 DEF LeftRange
    <3>6. /\ Dated(marks'[p])
          /\ Exits(marks'[p], side0) = Exits(rows, side0) \cup (IF LeftRange(r, side) THEN {x} ELSE {})
          /\ x \notin Exits(rows, side0)
      <4>1. /\ Dated(rows \cup {x})
            /\ Exits(rows \cup {x}, side0) =
                 Exits(rows, side0) \cup
                   (IF x.side # In /\ SidesPrior(rows, side0, x) = {In} THEN {x} ELSE {})
            /\ x \notin Exits(rows, side0)
        BY <3>2, <3>3, ExitsAppend
      <4>2. (IF x.side # In /\ SidesPrior(rows, side0, x) = {In} THEN {x} ELSE {}) =
            IF LeftRange(r, side) THEN {x} ELSE {}
        BY <3>5, Zenon
      <4> QED BY <3>1, <4>1, <4>2, Zenon
    <3>7. IsFiniteSet(Exits(rows, side0)) /\ Cardinality(Exits(rows, side0)) \in Nat
      BY <3>3, ExitsFinite
    <3>8. Cardinality(Exits(marks'[p], side0)) =
            IF LeftRange(r, side) THEN Cardinality(Exits(rows, side0)) + 1
            ELSE Cardinality(Exits(rows, side0))
      <4>1. CASE LeftRange(r, side)
        BY <3>6, <3>7, <4>1, FS_AddElement
      <4>2. CASE ~ LeftRange(r, side)
        BY <3>6, <4>2
      <4> QED BY <4>1, <4>2
    <3>9. r.rebals = Cardinality(Exits(rows, side0)) /\ r.txs = 1 + 2 * r.rebals
      BY <2>0 DEF Counted
    <3>10. marks'[p] # {} /\ \A n \in marks'[p] : (Newest(p, n))' => n = x
      BY <3>1, <3>2, <3>3 DEF Newest, Dated
    <3> HIDE DEF side, side0
    <3>11. row'[p].rebals = Cardinality(Exits(marks'[p], side0))
      BY <1>2, <3>8, <3>9
    <3>12. row'[p].txs = 1 + 2 * row'[p].rebals
      BY <1>2, <2>0, <3>9
    <3> QED BY <1>2, <2>1, <3>1, <3>6, <3>10, <3>11, <3>12 DEF Counted
  <2> QED BY <2>2, <2>3
<1>15. QED
  BY <1>7, <1>8, <1>9, <1>10, <1>11, <1>12, <1>13, <1>14 DEF PosInv

(* A position whose row and marks stand still keeps its invariant when no  *)
(* price row arrives, and when a newer one does.                           *)
LEMMA StillKeepsPosInv ==
    ASSUME NEW p \in Position, MarkInv, row'[p] = row[p], marks'[p] = marks[p],
           \/ price' = price
           \/ price'.ts \in Nat /\ price'.ts > price.ts
    PROVE  PosInv(p)'
<1>1. PosInv(p) /\ marks[p] \subseteq Mark /\ price.ts \in Nat
  BY DEF MarkInv, TypeOK
<1>2. OnPrices(p)'
  <2>1. CASE price' = price
    BY <2>1, <1>1 DEF PosInv, OnPrices, SideOf
  <2>2. CASE price'.ts \in Nat /\ price'.ts > price.ts
    BY <2>2, <1>1 DEF PosInv, OnPrices, Mark
  <2>3. QED
    BY <2>1, <2>2
<1>3. QED
  BY <1>1, <1>2 DEF PosInv, Unused, HasNewest, Newest, Clock, Raised, Credited, Starts,
                   Walked, Landed, FilledRight, Counted, EntrySide

LEMMA AbsentIsRow == Absent \in Row
<1>1. Deposit \in [Offset -> Leg]
  BY DEF Deposit, Leg
<1>2. QED
  BY <1>1 DEF Absent, Row, Side, In, NoTs

LEMMA MarkInitInv == Init => MarkInv
<1> SUFFICES ASSUME Init PROVE MarkInv
  OBVIOUS
<1>1. TypeOK
  <2>1. Absent \in Row
    BY AbsentIsRow
  <2>2. price \in [ts : Nat, active : Int]
    <3>1. price \in [ts : {0}, active : Bins]
      BY DEF Init
    <3>2. {0} \subseteq Nat /\ Bins \subseteq Int
      BY PaperMarkAssumption
    <3>3. QED
      BY <3>1, <3>2
  <2>3. QED
    BY <2>1, <2>2 DEF Init, TypeOK
<1>2. \A p \in Position : PosInv(p)
  BY DEF Init, Absent, In, NoTs, PosInv, Unused, OnPrices, HasNewest, Clock, Raised, Credited, Walked, Counted
<1>3. QED
  BY <1>1, <1>2 DEF MarkInv, Init

LEMMA MarkNextInv == MarkInv /\ [Next]_vars => MarkInv'
<1> SUFFICES ASSUME MarkInv, [Next]_vars PROVE MarkInv'
  OBVIOUS
<1>0. TypeOK /\ price.ts <= now
  BY DEF MarkInv
<1>1. CASE Tick
  <2>1. TypeOK' /\ price'.ts <= now'
    BY <1>0, <1>1 DEF Tick, TypeOK
  <2>2. \A p \in Position : PosInv(p)'
    BY <1>1, StillKeepsPosInv DEF Tick
  <2>3. QED
    BY <2>1, <2>2 DEF MarkInv
<1>2. CASE Poll
  <2>1. PICK active \in Bins : price' = [ts |-> now, active |-> active]
    BY <1>2 DEF Poll
  <2>2. active \in Int
    BY <2>1, PaperMarkAssumption
  <2>3. TypeOK' /\ price'.ts <= now'
    BY <1>0, <1>2, <2>1, <2>2 DEF Poll, TypeOK
  <2>4. price'.ts \in Nat /\ price'.ts > price.ts
    BY <1>0, <1>2, <2>1 DEF Poll, TypeOK
  <2>5. \A p \in Position : PosInv(p)'
    BY <1>2, <2>4, StillKeepsPosInv DEF Poll
  <2>6. QED
    BY <2>3, <2>5 DEF MarkInv
<1>3. ASSUME NEW p \in Position, NEW offset \in Offsets, OpenPosition(p, offset)
      PROVE  MarkInv'
  <2> DEFINE new == [Absent EXCEPT !.status = "open", !.center = price.active + offset,
                                   !.entry = price.active, !.last = price.active,
                                   !.openedAt = now,
                                   !.wasIn = offset \in -Half..Half, !.txs = 1]
  <2>1. row' = [row EXCEPT ![p] = new] /\ marks' = marks /\ price' = price /\ now' = now
    BY <1>3 DEF OpenPosition
  <2>2. offset \in Int
    BY PaperMarkAssumption
  <2>3. new \in Row
    <3> DEFINE was == offset \in -Half..Half
    <3>1. was \in BOOLEAN
      OBVIOUS
    <3> HIDE DEF was
    <3>2. price.active + offset \in Int /\ price.active \in Int /\ now \in Nat
      BY <1>0, <2>2 DEF TypeOK
    <3>3. Absent \in Row
      BY AbsentIsRow
    <3>4. [Absent EXCEPT !.status = "open", !.center = price.active + offset,
                         !.entry = price.active, !.last = price.active, !.openedAt = now,
                         !.wasIn = was, !.txs = 1] \in Row
      BY <3>1, <3>2, <3>3 DEF Row
    <3>5. QED
      BY <3>4, Zenon DEF was
  <2>4. /\ new.status = "open" /\ new.outSince = NoTs /\ new.outSide = In
        /\ new.ever = FALSE /\ new.flags = {} /\ new.feeHours = 0
        /\ new.entry = price.active /\ new.last = price.active
        /\ new.center = price.active + offset /\ new.legs = Deposit
        /\ new.wasIn = (offset \in -Half..Half) /\ new.rebals = 0 /\ new.txs = 1
    BY DEF Absent
  <2> HIDE DEF new
  <2>5. TypeOK'
    BY <1>0, <2>1, <2>3 DEF TypeOK
  <2>6. marks[p] = {}
    BY <1>3 DEF OpenPosition, MarkInv, PosInv, Unused
  <2>7. row'[p] = new
    BY <1>0, <2>1 DEF TypeOK
  <2>a. Walked(p)'
    <3>1. new.center \in Int /\ new.entry \in Int
      BY <1>0, <2>2, <2>4 DEF TypeOK
    <3>2. \A o \in Offset : FilledRight(new, new.center + o) =>
             Deposit[o] = IF new.center + o < new.last THEN "quote" ELSE "base"
      BY <2>4, <3>1, PaperMarkAssumption DEF Deposit, Offset, FilledRight
    <3>3. QED
      BY <2>4, <2>7, <3>2 DEF Walked, Landed, FilledRight
  <2>b. Counted(p)'
    <3>1. Dated({})
      BY FS_EmptySet DEF Dated
    <3>2. Cardinality(Exits({}, EntrySide(new))) = 0
      <4>1. Exits({}, EntrySide(new)) = {}
        BY DEF Exits
      <4> QED BY <4>1, FS_EmptySet
    <3>3. new.wasIn <=> EntrySide(new) = In
      <4>1. price.active \in Int /\ Half \in Nat
        BY <1>0, PaperMarkAssumption DEF TypeOK
      <4>2. EntrySide(new) = SideOf(price.active, price.active + offset)
        BY <2>4 DEF EntrySide
      <4>3. SideOf(price.active, price.active + offset) = In <=> -Half <= offset /\ offset <= Half
        BY <2>2, <4>1 DEF SideOf, In
      <4>4. offset \in -Half..Half <=> -Half <= offset /\ offset <= Half
        BY <2>2, <4>1
      <4>5. new.wasIn <=> offset \in -Half..Half
        BY <2>4, Zenon
      <4> QED BY <4>2, <4>3, <4>4, <4>5, Zenon
    <3> QED BY <2>1, <2>4, <2>6, <2>7, <3>1, <3>2, <3>3 DEF Counted
  <2>8. PosInv(p)'
    BY <2>1, <2>4, <2>6, <2>7, <2>a, <2>b
       DEF PosInv, Unused, OnPrices, HasNewest, Clock, Raised, Credited
  <2>9. \A q \in Position \ {p} : PosInv(q)'
    BY <2>1, <1>0, StillKeepsPosInv DEF TypeOK
  <2>10. QED
    BY <1>0, <2>1, <2>5, <2>8, <2>9 DEF MarkInv
<1>4. ASSUME NEW p \in Position, ClosePosition(p)
      PROVE  MarkInv'
  <2>1. row' = [row EXCEPT ![p].status = "closed"] /\ UNCHANGED <<now, price, marks>>
    BY <1>4 DEF ClosePosition
  <2>2. TypeOK'
    BY <1>0, <2>1 DEF TypeOK, Row
  <2>3. /\ row'[p].status = "closed" /\ row'[p].center = row[p].center
        /\ row'[p].openedAt = row[p].openedAt /\ row'[p].ever = row[p].ever
        /\ row'[p].outSince = row[p].outSince /\ row'[p].outSide = row[p].outSide
        /\ row'[p].flags = row[p].flags /\ row'[p].feeHours = row[p].feeHours
        /\ row'[p].entry = row[p].entry /\ row'[p].last = row[p].last
        /\ row'[p].legs = row[p].legs /\ row'[p].wasIn = row[p].wasIn
        /\ row'[p].rebals = row[p].rebals /\ row'[p].txs = row[p].txs
    BY <1>0, <2>1 DEF TypeOK, Row
  <2>4. PosInv(p)'
    BY <1>4, <2>1, <2>3
       DEF MarkInv, PosInv, Unused, OnPrices, SideOf, HasNewest, Newest,
           Clock, Raised, Credited, Starts, ClosePosition, Walked, Landed, FilledRight,
           Counted, EntrySide
  <2>5. \A q \in Position \ {p} : PosInv(q)'
    BY <2>1, <1>0, StillKeepsPosInv DEF TypeOK
  <2>6. QED
    BY <1>0, <2>1, <2>2, <2>4, <2>5 DEF MarkInv
<1>5. ASSUME NEW sigma \in Sigmas, NEW bad \in SUBSET Open, PaperMark(sigma, bad)
      PROVE  MarkInv'
  <2>1. UNCHANGED <<now, price>>
    BY <1>5 DEF PaperMark
  <2>2. \A p \in Open : row'[p] = Marked(p, sigma, p \in bad) /\ marks'[p] = MarkRows(p)
    BY <1>5 DEF PaperMark, Open
  <2>3. \A p \in Position \ Open : row'[p] = row[p] /\ marks'[p] = marks[p]
    BY <1>5 DEF PaperMark
  <2>4. \A p \in Open : p \in Position /\ row[p].status = "open" /\ HasNewest(p)
    BY DEF Open, MarkInv, PosInv
  <2>5. ASSUME NEW p \in Open PROVE row'[p] \in Row
    <3> DEFINE isBad == p \in bad
    <3>1. isBad \in BOOLEAN
      OBVIOUS
    <3> HIDE DEF isBad
    <3>2. Marked(p, sigma, isBad) \in Row
      BY <1>0, <2>4, <3>1, MarkedRow
    <3>3. QED
      BY <2>2, <3>2 DEF isBad
  <2>6. ASSUME NEW p \in Open PROVE marks'[p] \subseteq Mark
    <3> DEFINE new == [ts |-> price.ts, active |-> price.active,
                       side |-> SideOf(price.active, row[p].center)]
    <3>1. new \in Mark
      BY <1>0, SideOfIsSide DEF Mark, TypeOK
    <3>2. MarkRows(p) \subseteq marks[p] \cup {new}
      BY DEF MarkRows
    <3>3. QED
      BY <1>0, <2>2, <2>4, <3>1, <3>2 DEF TypeOK
  <2>7. TypeOK'
    <3>1. row' = [p \in Position |-> row'[p]] /\ marks' = [p \in Position |-> marks'[p]]
      BY <1>5 DEF PaperMark
    <3>2. \A p \in Position : row'[p] \in Row /\ marks'[p] \in SUBSET Mark
      BY <1>0, <2>3, <2>5, <2>6 DEF TypeOK
    <3>3. QED
      BY <1>0, <2>1, <3>1, <3>2 DEF TypeOK
  <2>8. ASSUME NEW p \in Open PROVE PosInv(p)'
    <3>1. (p \in bad) \in BOOLEAN
      OBVIOUS
    <3>2. QED
      BY <2>1, <2>2, <2>4, <3>1, MarkKeepsPosInv
  <2>9. \A p \in Position \ Open : PosInv(p)'
    BY <2>1, <2>3, StillKeepsPosInv
  <2>10. QED
    BY <1>0, <2>1, <2>7, <2>8, <2>9 DEF MarkInv
<1>6. CASE UNCHANGED vars
  <2>1. TypeOK' /\ price'.ts <= now'
    BY <1>0, <1>6 DEF vars, TypeOK
  <2>2. \A p \in Position : PosInv(p)'
    BY <1>6, StillKeepsPosInv DEF vars
  <2>3. QED
    BY <2>1, <2>2 DEF MarkInv
<1>7. QED
  BY <1>1, <1>2, <1>3, <1>4, <1>5, <1>6 DEF Next

(* The inductive invariant: clock, flags and hours follow the set of marks.*)
THEOREM MarkInvariance == Spec => []MarkInv
BY MarkInitInv, MarkNextInv, PTL DEF Spec

(* Type correctness of the marks and the positions. *)
THEOREM TypeCorrect == Spec => []TypeOK
<1>1. MarkInv => TypeOK
  BY DEF MarkInv
<1>2. QED
  BY <1>1, MarkInvariance, PTL

(* The newest mark bounds every other one. *)
LEMMA LastTsBounds ==
    ASSUME MarkInv, NEW p \in Position, NEW m \in marks[p]
    PROVE  m.ts <= LastTs(p)
<1>1. PICK n \in marks[p] : Newest(p, n)
  BY DEF MarkInv, PosInv, HasNewest
<1>2. LastTs(p) = n.ts
  BY <1>1, LastTsIsNewest DEF MarkInv
<1>3. QED
  BY <1>1, <1>2 DEF Newest

(* The hard exit for time below the range is raised only by an             *)
(* uninterrupted run of marks below the range, long enough, that began     *)
(* after the position had been in range.                                   *)
THEOREM HardExitCorrect == Spec => []HardExitIsSustained
<1>1. ASSUME MarkInv, NEW p \in Position, "hard" \in row[p].flags
      PROVE  \E first \in marks[p] :
               /\ first.ts + HardHours <= LastTs(p)
               /\ \A m \in marks[p] : m.ts >= first.ts => m.side = "below"
               /\ \E m \in marks[p] : m.ts < first.ts /\ m.side = In
  <2>0. TypeOK /\ Clock(p) /\ Raised(p)
    BY <1>1 DEF MarkInv, PosInv
  <2>1. row[p].outSide = "below" /\ row[p].ever
    BY <1>1, <2>0 DEF Raised
  <2>2. PICK first \in marks[p] : first.ts = row[p].outSince
    BY <2>0, <2>1 DEF Clock, In
  <2>3. \A m \in marks[p] : m.ts >= first.ts => m.side = "below"
    BY <2>0, <2>1, <2>2 DEF Clock, In
  <2>4. PICK late \in marks[p] : row[p].outSince + HardHours <= late.ts
    BY <1>1, <2>0 DEF Raised
  <2>5. late.ts <= LastTs(p)
    BY <1>1, LastTsBounds
  <2>6. PICK early \in marks[p] : early.side = In
    BY <2>0, <2>1 DEF Raised
  <2>7. ~ (early.ts >= first.ts)
    BY <2>3, <2>6 DEF In
  <2>8. \A m \in marks[p] : m.ts \in Nat
    BY <2>0 DEF TypeOK, Mark
  <2>9. LastTs(p) \in Nat
    <3>1. PICK n \in marks[p] : Newest(p, n)
      BY <1>1, <2>2 DEF MarkInv, PosInv, HasNewest
    <3>2. QED
      BY <2>0, <2>8, <3>1, LastTsIsNewest
  <2>10. first.ts + HardHours <= LastTs(p)
    BY <2>2, <2>4, <2>5, <2>8, <2>9, PaperMarkAssumption
  <2>11. early.ts < first.ts
    BY <2>7, <2>8
  <2>12. QED
    BY <2>3, <2>6, <2>10, <2>11
<1>2. MarkInv => HardExitIsSustained
  BY <1>1 DEF HardExitIsSustained
<1>3. QED
  BY <1>2, MarkInvariance, PTL

(* A flank that never held liquidity at the market raises no range signal. *)
THEOREM FlankCorrect == Spec => []FlankMayWait
<1>1. MarkInv => FlankMayWait
  BY DEF MarkInv, PosInv, Raised, FlankMayWait
<1>2. QED
  BY <1>1, MarkInvariance, PTL

(* No hour of fees is credited twice and none while out of range.          *)
THEOREM FeeHoursCorrect == Spec => []NoHourTwice
<1>1. MarkInv => NoHourTwice
  BY DEF MarkInv, PosInv, Credited, NoHourTwice
<1>2. QED
  BY <1>1, MarkInvariance, PTL

(* A bin the price only jumped over holds the token its place calls for.   *)
THEOREM LegsCorrect == Spec => []LegsFollowPrice
<1>1. MarkInv => LegsFollowPrice
  BY DEF MarkInv, PosInv, Walked, LegsFollowPrice
<1>2. QED
  BY <1>1, MarkInvariance, PTL

(* The counter of rebalances is the number of marks that found the price   *)
(* out of a range it was in before, however often one price row is marked. *)
THEOREM TransitionsCorrect == Spec => []TransitionsCounted
<1>1. ASSUME MarkInv, NEW p \in Position, row[p].status # "none"
      PROVE  /\ row[p].rebals =
                  Cardinality({m \in marks[p] : m.side # In /\ SidesBefore(p, m) = {In}})
             /\ row[p].txs = 1 + 2 * row[p].rebals
  <2> DEFINE side0 == EntrySide(row[p])
  <2>1. \A m \in marks[p] : SidesBefore(p, m) = SidesPrior(marks[p], side0, m)
    BY DEF SidesBefore, Before, SidesPrior, Prior, EntrySide
  <2>2. {m \in marks[p] : m.side # In /\ SidesBefore(p, m) = {In}} = Exits(marks[p], side0)
    BY <2>1 DEF Exits
  <2> QED BY <1>1, <2>2 DEF MarkInv, PosInv, Counted
<1>2. MarkInv => TransitionsCounted
  BY <1>1 DEF TransitionsCounted
<1>3. QED
  BY <1>2, MarkInvariance, PTL

-----------------------------------------------------------------------------
Fields == DOMAIN Absent
IsSeq(q) == \E S : q \in Seq(S)

(* Variables are functions, rows are rows, logs are sequences. *)
Shaped ==
    /\ DOMAIN row = Position /\ DOMAIN marks = Position /\ DOMAIN figures = Position
    /\ \A p \in Position : DOMAIN row[p] = Fields
    /\ task \in [Session -> {"idle", "mark", "manage"}]
    /\ todo \in [Session -> SUBSET Position]
    /\ cur \in [Session -> SUBSET Position]
    /\ DOMAIN seen = Session /\ DOMAIN at = Session /\ DOMAIN own = Session
    /\ DOMAIN added = Session /\ DOMAIN entries = Session
    /\ IsSeq(log)

(* Every price row that somebody remembers, as a pair (ts, active). *)
Quotes ==
    {<<price.ts, price.active>>}
      \cup {<<at[s].ts, at[s].active>> : s \in {t \in Session : task[t] = "mark" /\ cur[t] # {}}}
      \cup {<<m.ts, m.active>> : m \in UNION {marks[p] : p \in Position}}
      \cup {<<a.mark.ts, a.mark.active>> : a \in UNION {added[s] : s \in Session}}

(* (pool, ts) is a key: rows of one time agree. *)
OneQuote ==
    /\ now \in Nat /\ price.ts \in Nat /\ price.ts <= now
    /\ \A q \in Quotes : q[1] \in Nat /\ q[1] <= price.ts
    /\ \A q, r \in Quotes : q[1] = r[1] => q[2] = r[2]

Known == {p \in Position : row[p].status \in {"open", "closed"}}

Rows ==
    \A p \in Position :
        /\ row[p].status \in {"none", "open", "closed"}
        /\ row[p].status = "none" => marks[p] = {}
        /\ \A m \in marks[p] : m.side = SideOf(m.active, row[p].center)

(* What a session holds. *)
Cursor(s) ==
    /\ todo[s] \subseteq Known /\ cur[s] \subseteq Known
    /\ \A p \in todo[s] \cup cur[s] :
         DOMAIN seen[s][p] = Fields /\ seen[s][p].center = row[p].center
    /\ DOMAIN own[s] \subseteq Known
    /\ IsSeq(entries[s])

Idle(s) ==
    task[s] = "idle" =>
        /\ todo[s] = {} /\ cur[s] = {} /\ DOMAIN own[s] = {}
        /\ added[s] = {} /\ entries[s] = << >>

(* A mark changes of what the properties speak of only ever_in_range, and  *)
(* writes one mark that says why.                                          *)
MarkedBy(s, p) ==
    \E a \in added[s] :
        /\ a.position = p
        /\ own[s][p].ever = (row[p].ever \/ a.mark.side = In)

Marking(s) ==
    task[s] = "mark" =>
        /\ entries[s] = << >>
        /\ \A p \in DOMAIN own[s] :
             /\ DOMAIN own[s][p] = Fields
             /\ own[s][p].status = row[p].status
             /\ own[s][p].center = row[p].center
             /\ MarkedBy(s, p)
        /\ \A a \in added[s] :
             /\ a.position \in DOMAIN own[s]
             /\ a.mark.side = SideOf(a.mark.active, row[a.position].center)
        /\ \A a, b \in added[s] : a.position = b.position => a = b

(* A closing has one entry, whether its UPDATE found the row open or not.  *)
EntryAt(s, i, p) == i \in DOMAIN entries[s] /\ entries[s][i].position = p

Managing(s) ==
    task[s] = "manage" =>
        /\ added[s] = {}
        /\ \A p \in DOMAIN own[s] :
             /\ row[p].status = "open"
             /\ own[s][p] = [row[p] EXCEPT !.status = "closed"]
             /\ \E i : EntryAt(s, i, p)
        /\ \A i \in DOMAIN entries[s] :
             /\ entries[s][i].position \notin todo[s] \cup cur[s]
             /\ \/ entries[s][i].position \in DOMAIN own[s]
                \/ /\ entries[s][i].position \in Position
                   /\ row[entries[s][i].position].status = "closed"
        /\ \A i, j \in DOMAIN entries[s] :
             entries[s][i].position = entries[s][j].position => i = j

SessionInv(s) == Cursor(s) /\ Idle(s) /\ Marking(s) /\ Managing(s)

(* The row locks. *)
Exclusive ==
    \A s, t \in Session : s # t => DOMAIN own[s] \cap DOMAIN own[t] = {}

RaceInv ==
    /\ Shaped /\ OneQuote /\ Rows
    /\ \A s \in Session : SessionInv(s)
    /\ Exclusive
    /\ EverInRangeKept
    /\ FirstClosingStands

-----------------------------------------------------------------------------
LEMMA EmptySeq == IsSeq(<< >>) /\ DOMAIN << >> = {}
<1>1. << >> \in Seq({})
  OBVIOUS
<1>2. DOMAIN << >> = 1..0
  OBVIOUS
<1> QED BY <1>1, <1>2 DEF IsSeq

LEMMA AppendSeq ==
    ASSUME NEW q, IsSeq(q), NEW e
    PROVE  /\ IsSeq(Append(q, e))
           /\ Len(q) \in Nat /\ DOMAIN q = 1..Len(q)
           /\ DOMAIN Append(q, e) = 1..(Len(q) + 1)
           /\ \A i \in DOMAIN q : Append(q, e)[i] = q[i]
           /\ Append(q, e)[Len(q) + 1] = e
<1>1. PICK S : q \in Seq(S)
  BY DEF IsSeq
<1> DEFINE T == S \cup {e}
<1>2. q \in Seq(T) /\ e \in T
  BY <1>1
<1>3. Append(q, e) \in Seq(T)
  BY <1>2
<1>4. IsSeq(Append(q, e))
  BY <1>3 DEF IsSeq
<1> QED BY <1>2, <1>4

LEMMA ConcatSeq ==
    ASSUME NEW q, NEW r, IsSeq(q), IsSeq(r)
    PROVE  /\ IsSeq(q \o r)
           /\ Len(q) \in Nat /\ DOMAIN q = 1..Len(q)
           /\ Len(r) \in Nat /\ DOMAIN r = 1..Len(r)
           /\ DOMAIN (q \o r) = 1..(Len(q) + Len(r))
           /\ \A i \in DOMAIN q : (q \o r)[i] = q[i]
           /\ \A i \in DOMAIN r : (q \o r)[Len(q) + i] = r[i]
<1>1. PICK S : q \in Seq(S)
  BY DEF IsSeq
<1>2. PICK U : r \in Seq(U)
  BY DEF IsSeq
<1> DEFINE T == S \cup U
<1>3. q \in Seq(T) /\ r \in Seq(T)
  BY <1>1, <1>2
<1>4. q \o r \in Seq(T)
  BY <1>3
<1>5. IsSeq(q \o r)
  BY <1>4 DEF IsSeq
<1>6. Len(q) \in Nat /\ DOMAIN q = 1..Len(q) /\ Len(r) \in Nat /\ DOMAIN r = 1..Len(r)
  BY <1>3
<1> HIDE DEF T
<1>7. /\ DOMAIN (q \o r) = 1..(Len(q) + Len(r))
      /\ \A i \in 1..Len(q) : (q \o r)[i] = q[i]
      /\ \A i \in 1..Len(r) : (q \o r)[Len(q) + i] = r[i]
  BY <1>3, <1>6
<1> QED BY <1>5, <1>6, <1>7

LEMMA MarkFieldsKept ==
    ASSUME NEW r, DOMAIN r = Fields, NEW legs, NEW last, NEW was, NEW ever, NEW since, NEW side,
           NEW entry, NEW flags, NEW rebals, NEW txs, NEW hours
    PROVE  LET m == MarkFields(r, legs, last, was, ever, since, side, entry, flags, rebals, txs, hours)
           IN  DOMAIN m = Fields /\ m.center = r.center /\ m.wasIn = was
BY DEF MarkFields, Fields, Absent

LEMMA MarkedKept ==
    ASSUME NEW s \in Session, NEW p \in Position, NEW sigma, NEW bad,
           DOMAIN seen[s][p] = Fields
    PROVE  LET m == View(s)!Marked(p, sigma, bad)
           IN  /\ DOMAIN m = Fields /\ m.center = seen[s][p].center
               /\ m.wasIn = (SideOf(at[s].active, seen[s][p].center) = In)
<1> DEFINE r     == seen[s][p]
           m     == View(s)!Marked(p, sigma, bad)
           side  == View(s)!SideOf(at[s].active, r.center)
           since == View(s)!OutSince(r, side)
           left  == View(s)!LeftRange(r, side)
           entry == IF r.entrySigma = 0 THEN sigma ELSE r.entrySigma
           ever  == r.ever \/ side = View(s)!In
           out   == IF since = View(s)!NoTs THEN 0 ELSE at[s].ts - since
           flags == View(s)!Evaluate(ever, side, out, entry, sigma, bad)
           legs  == View(s)!Walk(r, at[s].active)
           fees_  == IF side = View(s)!In
                    THEN r.feeHours + View(s)!HoursSince(at[s].ts, View(s)!PrevTs(p))
                    ELSE r.feeHours
<1>1. m = MarkFields(r, legs, at[s].active, side = View(s)!In, ever, since, side, entry, flags,
                     IF left THEN r.rebals + 1 ELSE r.rebals,
                     IF left THEN r.txs + 2 ELSE r.txs, fees_)
  BY Zenon DEF View!Marked, MarkFields
<1>2. side = SideOf(at[s].active, r.center) /\ View(s)!In = In
  BY DEF View!SideOf, SideOf, View!In, In
<1> HIDE DEF m, side, since, left, entry, ever, flags, legs, fees_
<1>3. DOMAIN m = Fields /\ m.center = r.center /\ m.wasIn = (side = View(s)!In)
  BY <1>1, MarkFieldsKept
<1> QED BY <1>2, <1>3 DEF m

(* What a mark writes never takes back ever_in_range.                      *)
LEMMA WrittenKept ==
    ASSUME NEW r, NEW m, NEW old, DOMAIN m = Fields
    PROVE  LET w == Written(r, m, old)
           IN  /\ DOMAIN w = Fields /\ w.center = m.center /\ w.status = r.status
               /\ w.ever = (r.ever \/ m.wasIn)
BY DEF Written, Fields, Absent

-----------------------------------------------------------------------------
(* A quote that is forgotten leaves the others alone.                      *)
LEMMA FewerQuotes ==
    ASSUME OneQuote, UNCHANGED <<now, price>>, Quotes' \subseteq Quotes
    PROVE  OneQuote'
BY DEF OneQuote

(* What may happen to the table under a session that does not move. *)
RowStep(s) ==
    /\ Known \subseteq Known'
    /\ \A p \in Known : /\ row'[p].center = row[p].center
                        /\ row[p].status = "closed" => row'[p].status = "closed"
    /\ \A p \in DOMAIN own[s] : row'[p] = row[p]

Resting(s) ==
    /\ task'[s] = task[s] /\ todo'[s] = todo[s] /\ cur'[s] = cur[s] /\ seen'[s] = seen[s]
    /\ own'[s] = own[s] /\ added'[s] = added[s] /\ entries'[s] = entries[s]

(* A session that does not move keeps its part of the invariant.           *)
LEMMA OtherSession ==
    ASSUME NEW s \in Session, SessionInv(s), Resting(s), RowStep(s)
    PROVE  SessionInv(s)'
<1>1. Cursor(s)'
  BY DEF SessionInv, Cursor, Resting, RowStep
<1>2. Idle(s)'
  BY DEF SessionInv, Idle, Resting
<1>3. Marking(s)'
  <2> SUFFICES ASSUME task[s] = "mark" PROVE Marking(s)'
    BY DEF Resting, Marking
  <2>1. DOMAIN own[s] \subseteq Known
    BY DEF SessionInv, Cursor
  <2>2. \A p \in DOMAIN own[s] : row'[p] = row[p] /\ MarkedBy(s, p)
    BY DEF SessionInv, Marking, RowStep
  <2>3. \A p \in DOMAIN own[s] : MarkedBy(s, p)'
    BY <2>2 DEF MarkedBy, Resting
  <2> QED
    BY <2>2, <2>3 DEF SessionInv, Marking, Resting
<1>4. Managing(s)'
  <2> SUFFICES ASSUME task[s] = "manage" PROVE Managing(s)'
    BY DEF Resting, Managing
  <2>1. \A p \in DOMAIN own[s] : row'[p] = row[p]
    BY DEF RowStep
  <2>2. \A p \in Position : row[p].status = "closed" => row'[p].status = "closed"
    BY DEF RowStep, Known
  <2> QED
    BY <2>1, <2>2 DEF SessionInv, Managing, EntryAt, Resting
<1> QED BY <1>1, <1>2, <1>3, <1>4 DEF SessionInv

(* Steps of one session that leave the tables alone. *)
TableKept == UNCHANGED <<row, marks, figures, log>>

OthersRest(s) == \A t \in Session : t # s => Resting(t)

(* A step that only adds to the table keeps what rows say.                 *)
LEMMA TableFacts ==
    ASSUME RaceInv, TableKept, NEW s \in Session, OthersRest(s)
    PROVE  /\ Rows' /\ EverInRangeKept' /\ FirstClosingStands'
           /\ \A t \in Session : t # s => SessionInv(t)'
<1>1. Rows' /\ EverInRangeKept' /\ FirstClosingStands'
  BY DEF RaceInv, TableKept, Rows, EverInRangeKept, FirstClosingStands, EntriesOf
<1>2. ASSUME NEW t \in Session, t # s PROVE SessionInv(t)'
  <2>1. RowStep(t)
    BY DEF TableKept, RowStep, Known
  <2> QED BY <1>2, <2>1, OtherSession DEF OthersRest, RaceInv
<1> QED BY <1>1, <1>2

-----------------------------------------------------------------------------
LEMMA RaceInitInv == RaceInit => RaceInv
<1> SUFFICES ASSUME RaceInit PROVE RaceInv
  OBVIOUS
<1> USE DEF RaceInit, Init
<1>1. Shaped
  BY EmptySeq, Zenon DEF Shaped, Fields
<1>2. OneQuote
  <2>1. price.ts = 0
    OBVIOUS
  <2>2. Quotes = {<<price.ts, price.active>>}
    BY DEF Quotes
  <2> QED BY <2>1, <2>2 DEF OneQuote
<1>3. Rows
  BY DEF Rows, Absent
<1>4. ASSUME NEW s \in Session PROVE SessionInv(s)
  BY EmptySeq DEF SessionInv, Cursor, Idle, Marking, Managing
<1>5. Exclusive
  BY EmptySeq DEF Exclusive
<1>6. EverInRangeKept
  BY DEF EverInRangeKept, Absent
<1>7. FirstClosingStands
  BY EmptySeq DEF FirstClosingStands, EntriesOf, Absent
<1> QED BY <1>1, <1>2, <1>3, <1>4, <1>5, <1>6, <1>7 DEF RaceInv

LEMMA BeginInv ==
    ASSUME RaceInv, NEW s \in Session, NEW command \in {"mark", "manage"}, Begin(s, command)
    PROVE  RaceInv'
<1> USE DEF Begin, vars
<1>1. TableKept /\ OthersRest(s) /\ UNCHANGED <<now, price>>
  BY DEF TableKept, OthersRest, Resting, RaceInv, Shaped
<1>2. Rows' /\ EverInRangeKept' /\ FirstClosingStands' /\ \A t \in Session : t # s => SessionInv(t)'
  BY <1>1, TableFacts
<1>3. Shaped'
  BY DEF RaceInv, Shaped, Open
<1>4. /\ todo[s] = {} /\ cur[s] = {} /\ DOMAIN own[s] = {}
      /\ added[s] = {} /\ entries[s] = << >>
  BY DEF RaceInv, SessionInv, Idle
<1>5. Quotes' \subseteq Quotes
  BY <1>4 DEF Quotes, RaceInv, Shaped
<1>6. OneQuote'
  BY <1>1, <1>5, FewerQuotes DEF RaceInv
<1>7. SessionInv(s)'
  <2>1. todo'[s] \subseteq Known /\ seen'[s] = row /\ task'[s] = command
    BY DEF RaceInv, Shaped, Open, Known
  <2>2. Known' = Known /\ row' = row
    BY DEF Known
  <2>3. Cursor(s)'
    BY <1>4, <2>1, <2>2, EmptySeq DEF Cursor, RaceInv, Shaped, Known
  <2>4. Idle(s)' /\ Marking(s)' /\ Managing(s)'
    BY <1>4, <2>1, EmptySeq DEF Idle, Marking, Managing
  <2> QED BY <2>3, <2>4 DEF SessionInv
<1>8. Exclusive'
  BY DEF RaceInv, Exclusive
<1> QED BY <1>2, <1>3, <1>6, <1>7, <1>8 DEF RaceInv

(* Pass, ReadFirst and ReadMarks: the cursor moves, nothing is written. *)
LEMMA CursorMoves ==
    ASSUME RaceInv, NEW s \in Session, TableKept, OthersRest(s), Shaped', OneQuote',
           UNCHANGED <<task, own, added, entries, seen>>, task[s] # "idle",
           (todo'[s] \cup cur'[s]) \subseteq (todo[s] \cup cur[s])
    PROVE  RaceInv'
<1>1. Rows' /\ EverInRangeKept' /\ FirstClosingStands' /\ \A t \in Session : t # s => SessionInv(t)'
  BY TableFacts
<1>2. SessionInv(s)'
  <2>1. row' = row /\ Known' = Known
    BY DEF TableKept, Known
  <2>2. Cursor(s)'
    BY <2>1 DEF RaceInv, SessionInv, Cursor
  <2>3. Idle(s)'
    BY DEF Idle
  <2>4. Marking(s)'
    BY <2>1 DEF RaceInv, SessionInv, Marking, MarkedBy
  <2>5. Managing(s)'
    BY <2>1 DEF RaceInv, SessionInv, Managing, EntryAt
  <2> QED BY <2>2, <2>3, <2>4, <2>5 DEF SessionInv
<1>3. Exclusive'
  BY DEF RaceInv, Exclusive
<1> QED BY <1>1, <1>2, <1>3 DEF RaceInv

LEMMA PassInv ==
    ASSUME RaceInv, NEW s \in Session, NEW p \in Position, Pass(s, p)
    PROVE  RaceInv'
<1> USE DEF Pass, vars
<1>1. TableKept /\ OthersRest(s) /\ UNCHANGED <<now, price>>
  BY DEF TableKept, OthersRest, Resting, RaceInv, Shaped
<1>2. Shaped'
  BY DEF RaceInv, Shaped
<1>3. Quotes' \subseteq Quotes
  BY DEF Quotes
<1>4. OneQuote'
  BY <1>1, <1>3, FewerQuotes DEF RaceInv
<1>5. (todo'[s] \cup cur'[s]) \subseteq (todo[s] \cup cur[s])
  BY DEF RaceInv, Shaped
<1> QED BY <1>1, <1>2, <1>4, <1>5, CursorMoves

LEMMA ReadFirstInv ==
    ASSUME RaceInv, NEW s \in Session, NEW p \in Position, ReadFirst(s, p)
    PROVE  RaceInv'
<1> USE DEF ReadFirst, vars
<1>1. TableKept /\ OthersRest(s) /\ UNCHANGED <<now, price>>
  BY DEF TableKept, OthersRest, Resting, RaceInv, Shaped
<1>2. Shaped'
  BY DEF RaceInv, Shaped
<1>3. Quotes' \subseteq Quotes
  <2>1. \A t \in Session : t # s => cur'[t] = cur[t] /\ at'[t] = at[t]
    BY DEF RaceInv, Shaped
  <2>2. task[s] = "mark" => at'[s] = price
    BY DEF RaceInv, Shaped
  <2> QED BY <2>1, <2>2 DEF Quotes
<1>4. OneQuote'
  BY <1>1, <1>3, FewerQuotes DEF RaceInv
<1>5. (todo'[s] \cup cur'[s]) \subseteq (todo[s] \cup cur[s])
  BY DEF RaceInv, Shaped
<1> QED BY <1>1, <1>2, <1>4, <1>5, CursorMoves

LEMMA ReadMarksInv ==
    ASSUME RaceInv, NEW s \in Session, NEW p \in Position, ReadMarks(s, p)
    PROVE  RaceInv'
<1> USE DEF ReadMarks, vars
<1>1. TableKept /\ OthersRest(s) /\ UNCHANGED <<now, price>>
  BY DEF TableKept, OthersRest, Resting, RaceInv, Shaped
<1>2. Shaped'
  BY DEF RaceInv, Shaped
<1>3. Quotes' \subseteq Quotes
  BY DEF Quotes
<1>4. OneQuote'
  BY <1>1, <1>3, FewerQuotes DEF RaceInv
<1>5. task[s] # "idle"
  BY DEF RaceInv, SessionInv, Idle
<1> QED BY <1>1, <1>2, <1>4, <1>5, CursorMoves

-----------------------------------------------------------------------------
(* The row that is written is nobody's: it joins the rows of s.            *)
LEMMA OwnMore ==
    ASSUME RaceInv, NEW s \in Session, NEW p \in Position, Free(p),
           \A t \in Session : t # s => own'[t] = own[t],
           DOMAIN own'[s] \subseteq DOMAIN own[s] \cup {p}
    PROVE  Exclusive'
BY DEF RaceInv, Exclusive, Free

LEMMA WriteMarkInv ==
    ASSUME RaceInv, NEW s \in Session, NEW p \in Position, NEW sigma, NEW bad,
           WriteMark(s, p, sigma, bad)
    PROVE  RaceInv'
<1> USE DEF WriteMark, Finish, vars
<1> DEFINE w == Written(row[p], View(s)!Marked(p, sigma, bad), seen[s][p])
           a == [position |-> p,
                 mark |-> [ts |-> at[s].ts, active |-> at[s].active,
                           side |-> SideOf(at[s].active, row[p].center)]]
<1>1. TableKept /\ OthersRest(s) /\ UNCHANGED <<now, price>>
  BY DEF TableKept, OthersRest, Resting, RaceInv, Shaped
<1>2. Rows' /\ EverInRangeKept' /\ FirstClosingStands' /\ \A t \in Session : t # s => SessionInv(t)'
  BY <1>1, TableFacts
<1>3. Shaped'
  BY DEF RaceInv, Shaped
<1>4. /\ p \in cur[s] /\ p \in Known /\ p \notin DOMAIN own[s] /\ task[s] = "mark" /\ task'[s] = "mark"
      /\ DOMAIN seen[s][p] = Fields /\ seen[s][p].center = row[p].center
  BY DEF RaceInv, SessionInv, Cursor, Free
<1>5. /\ own'[s] = Put(own[s], p, w) /\ added'[s] = added[s] \cup {a}
      /\ todo'[s] \subseteq todo[s] /\ cur'[s] = {} /\ entries'[s] = entries[s] /\ seen'[s] = seen[s]
  BY DEF RaceInv, Shaped
<1>6. Quotes' \subseteq Quotes
  <2>1. ASSUME NEW t \in Session, NEW b \in added'[t] PROVE b \in added[t] \/ b = a
    <3>1. t # s => added'[t] = added[t]
      BY <1>1 DEF OthersRest, Resting
    <3>2. added'[s] = added[s] \cup {a}
      BY <1>5
    <3> HIDE DEF a
    <3> QED BY <3>1, <3>2
  <2>2. \A t \in Session : t # s => cur'[t] = cur[t] /\ at'[t] = at[t] /\ task'[t] = task[t]
    BY DEF RaceInv, Shaped
  <2>3. <<a.mark.ts, a.mark.active>> = <<at[s].ts, at[s].active>>
    OBVIOUS
  <2>4. <<at[s].ts, at[s].active>> \in Quotes
    BY <1>4 DEF Quotes
  <2> HIDE DEF a
  <2>5. marks' = marks /\ price' = price
    OBVIOUS
  <2>6. ASSUME NEW q \in Quotes' PROVE q \in Quotes
    <3>1. CASE q = <<price.ts, price.active>>
      BY <3>1 DEF Quotes
    <3>2. CASE \E m \in UNION {marks[r] : r \in Position} : q = <<m.ts, m.active>>
      BY <3>2 DEF Quotes
    <3>3. CASE \E t \in Session : task'[t] = "mark" /\ cur'[t] # {} /\ q = <<at'[t].ts, at'[t].active>>
      BY <1>5, <2>2, <3>3 DEF Quotes
    <3>4. CASE \E b \in UNION {added'[t] : t \in Session} : q = <<b.mark.ts, b.mark.active>>
      BY <2>1, <2>3, <2>4, <3>4 DEF Quotes
    <3> QED BY <2>5, <3>1, <3>2, <3>3, <3>4 DEF Quotes
  <2> QED BY <2>6
<1>7. OneQuote'
  BY <1>1, <1>6, FewerQuotes DEF RaceInv
<1>8. /\ DOMAIN w = Fields /\ w.center = row[p].center /\ w.status = row[p].status
      /\ w.ever = (row[p].ever \/ a.mark.side = In)
  <2> DEFINE m == View(s)!Marked(p, sigma, bad)
  <2>1. /\ DOMAIN m = Fields /\ m.center = row[p].center
        /\ m.wasIn = (SideOf(at[s].active, row[p].center) = In)
    BY <1>4, MarkedKept
  <2>2. a.mark.side = SideOf(at[s].active, row[p].center)
    OBVIOUS
  <2>3. w = Written(row[p], m, seen[s][p])
    OBVIOUS
  <2> HIDE DEF m, a, w
  <2>4. /\ DOMAIN w = Fields /\ w.center = m.center /\ w.status = row[p].status
        /\ w.ever = (row[p].ever \/ m.wasIn)
    BY <2>1, <2>3, WrittenKept
  <2> QED BY <2>1, <2>2, <2>4
<1>9. /\ DOMAIN own'[s] = DOMAIN own[s] \cup {p} /\ own'[s][p] = w
      /\ \A q \in DOMAIN own[s] : q # p => own'[s][q] = own[s][q]
  <2>1. own'[s] = Put(own[s], p, w)
    BY <1>5
  <2> HIDE DEF w
  <2> QED BY <2>1 DEF Put
<1>10. a.position = p /\ a.mark.active = at[s].active /\ a.mark.side = SideOf(a.mark.active, row[p].center)
  OBVIOUS
<1> HIDE DEF w, a
<1>11. SessionInv(s)'
  <2>1. row' = row /\ Known' = Known
    BY DEF Known
  <2>2. Cursor(s)'
    BY <1>4, <1>5, <1>9, <2>1 DEF RaceInv, SessionInv, Cursor
  <2>3. Idle(s)' /\ Managing(s)'
    BY <1>4 DEF Idle, Managing
  <2>4. Marking(s)
    BY DEF RaceInv, SessionInv
  <2>5. \A b \in added[s] : b.position # p
    BY <1>4, <2>4 DEF Marking
  <2>6. \A q \in DOMAIN own'[s] : MarkedBy(s, q)'
    <3> TAKE q \in DOMAIN own'[s]
    <3>1. CASE q = p
      BY <1>5, <1>8, <1>9, <1>10, <2>1, <3>1 DEF MarkedBy
    <3>2. CASE q # p
      BY <1>4, <1>5, <1>9, <2>1, <2>4, <3>2 DEF MarkedBy, Marking
    <3> QED BY <3>1, <3>2
  <2>7. \A q \in DOMAIN own'[s] :
           DOMAIN own'[s][q] = Fields /\ own'[s][q].status = row[q].status
             /\ own'[s][q].center = row[q].center
    BY <1>4, <1>8, <1>9, <2>4 DEF Marking
  <2>8. \A b \in added'[s] :
           b.position \in DOMAIN own'[s] /\ b.mark.side = SideOf(b.mark.active, row[b.position].center)
    BY <1>4, <1>5, <1>9, <1>10, <2>4 DEF Marking
  <2>9. \A b, c \in added'[s] : b.position = c.position => b = c
    BY <1>4, <1>5, <1>10, <2>4, <2>5 DEF Marking
  <2>10. entries'[s] = << >>
    BY <1>4, <1>5, <2>4 DEF Marking
  <2>11. Marking(s)'
    BY <2>1, <2>6, <2>7, <2>8, <2>9, <2>10 DEF Marking
  <2> QED BY <2>2, <2>3, <2>11 DEF SessionInv
<1>12. Exclusive'
  BY <1>1, <1>9, OwnMore DEF OthersRest, Resting
<1> QED BY <1>2, <1>3, <1>7, <1>11, <1>12 DEF RaceInv

LEMMA WriteCloseInv ==
    ASSUME RaceInv, NEW s \in Session, NEW p \in Position, WriteClose(s, p)
    PROVE  RaceInv'
<1> USE DEF WriteClose, Finish, vars
<1> DEFINE c == [row[p] EXCEPT !.status = "closed"]
           e == [position |-> p, figures |-> [mark |-> Latest(past[s]), fees |-> fees[s]]]
<1>1. TableKept /\ OthersRest(s) /\ UNCHANGED <<now, price>>
  BY DEF TableKept, OthersRest, Resting, RaceInv, Shaped
<1>2. Rows' /\ EverInRangeKept' /\ FirstClosingStands' /\ \A t \in Session : t # s => SessionInv(t)'
  BY <1>1, TableFacts
<1>3. Shaped'
  BY DEF RaceInv, Shaped
<1>4. p \in cur[s] /\ p \in Known /\ p \notin DOMAIN own[s] /\ task[s] = "manage" /\ task'[s] = "manage"
  BY DEF RaceInv, SessionInv, Cursor, Free
<1>5. /\ own'[s] = IF Closes(row[p]) THEN Put(own[s], p, c) ELSE own[s]
      /\ entries'[s] = Append(entries[s], e)
      /\ todo'[s] = todo[s] \ cur[s] /\ cur'[s] = {} /\ added'[s] = added[s] /\ seen'[s] = seen[s]
  BY DEF RaceInv, Shaped
<1>6. Quotes' \subseteq Quotes
  <2>1. \A t \in Session : t # s => cur'[t] = cur[t] /\ at'[t] = at[t]
    BY DEF RaceInv, Shaped
  <2> QED BY <1>4, <2>1 DEF Quotes
<1>7. OneQuote'
  BY <1>1, <1>6, FewerQuotes DEF RaceInv
<1>8. /\ DOMAIN own'[s] \subseteq DOMAIN own[s] \cup {p} /\ DOMAIN own[s] \subseteq DOMAIN own'[s]
      /\ p \in DOMAIN own'[s] => row[p].status = "open" /\ own'[s][p] = c
      /\ p \notin DOMAIN own'[s] => row[p].status = "closed"
      /\ \A q \in DOMAIN own[s] : q # p => own'[s][q] = own[s][q]
  <2>1. CASE Closes(row[p])
    <3>1. own'[s] = Put(own[s], p, c)
      BY <1>5, <2>1
    <3> HIDE DEF c
    <3>2. /\ DOMAIN own'[s] = DOMAIN own[s] \cup {p} /\ own'[s][p] = c
          /\ \A q \in DOMAIN own[s] : q # p => own'[s][q] = own[s][q]
      BY <3>1 DEF Put
    <3> QED BY <2>1, <3>2 DEF Closes
  <2>2. CASE ~Closes(row[p])
    <3>1. own'[s] = own[s]
      BY <1>5, <2>2
    <3> HIDE DEF c, WriteClose
    <3> QED BY <1>4, <2>2, <3>1 DEF Closes, Known
  <2> QED BY <2>1, <2>2
<1>9. e.position = p
  OBVIOUS
<1>10. IsSeq(entries[s])
  BY DEF RaceInv, SessionInv, Cursor
<1> HIDE DEF e, c
<1> DEFINE k == Len(entries[s]) + 1
<1>11. /\ IsSeq(entries'[s]) /\ Len(entries[s]) \in Nat /\ DOMAIN entries[s] = 1..Len(entries[s])
       /\ DOMAIN entries'[s] = 1..k
       /\ \A i \in DOMAIN entries[s] : entries'[s][i] = entries[s][i]
       /\ entries'[s][k] = e
  BY <1>5, <1>10, AppendSeq
<1>12. /\ DOMAIN entries'[s] = DOMAIN entries[s] \cup {k} /\ k \notin DOMAIN entries[s]
  BY <1>11
<1> HIDE DEF k
<1>13. SessionInv(s)'
  <2>1. row' = row /\ Known' = Known
    BY DEF Known
  <2> HIDE DEF WriteClose
  <2>2. Managing(s)
    BY DEF RaceInv, SessionInv
  <2>3. Cursor(s)'
    <3>1. Cursor(s)
      BY DEF RaceInv, SessionInv
    <3>2. todo'[s] \subseteq todo[s] /\ cur'[s] = {} /\ seen'[s] = seen[s]
      BY <1>5
    <3>3. DOMAIN own'[s] \subseteq Known
      BY <1>4, <1>8, <3>1 DEF Cursor
    <3> QED BY <1>11, <2>1, <3>1, <3>2, <3>3 DEF Cursor
  <2>4. Idle(s)' /\ Marking(s)'
    BY <1>4 DEF Idle, Marking
  <2>5. \A i \in DOMAIN entries[s] : entries[s][i].position # p
    BY <1>4, <2>2 DEF Managing
  <2>6. added'[s] = {}
    BY <1>4, <1>5, <2>2 DEF Managing
  <2>7. ASSUME NEW q \in DOMAIN own'[s]
        PROVE  /\ row[q].status = "open" /\ own'[s][q] = [row[q] EXCEPT !.status = "closed"]
               /\ \E i \in DOMAIN entries'[s] : entries'[s][i].position = q
    <3>1. CASE q = p
      BY <1>8, <1>9, <1>11, <1>12, <3>1 DEF c
    <3>2. CASE q # p
      <4>1. q \in DOMAIN own[s] /\ own'[s][q] = own[s][q]
        BY <1>8, <3>2
      <4>2. /\ row[q].status = "open" /\ own[s][q] = [row[q] EXCEPT !.status = "closed"]
            /\ \E i \in DOMAIN entries[s] : entries[s][i].position = q
        BY <1>4, <2>2, <4>1 DEF Managing, EntryAt
      <4> QED BY <1>11, <1>12, <4>1, <4>2
    <3> QED BY <3>1, <3>2
  <2>8. ASSUME NEW i \in DOMAIN entries'[s]
        PROVE  /\ entries'[s][i].position \notin todo'[s] \cup cur'[s]
               /\ \/ entries'[s][i].position \in DOMAIN own'[s]
                  \/ /\ entries'[s][i].position \in Position
                     /\ row[entries'[s][i].position].status = "closed"
    <3>1. CASE i = k
      BY <1>4, <1>5, <1>8, <1>9, <1>11, <3>1
    <3>2. CASE i # k
      <4>1. i \in DOMAIN entries[s] /\ entries'[s][i] = entries[s][i]
        BY <1>11, <1>12, <3>2
      <4> QED BY <1>4, <1>5, <1>8, <2>2, <4>1 DEF Managing
    <3> QED BY <3>1, <3>2
  <2>9. \A i, j \in DOMAIN entries'[s] : entries'[s][i].position = entries'[s][j].position => i = j
    <3>1. \A i, j \in DOMAIN entries[s] : entries[s][i].position = entries[s][j].position => i = j
      BY <1>4, <2>2 DEF Managing
    <3> QED BY <1>9, <1>11, <1>12, <2>5, <3>1
  <2>10. Managing(s)'
    BY <2>1, <2>6, <2>7, <2>8, <2>9 DEF Managing, EntryAt
  <2> QED BY <2>3, <2>4, <2>10 DEF SessionInv
<1>14. Exclusive'
  BY <1>1, <1>8, OwnMore DEF OthersRest, Resting
<1> QED BY <1>2, <1>3, <1>7, <1>13, <1>14 DEF RaceInv

(* The end of a transaction forgets it; what Commit writes is shown first. *)
LEMMA Ended ==
    ASSUME RaceInv, NEW s \in Session, End(s)
    PROVE  /\ OthersRest(s)
           /\ task' \in [Session -> {"idle", "mark", "manage"}]
           /\ todo' \in [Session -> SUBSET Position]
           /\ cur' \in [Session -> SUBSET Position]
           /\ DOMAIN seen' = Session /\ DOMAIN at' = Session /\ DOMAIN own' = Session
           /\ DOMAIN added' = Session /\ DOMAIN entries' = Session
           /\ \A t \in Session : DOMAIN own'[t] \subseteq DOMAIN own[t]
           /\ SessionInv(s)'
           /\ Exclusive'
<1> USE DEF End
<1>1. /\ OthersRest(s)
      /\ task' \in [Session -> {"idle", "mark", "manage"}]
      /\ todo' \in [Session -> SUBSET Position]
      /\ cur' \in [Session -> SUBSET Position]
      /\ DOMAIN seen' = Session /\ DOMAIN at' = Session /\ DOMAIN own' = Session
      /\ DOMAIN added' = Session /\ DOMAIN entries' = Session
  BY DEF OthersRest, Resting, RaceInv, Shaped
<1>2. /\ task'[s] = "idle" /\ todo'[s] = {} /\ cur'[s] = {} /\ own'[s] = << >>
      /\ added'[s] = {} /\ entries'[s] = << >>
  BY DEF RaceInv, Shaped
<1>3. SessionInv(s)'
  BY <1>2, EmptySeq DEF SessionInv, Cursor, Idle, Marking, Managing
<1>4. \A t \in Session : DOMAIN own'[t] \subseteq DOMAIN own[t]
  BY <1>1, <1>2, EmptySeq DEF OthersRest, Resting
<1>5. Exclusive'
  BY <1>4 DEF RaceInv, Exclusive
<1> QED BY <1>1, <1>3, <1>4, <1>5

LEMMA AbortInv ==
    ASSUME RaceInv, NEW s \in Session, Abort(s)
    PROVE  RaceInv'
<1>1. End(s) /\ UNCHANGED <<vars, figures, log>>
  BY DEF Abort
<1>2. TableKept /\ UNCHANGED <<now, price>>
  BY <1>1 DEF TableKept, vars
<1>3. Rows' /\ EverInRangeKept' /\ FirstClosingStands' /\ \A t \in Session : t # s => SessionInv(t)'
  BY <1>1, <1>2, Ended, TableFacts
<1>4. Shaped'
  BY <1>1, <1>2, Ended DEF TableKept, Shaped, RaceInv
<1>5. Quotes' \subseteq Quotes
  <2>1. \A t \in Session : t # s => /\ task'[t] = task[t] /\ cur'[t] = cur[t] /\ at'[t] = at[t]
                                    /\ added'[t] = added[t]
    BY <1>1 DEF End, RaceInv, Shaped
  <2>2. cur'[s] = {} /\ added'[s] = {}
    BY <1>1 DEF End, RaceInv, Shaped
  <2> QED BY <1>2, <2>1, <2>2 DEF Quotes, TableKept
<1>6. OneQuote'
  BY <1>2, <1>5, FewerQuotes DEF RaceInv
<1> QED BY <1>1, <1>3, <1>4, <1>6, Ended DEF RaceInv

-----------------------------------------------------------------------------
(* What a committed transaction does to one position. *)
LEMMA CommitRow ==
    ASSUME RaceInv, NEW s \in Session, Commit(s), NEW p \in Position
    PROVE  /\ p \in DOMAIN own[s] => row'[p] = own[s][p] /\ p \in Known
           /\ p \notin DOMAIN own[s] => row'[p] = row[p]
           /\ DOMAIN row'[p] = Fields
           /\ row'[p].center = row[p].center
           /\ row[p].status \in {"none", "closed"} => row'[p].status = row[p].status
           /\ row[p].status = "open" => row'[p].status \in {"open", "closed"}
           /\ task[s] = "mark" => row'[p].status = row[p].status
           /\ task[s] = "manage" => row'[p].ever = row[p].ever
           /\ task[s] = "manage" /\ p \in DOMAIN own[s] =>
                row[p].status = "open" /\ row'[p].status = "closed"
<1>1. /\ p \in DOMAIN own[s] => row'[p] = own[s][p]
      /\ p \notin DOMAIN own[s] => row'[p] = row[p]
  BY DEF Commit
<1>2. p \in DOMAIN own[s] => p \in Known
  BY DEF RaceInv, SessionInv, Cursor
<1>3. DOMAIN row[p] = Fields
  BY DEF RaceInv, Shaped
<1>4. task[s] \in {"mark", "manage"}
  BY DEF Commit, RaceInv, Shaped
<1>5. CASE p \notin DOMAIN own[s]
  BY <1>1, <1>3, <1>5
<1>6. CASE p \in DOMAIN own[s] /\ task[s] = "mark"
  <2>1. DOMAIN own[s][p] = Fields /\ own[s][p].status = row[p].status /\ own[s][p].center = row[p].center
    BY <1>6 DEF RaceInv, SessionInv, Marking
  <2> QED BY <1>1, <1>2, <1>6, <2>1
<1>7. CASE p \in DOMAIN own[s] /\ task[s] = "manage"
  <2>1. row[p].status = "open" /\ own[s][p] = [row[p] EXCEPT !.status = "closed"]
    BY <1>7 DEF RaceInv, SessionInv, Managing
  <2>2. /\ DOMAIN own[s][p] = Fields /\ own[s][p].status = "closed"
        /\ own[s][p].center = row[p].center /\ own[s][p].ever = row[p].ever
    BY <1>3, <2>1 DEF Fields, Absent
  <2> QED BY <1>1, <1>2, <1>7, <2>1, <2>2
<1> QED BY <1>4, <1>5, <1>6, <1>7

LEMMA CommitMarks ==
    ASSUME RaceInv, NEW s \in Session, Commit(s), NEW p \in Position
    PROVE  /\ marks[p] \subseteq marks'[p]
           /\ \A m \in marks'[p] : m \in marks[p] \/ \E a \in added[s] : a.position = p /\ a.mark = m
           /\ \A a \in added[s] : a.position = p =>
                a.mark \in marks'[p] \/ \E k \in marks[p] : k.ts = a.mark.ts
           /\ task[s] = "manage" \/ p \notin DOMAIN own[s] => marks'[p] = marks[p]
<1> DEFINE new == {m \in {a.mark : a \in {b \in added[s] : b.position = p}} :
                      \A k \in marks[p] : k.ts # m.ts}
<1>1. marks'[p] = marks[p] \cup new
  BY DEF Commit
<1>2. /\ \A m \in new : \E a \in added[s] : a.position = p /\ a.mark = m
      /\ \A a \in added[s] : a.position = p => a.mark \in new \/ \E k \in marks[p] : k.ts = a.mark.ts
  OBVIOUS
<1>3. task[s] = "manage" \/ p \notin DOMAIN own[s] => new = {}
  <2>1. task[s] \in {"mark", "manage"}
    BY DEF Commit, RaceInv, Shaped
  <2>2. task[s] = "manage" => added[s] = {}
    BY DEF RaceInv, SessionInv, Managing
  <2>3. task[s] = "mark" => \A a \in added[s] : a.position \in DOMAIN own[s]
    BY DEF RaceInv, SessionInv, Marking
  <2> QED BY <2>1, <2>2, <2>3
<1> HIDE DEF new
<1> QED BY <1>1, <1>2, <1>3

LEMMA CommitOthers ==
    ASSUME RaceInv, NEW s \in Session, Commit(s), NEW t \in Session, t # s
    PROVE  SessionInv(t)'
<1>1. End(s)
  BY DEF Commit
<1>2. Resting(t)
  BY <1>1, Ended DEF OthersRest
<1>3. Known \subseteq Known'
  BY CommitRow DEF Known
<1>4. \A p \in Known :
        /\ row'[p].center = row[p].center
        /\ row[p].status = "closed" => row'[p].status = "closed"
  BY CommitRow DEF Known
<1>5. \A p \in DOMAIN own[t] : p \in Position /\ p \notin DOMAIN own[s]
  BY DEF RaceInv, Exclusive, SessionInv, Cursor, Known
<1>6. \A p \in DOMAIN own[t] : row'[p] = row[p]
  <2> TAKE p \in DOMAIN own[t]
  <2>1. p \in Position /\ p \notin DOMAIN own[s]
    BY <1>5
  <2> QED BY <2>1, CommitRow
<1>7. RowStep(t)
  BY <1>3, <1>4, <1>6 DEF RowStep
<1> QED BY <1>2, <1>7, OtherSession DEF RaceInv

LEMMA CommitRows ==
    ASSUME RaceInv, NEW s \in Session, Commit(s)
    PROVE  Rows'
<1> SUFFICES ASSUME NEW p \in Position
             PROVE  /\ row'[p].status \in {"none", "open", "closed"}
                    /\ row'[p].status = "none" => marks'[p] = {}
                    /\ \A m \in marks'[p] : m.side = SideOf(m.active, row'[p].center)
  BY DEF Rows
<1>1. /\ row[p].status \in {"none", "open", "closed"}
      /\ row[p].status = "none" => marks[p] = {}
      /\ \A m \in marks[p] : m.side = SideOf(m.active, row[p].center)
  BY DEF RaceInv, Rows
<1>2. row'[p].status \in {"none", "open", "closed"} /\ (row'[p].status = "none" => row[p].status = "none")
  BY <1>1, CommitRow
<1>3. row[p].status = "none" => marks'[p] = {}
  <2>1. row[p].status = "none" => p \notin DOMAIN own[s]
    BY CommitRow DEF Known
  <2> QED BY <1>1, <2>1, CommitMarks
<1>4. ASSUME NEW m \in marks'[p] PROVE m.side = SideOf(m.active, row'[p].center)
  <2>1. row'[p].center = row[p].center
    BY CommitRow
  <2>2. CASE m \in marks[p]
    BY <1>1, <2>1, <2>2
  <2>3. CASE \E a \in added[s] : a.position = p /\ a.mark = m
    <3>1. PICK a \in added[s] : a.position = p /\ a.mark = m
      BY <2>3
    <3>2. task[s] = "mark"
      BY DEF RaceInv, Shaped, SessionInv, Idle, Managing
    <3>3. a.mark.side = SideOf(a.mark.active, row[a.position].center)
      BY <3>2 DEF RaceInv, SessionInv, Marking
    <3> QED BY <2>1, <3>1, <3>3
  <2> QED BY <2>2, <2>3, CommitMarks
<1> QED BY <1>2, <1>3, <1>4

LEMMA CommitQuotes ==
    ASSUME RaceInv, NEW s \in Session, Commit(s)
    PROVE  OneQuote'
<1>1. UNCHANGED <<now, price>> /\ End(s)
  BY DEF Commit
<1>2. \A t \in Session : t # s => /\ task'[t] = task[t] /\ cur'[t] = cur[t] /\ at'[t] = at[t]
                                  /\ added'[t] = added[t]
  BY <1>1 DEF End, RaceInv, Shaped
<1>3. cur'[s] = {} /\ added'[s] = {}
  BY <1>1 DEF End, RaceInv, Shaped
<1>4. ASSUME NEW q \in Quotes' PROVE q \in Quotes
  <2>1. CASE q = <<price'.ts, price'.active>>
    BY <1>1, <2>1 DEF Quotes
  <2>2. CASE \E t \in Session : task'[t] = "mark" /\ cur'[t] # {} /\ q = <<at'[t].ts, at'[t].active>>
    BY <1>2, <1>3, <2>2 DEF Quotes
  <2>3. CASE \E p \in Position : \E m \in marks'[p] : q = <<m.ts, m.active>>
    <3>1. PICK p \in Position : \E m \in marks'[p] : q = <<m.ts, m.active>>
      BY <2>3
    <3>2. PICK m \in marks'[p] : q = <<m.ts, m.active>>
      BY <3>1
    <3>3. CASE m \in marks[p]
      BY <3>2, <3>3 DEF Quotes
    <3>4. CASE \E a \in added[s] : a.position = p /\ a.mark = m
      BY <3>2, <3>4 DEF Quotes
    <3> QED BY <3>3, <3>4, CommitMarks
  <2>4. CASE \E t \in Session : \E b \in added'[t] : q = <<b.mark.ts, b.mark.active>>
    BY <1>2, <1>3, <2>4 DEF Quotes
  <2> QED BY <2>1, <2>2, <2>3, <2>4 DEF Quotes
<1> QED BY <1>1, <1>4, FewerQuotes DEF RaceInv

(* A mark that is ignored says of the range what the one that is there     *)
(* already says, for both stand on the same price row.                     *)
LEMMA CommitEver ==
    ASSUME RaceInv, NEW s \in Session, Commit(s)
    PROVE  EverInRangeKept'
<1> SUFFICES ASSUME NEW p \in Position
             PROVE  row'[p].ever = (\E m \in marks'[p] : m.side = In)
  BY DEF EverInRangeKept
<1>1. row[p].ever = (\E m \in marks[p] : m.side = In)
  BY DEF RaceInv, EverInRangeKept
<1>2. task[s] \in {"mark", "manage"}
  BY DEF Commit, RaceInv, Shaped
<1>3. CASE task[s] = "manage" \/ p \notin DOMAIN own[s]
  <2>1. marks'[p] = marks[p]
    BY <1>3, CommitMarks
  <2>2. row'[p].ever = row[p].ever
    BY <1>3, CommitRow
  <2> QED BY <1>1, <2>1, <2>2
<1>4. CASE task[s] = "mark" /\ p \in DOMAIN own[s]
  <2>1. MarkedBy(s, p)
    BY <1>4 DEF RaceInv, SessionInv, Marking
  <2>2. PICK a \in added[s] : a.position = p /\ own[s][p].ever = (row[p].ever \/ a.mark.side = In)
    BY <2>1 DEF MarkedBy
  <2>3. row'[p].ever = (row[p].ever \/ a.mark.side = In)
    BY <1>4, <2>2, CommitRow
  <2>4. \A b \in added[s] : b.position = p => b = a
    BY <1>4, <2>2 DEF RaceInv, SessionInv, Marking
  <2>5. marks[p] \subseteq marks'[p] /\ \A m \in marks'[p] : m \in marks[p] \/ m = a.mark
    BY <2>4, CommitMarks
  <2>6. a.mark.side = In => \E m \in marks'[p] : m.side = In
    <3>1. CASE a.mark \in marks'[p]
      BY <3>1
    <3>2. CASE \E k \in marks[p] : k.ts = a.mark.ts
      <4>1. PICK k \in marks[p] : k.ts = a.mark.ts
        BY <3>2
      <4>2. <<k.ts, k.active>> \in Quotes /\ <<a.mark.ts, a.mark.active>> \in Quotes
        BY DEF Quotes
      <4>3. k.active = a.mark.active
        BY <4>1, <4>2 DEF RaceInv, OneQuote
      <4>4. k.side = SideOf(k.active, row[p].center)
        BY DEF RaceInv, Rows
      <4>5. a.mark.side = SideOf(a.mark.active, row[p].center)
        BY <1>4, <2>2 DEF RaceInv, SessionInv, Marking
      <4> QED BY <2>5, <4>3, <4>4, <4>5
    <3> QED BY <2>2, <3>1, <3>2, CommitMarks
  <2> QED BY <1>1, <2>3, <2>5, <2>6
<1> QED BY <1>2, <1>3, <1>4

(* The first entry of a position that this transaction closes is its own,  *)
(* and any other position has its first entry already, or gets none.       *)
LEMMA CommitFirst ==
    ASSUME RaceInv, NEW s \in Session, Commit(s)
    PROVE  FirstClosingStands' /\ IsSeq(log')
<1> DEFINE n == Len(log)
<1>1. IsSeq(log) /\ IsSeq(entries[s]) /\ log' = log \o entries[s]
  BY DEF RaceInv, Shaped, SessionInv, Cursor, Commit
<1>2. /\ IsSeq(log')
      /\ n \in Nat /\ DOMAIN log = 1..n
      /\ Len(entries[s]) \in Nat /\ DOMAIN entries[s] = 1..Len(entries[s])
      /\ DOMAIN log' = 1..(n + Len(entries[s]))
      /\ \A i \in DOMAIN log : log'[i] = log[i]
      /\ \A i \in DOMAIN entries[s] : log'[n + i] = entries[s][i]
  BY <1>1, ConcatSeq
<1> HIDE DEF n
<1>3. /\ \A i \in DOMAIN log : i \in DOMAIN log'
      /\ \A i \in DOMAIN log' : i \in DOMAIN log \/ \E j \in DOMAIN entries[s] : i = n + j
      /\ \A j \in DOMAIN entries[s] : n + j \in DOMAIN log' /\ \A i \in DOMAIN log : i < n + j
  <2>1. \A i \in DOMAIN log' : i > n => i - n \in DOMAIN entries[s] /\ i = n + (i - n)
    BY <1>2
  <2> QED BY <1>2, <2>1
<1>4. task[s] \in {"mark", "manage"}
  BY DEF Commit, RaceInv, Shaped
<1>5. ASSUME NEW p \in Position
      PROVE  /\ row'[p].status = "closed" <=> EntriesOf(p)' # {}
             /\ \A i \in EntriesOf(p)' :
                  (\A j \in EntriesOf(p)' : i <= j) => figures'[p] = log'[i].figures
  <2>1. /\ row[p].status = "closed" <=> EntriesOf(p) # {}
        /\ \A i \in EntriesOf(p) :
             (\A j \in EntriesOf(p) : i <= j) => figures[p] = log[i].figures
    BY DEF RaceInv, FirstClosingStands
  <2>2. EntriesOf(p) = {i \in DOMAIN log' : i \in DOMAIN log /\ log'[i].position = p}
    BY <1>2, <1>3 DEF EntriesOf
  <2>3. EntriesOf(p)' = {i \in DOMAIN log' : log'[i].position = p}
    BY DEF EntriesOf
  <2>4. \A i \in EntriesOf(p)' : i \in EntriesOf(p) \/
          \E j \in DOMAIN entries[s] : i = n + j /\ entries[s][j].position = p
    BY <1>2, <1>3, <2>2, <2>3
  <2>5. EntriesOf(p) \subseteq EntriesOf(p)'
    BY <2>2, <2>3
  <2>6. CASE task[s] = "manage" /\ p \in DOMAIN own[s]
    <3>1. row[p].status = "open" /\ row'[p].status = "closed"
      BY <2>6, CommitRow
    <3>2. EntriesOf(p) = {}
      BY <2>1, <3>1
    <3> Managing(s)
      BY DEF RaceInv, SessionInv
    <3>3. PICK i \in DOMAIN entries[s] : entries[s][i].position = p
      BY <2>6 DEF Managing, EntryAt
    <3>4. \A j \in DOMAIN entries[s] : entries[s][j].position = p => j = i
      BY <2>6, <3>3 DEF Managing
    <3>5. (CHOOSE j \in DOMAIN entries[s] : entries[s][j].position = p) = i
      BY <3>3, <3>4
    <3>6. figures'[p] = entries[s][CHOOSE j \in DOMAIN entries[s] : entries[s][j].position = p].figures
      BY <2>6 DEF Commit
    <3>7. figures'[p] = entries[s][i].figures
      BY <3>5, <3>6
    <3>8. EntriesOf(p)' = {n + i}
      BY <1>2, <1>3, <2>3, <2>4, <3>2, <3>3, <3>4
    <3>9. log'[n + i] = entries[s][i]
      BY <1>2
    <3> QED BY <3>1, <3>7, <3>8, <3>9
  <2>7. CASE ~(task[s] = "manage" /\ p \in DOMAIN own[s])
    <3>1. figures'[p] = figures[p]
      BY <2>7 DEF Commit
    <3>2. row'[p].status = "closed" <=> row[p].status = "closed"
      <4>1. CASE task[s] = "mark"
        BY <4>1, CommitRow
      <4>2. CASE p \notin DOMAIN own[s]
        BY <4>2, CommitRow
      <4> QED BY <1>4, <2>7, <4>1, <4>2
    <3>3. (\E j \in DOMAIN entries[s] : entries[s][j].position = p) => row[p].status = "closed"
      <4>1. CASE task[s] = "mark"
        <5>1. entries[s] = << >>
          BY <4>1 DEF RaceInv, SessionInv, Marking
        <5> QED BY <5>1, EmptySeq
      <4>2. CASE task[s] = "manage"
        BY <2>7, <4>2 DEF RaceInv, SessionInv, Managing
      <4> QED BY <1>4, <4>1, <4>2
    <3>4. CASE EntriesOf(p) = {}
      <4>1. EntriesOf(p)' = {}
        BY <2>1, <2>4, <3>3, <3>4
      <4> QED BY <2>1, <3>2, <3>4, <4>1
    <3>5. CASE EntriesOf(p) # {}
      <4>1. PICK k \in EntriesOf(p) : TRUE
        BY <3>5
      <4>2. ASSUME NEW i \in EntriesOf(p)', \A j \in EntriesOf(p)' : i <= j
            PROVE  i \in EntriesOf(p) /\ log'[i] = log[i] /\ \A j \in EntriesOf(p) : i <= j
        <5>1. i <= k
          BY <2>5, <4>2
        <5>2. k \in DOMAIN log /\ k \in 1..n
          BY <1>2 DEF EntriesOf
        <5>3. i \in EntriesOf(p)
          <6> SUFFICES ASSUME NEW j \in DOMAIN entries[s], i = n + j PROVE FALSE
            BY <2>4
          <6>1. k < i
            BY <1>3, <5>2
          <6>2. i \in Int /\ k \in Int
            BY <1>2, <5>2
          <6> QED BY <5>1, <6>1, <6>2
        <5> QED BY <1>2, <2>5, <4>2, <5>3 DEF EntriesOf
      <4>3. EntriesOf(p)' # {}
        BY <2>5, <3>5
      <4> QED BY <2>1, <3>1, <3>2, <3>5, <4>2, <4>3
    <3> QED BY <3>4, <3>5
  <2> QED BY <2>6, <2>7
<1> QED BY <1>2, <1>5 DEF FirstClosingStands

LEMMA CommitInv ==
    ASSUME RaceInv, NEW s \in Session, Commit(s)
    PROVE  RaceInv'
<1>1. End(s)
  BY DEF Commit
<1>2. Shaped'
  <2>1. DOMAIN row' = Position /\ DOMAIN marks' = Position /\ DOMAIN figures' = Position
    BY DEF Commit
  <2>2. \A p \in Position : DOMAIN row'[p] = Fields
    BY CommitRow
  <2>3. IsSeq(log')
    BY CommitFirst
  <2> QED BY <1>1, <2>1, <2>2, <2>3, Ended DEF Shaped
<1>3. \A t \in Session : SessionInv(t)'
  BY <1>1, Ended, CommitOthers
<1> QED BY <1>1, <1>2, <1>3, Ended, CommitQuotes, CommitRows, CommitEver, CommitFirst DEF RaceInv

-----------------------------------------------------------------------------
(* Openings, polls and time, while sessions are open. *)
LEMMA ClockInv ==
    ASSUME RaceInv, Tick \/ Poll, UNCHANGED <<session, figures, log>>
    PROVE  RaceInv'
<1> USE DEF session
<1>1. UNCHANGED <<row, marks, session, figures, log>>
  BY DEF Tick, Poll
<1>2. Shaped' /\ Exclusive' /\ FirstClosingStands'
  BY <1>1 DEF RaceInv, Shaped, Exclusive, FirstClosingStands, EntriesOf
<1>5. EverInRangeKept'
  BY <1>1 DEF RaceInv, EverInRangeKept
<1>6. Rows'
  BY <1>1 DEF RaceInv, Rows
<1>3. ASSUME NEW s \in Session PROVE SessionInv(s)'
  <2>1. RowStep(s) /\ Resting(s)
    BY <1>1 DEF RowStep, Resting, Known
  <2> QED BY <2>1, OtherSession DEF RaceInv
<1>4. OneQuote'
  <2>1. CASE Tick
    <3>1. Quotes' = Quotes /\ price' = price /\ now' = now + 1
      BY <1>1, <2>1 DEF Tick, Quotes
    <3> QED BY <3>1 DEF RaceInv, OneQuote
  <2>2. CASE Poll
    <3>1. price.ts < now /\ now' = now /\ price'.ts = now
      BY <2>2 DEF Poll
    <3>2. Quotes' \subseteq Quotes \cup {<<price'.ts, price'.active>>}
      BY <1>1 DEF Quotes
    <3>3. \A q \in Quotes : q[1] \in Nat /\ q[1] < price'.ts
      BY <3>1 DEF RaceInv, OneQuote
    <3> DEFINE new == <<price'.ts, price'.active>>
    <3>4. new[1] = price'.ts
      OBVIOUS
    <3> HIDE DEF new
    <3>5. \A q \in Quotes' : q[1] \in Nat /\ q[1] <= price'.ts
      BY <3>1, <3>2, <3>3, <3>4 DEF RaceInv, OneQuote, new
    <3>6. ASSUME NEW q \in Quotes', NEW r \in Quotes', q[1] = r[1] PROVE q[2] = r[2]
      <4>1. CASE q \in Quotes /\ r \in Quotes
        BY <3>6, <4>1 DEF RaceInv, OneQuote
      <4>2. CASE q \notin Quotes \/ r \notin Quotes
        <5>1. q \in Quotes \/ q = new
          BY <3>2 DEF new
        <5>2. r \in Quotes \/ r = new
          BY <3>2 DEF new
        <5>3. ~(q \in Quotes /\ r = new) /\ ~(q = new /\ r \in Quotes)
          BY <3>1, <3>3, <3>4, <3>6 DEF RaceInv, OneQuote
        <5> QED BY <4>2, <5>1, <5>2, <5>3
      <4> QED BY <4>1, <4>2
    <3> QED BY <3>1, <3>5, <3>6 DEF RaceInv, OneQuote
  <2> QED BY <2>1, <2>2
<1> QED BY <1>2, <1>3, <1>4, <1>5, <1>6 DEF RaceInv

LEMMA OpenInv ==
    ASSUME RaceInv, NEW p \in Position, NEW offset, OpenPosition(p, offset),
           UNCHANGED <<session, figures, log>>
    PROVE  RaceInv'
<1> USE DEF session
<1> DEFINE new == [Absent EXCEPT !.status = "open",
                                 !.center = price.active + offset,
                                 !.entry = price.active,
                                 !.last = price.active,
                                 !.openedAt = now,
                                 !.wasIn = offset \in -Half..Half,
                                 !.txs = 1]
<1>1. /\ row[p].status = "none" /\ UNCHANGED <<now, price, marks>>
      /\ row' = [row EXCEPT ![p] = new]
  BY DEF OpenPosition
<1>2. DOMAIN new = Fields /\ new.status = "open" /\ new.ever = FALSE
  BY DEF Fields, Absent
<1> HIDE DEF new
<1>3. row'[p] = new /\ DOMAIN row' = Position /\ \A q \in Position : q # p => row'[q] = row[q]
  BY <1>1 DEF RaceInv, Shaped
<1>4. p \notin Known /\ Known' = Known \cup {p}
  BY <1>1, <1>2, <1>3 DEF Known
<1>5. marks[p] = {}
  BY <1>1 DEF RaceInv, Rows
<1>6. Shaped'
  BY <1>1, <1>2, <1>3 DEF RaceInv, Shaped
<1>7. Rows'
  BY <1>1, <1>2, <1>3, <1>5 DEF RaceInv, Rows
<1>8. OneQuote'
  <2>1. Quotes' = Quotes
    BY <1>1 DEF Quotes
  <2> QED BY <1>1, <2>1, FewerQuotes DEF RaceInv
<1>9. ASSUME NEW s \in Session PROVE SessionInv(s)'
  <2>1. Resting(s)
    BY DEF Resting
  <2>2. DOMAIN own[s] \subseteq Known
    BY DEF RaceInv, SessionInv, Cursor
  <2>3. RowStep(s)
    BY <1>3, <1>4, <2>2 DEF RowStep, Known
  <2> QED BY <2>1, <2>3, OtherSession DEF RaceInv
<1>10. Exclusive'
  BY DEF RaceInv, Exclusive
<1>11. EverInRangeKept'
  <2> SUFFICES ASSUME NEW q \in Position
               PROVE  row'[q].ever = (\E m \in marks[q] : m.side = In)
    BY <1>1 DEF EverInRangeKept
  <2>1. row[q].ever = (\E m \in marks[q] : m.side = In)
    BY DEF RaceInv, EverInRangeKept
  <2>2. CASE q = p
    BY <1>2, <1>3, <1>5, <2>2
  <2>3. CASE q # p
    BY <1>3, <2>1, <2>3
  <2> QED BY <2>2, <2>3
<1>12. FirstClosingStands'
  BY <1>1, <1>2, <1>3 DEF RaceInv, FirstClosingStands, EntriesOf
<1> QED BY <1>6, <1>7, <1>8, <1>9, <1>10, <1>11, <1>12 DEF RaceInv

LEMMA StutterInv ==
    ASSUME RaceInv, UNCHANGED allVars
    PROVE  RaceInv'
<1>1. UNCHANGED <<row, marks, now, price, session, figures, log>>
  BY DEF allVars, vars
<1>2. Shaped' /\ Exclusive' /\ FirstClosingStands'
  BY <1>1 DEF session, RaceInv, Shaped, Exclusive, FirstClosingStands, EntriesOf
<1>3. EverInRangeKept'
  BY <1>1 DEF RaceInv, EverInRangeKept
<1>4. Rows'
  BY <1>1 DEF RaceInv, Rows
<1>5. ASSUME NEW s \in Session PROVE SessionInv(s)'
  <2>1. RowStep(s) /\ Resting(s)
    BY <1>1 DEF session, RowStep, Resting, Known
  <2> QED BY <2>1, OtherSession DEF RaceInv
<1>6. OneQuote'
  <2>1. Quotes' = Quotes
    BY <1>1 DEF session, Quotes
  <2> QED BY <1>1, <2>1, FewerQuotes DEF RaceInv
<1> QED BY <1>2, <1>3, <1>4, <1>5, <1>6 DEF RaceInv

(* The invariant of all sessions together. *)
THEOREM RaceInvariance == RaceSpec => []RaceInv
<1>1. RaceInv /\ [RaceNext]_allVars => RaceInv'
  <2> SUFFICES ASSUME RaceInv, [RaceNext]_allVars PROVE RaceInv'
    OBVIOUS
  <2>1. CASE Environment
    BY <2>1, ClockInv, OpenInv DEF Environment
  <2>2. ASSUME NEW s \in Session, NEW command \in {"mark", "manage"}, Begin(s, command) PROVE RaceInv'
    BY <2>2, BeginInv
  <2>3. ASSUME NEW s \in Session, NEW p \in Position,
               Pass(s, p) \/ ReadFirst(s, p) \/ ReadMarks(s, p) \/ WriteClose(s, p)
        PROVE  RaceInv'
    BY <2>3, PassInv, ReadFirstInv, ReadMarksInv, WriteCloseInv
  <2>4. ASSUME NEW s \in Session, NEW p \in Position, NEW sigma \in Sigmas, NEW bad \in Bad,
               WriteMark(s, p, sigma, bad)
        PROVE  RaceInv'
    BY <2>4, WriteMarkInv
  <2>5. ASSUME NEW s \in Session, Commit(s) \/ Abort(s) PROVE RaceInv'
    BY <2>5, CommitInv, AbortInv
  <2>6. CASE UNCHANGED allVars
    BY <2>6, StutterInv
  <2> QED BY <2>1, <2>2, <2>3, <2>4, <2>5, <2>6 DEF RaceNext
<1> QED BY <1>1, RaceInitInv, PTL DEF RaceSpec

(* Whatever updates are lost between sessions, ever_in_range is set        *)
(* exactly when some mark found the price in range.                        *)
THEOREM EverCorrect == RaceSpec => []EverInRangeKept
<1>1. RaceInv => EverInRangeKept
  BY DEF RaceInv
<1> QED BY <1>1, RaceInvariance, PTL

(* A position that several managers close is closed once, and keeps the    *)
(* figures of the closing that was committed first.                        *)
THEOREM FirstClosingCorrect == RaceSpec => []FirstClosingStands
<1>1. RaceInv => FirstClosingStands
  BY DEF RaceInv
<1> QED BY <1>1, RaceInvariance, PTL
-----------------------------------------------------------------------------
(***************************************************************************)
(* NothingTwice.  Every version of a row, committed or not, was made by    *)
(* the opening or by a mark that its reader will find in the table: the    *)
(* counters of the row fit the marks up to that one, and was_in_range does *)
(* not claim more than that mark says.                                     *)
(***************************************************************************)
Numbers(r) == r.rebals \in Nat /\ r.feeHours \in Nat /\ r.openedAt \in Nat /\ r.wasIn \in BOOLEAN

MadeBy(r, M, m) ==
    /\ r.rebals <= Count(M, EntrySide(r), m.ts)
    /\ r.wasIn => m.side = In
    /\ r.feeHours # 0 =>
         \E start \in {r.openedAt} \cup {k.ts : k \in M} : r.feeHours + start <= m.ts

Authored(r, M, t) ==
    /\ Numbers(r)
    /\ \/ r.rebals = 0 /\ r.feeHours = 0 /\ (r.wasIn => EntrySide(r) = In)
       \/ \E m \in M : m.ts <= t /\ MadeBy(r, M, m)

(* A mark is what its time, its bin and its side say. *)
Stamped(m) == m = [ts |-> m.ts, active |-> m.active, side |-> m.side]

Dates ==
    /\ \A p \in Position : Dated(marks[p]) /\ \A m \in marks[p] : Stamped(m)
    /\ \A s \in Session : \A a \in added[s] : Stamped(a.mark)

(* The marks that a session knows of, and those it leaves. *)
Asked(s, p)  == IF ready[s] THEN past[s] ELSE marks[p]
Future(s, p) == marks[p] \cup {a.mark : a \in {b \in added[s] : b.position = p}}

OneAtATime(s) ==
    /\ \A p, q \in cur[s] : p = q
    /\ cur[s] = {} => ready[s] = FALSE
    /\ ready[s] => \A p \in cur[s] : past[s] \subseteq marks[p]

Reading(s) ==
    task[s] = "mark" =>
        /\ \A p \in todo[s] : Authored(seen[s][p], marks[p], price.ts)
        /\ \A p \in cur[s] : Authored(seen[s][p], Asked(s, p), at[s].ts)
        /\ \A p \in DOMAIN own[s] : Authored(own[s][p], Future(s, p), price.ts)

OnceInv ==
    /\ DOMAIN past = Session /\ DOMAIN ready = Session
    /\ price.active \in Int
    /\ Dates
    /\ \A p \in Position : Authored(row[p], marks[p], price.ts)
    /\ \A s \in Session : OneAtATime(s) /\ Reading(s)

(* More marks and a later time take nothing away from a version of a row. *)
LEMMA AuthoredMore ==
    ASSUME NEW r, NEW N, Dated(N), NEW M \in SUBSET N, NEW t \in Nat, NEW u \in Nat, t <= u,
           Authored(r, M, t)
    PROVE  Authored(r, N, u)
<1>1. CASE r.rebals = 0 /\ r.feeHours = 0 /\ (r.wasIn => EntrySide(r) = In)
  BY <1>1 DEF Authored
<1>2. ASSUME NEW m \in M, m.ts <= t, MadeBy(r, M, m)
      PROVE  Authored(r, N, u)
  <2>1. m.ts \in Nat /\ m \in N /\ m.ts <= u
    BY <1>2 DEF Dated
  <2>2. /\ Count(M, EntrySide(r), m.ts) <= Count(N, EntrySide(r), m.ts)
        /\ Count(M, EntrySide(r), m.ts) \in Nat /\ Count(N, EntrySide(r), m.ts) \in Nat
    BY <2>1, CountMore
  <2>3. r.rebals <= Count(N, EntrySide(r), m.ts)
    BY <1>2, <2>2 DEF MadeBy, Authored, Numbers
  <2>4. MadeBy(r, N, m)
    BY <1>2, <2>3 DEF MadeBy
  <2> QED BY <2>1, <2>4 DEF Authored
<1> QED BY <1>1, <1>2 DEF Authored

(* The heart of it: what a mark x makes of a version r of the row, of      *)
(* which the marks M were known.  A counted rebalance is a transition that *)
(* no mark up to the author of r was; hours are counted from a mark that   *)
(* is not older than that author.                                          *)
LEMMA MarkMakes ==
    ASSUME NEW r, NEW w, NEW M, NEW x, NEW prev \in Nat,
           Dated(M \cup {x}), Authored(r, M, x.ts), Numbers(w),
           w.openedAt = r.openedAt, EntrySide(w) = EntrySide(r),
           w.wasIn => x.side = In,
           w.rebals = IF r.wasIn /\ x.side # In THEN r.rebals + 1 ELSE r.rebals,
           \/ M = {} /\ prev = r.openedAt
           \/ \E n \in M : prev = n.ts /\ \A k \in M : k.ts <= n.ts,
           w.feeHours = IF x.side = In THEN r.feeHours + HoursSince(x.ts, prev) ELSE r.feeHours
    PROVE  Authored(w, M \cup {x}, x.ts)
<1> DEFINE N     == M \cup {x}
           side0 == EntrySide(r)
           from  == {r.openedAt} \cup {k.ts : k \in N}
<1>1. Dated(N) /\ Dated(M) /\ x \in N /\ x.ts \in Nat /\ Numbers(r)
  BY DatedLess DEF Dated, Authored
<1>2. \A m \in N : m.ts \in Nat
  BY DEF Dated
<1>3. Count(N, side0, x.ts) \in Nat
  BY <1>1, CountMore
<1>4. \A m \in M : m.ts <= x.ts =>
         Count(M, side0, m.ts) <= Count(N, side0, x.ts) /\ Count(M, side0, m.ts) \in Nat
  BY <1>1, <1>2, CountMore
<1>5. w.rebals <= Count(N, side0, x.ts)
  <2>1. CASE ~(r.wasIn /\ x.side # In)
    <3>1. w.rebals = r.rebals
      BY <2>1
    <3>2. r.rebals <= Count(N, side0, x.ts)
      <4>1. CASE r.rebals = 0
        BY <1>3, <4>1
      <4>2. ASSUME NEW m \in M, m.ts <= x.ts, MadeBy(r, M, m)
            PROVE  r.rebals <= Count(N, side0, x.ts)
        <5>1. Count(M, side0, m.ts) <= Count(N, side0, x.ts) /\ Count(M, side0, m.ts) \in Nat
          BY <1>4, <4>2
        <5>2. r.rebals <= Count(M, side0, m.ts) /\ r.rebals \in Nat
          BY <1>1, <4>2 DEF MadeBy, Numbers
        <5> HIDE DEF N, side0
        <5> QED BY <1>3, <5>1, <5>2
      <4> QED BY <4>1, <4>2 DEF Authored
    <3> QED BY <3>1, <3>2
  <2>2. CASE r.wasIn /\ x.side # In
    <3>1. w.rebals = r.rebals + 1
      BY <2>2
    <3> DEFINE E == Exits(N, side0)
               F == Exits(Upto(N, x.ts), side0)
    <3>2. IsFiniteSet(E) /\ F = {m \in E : m.ts <= x.ts} /\ IsFiniteSet(F)
      <4>1. Dated(Upto(N, x.ts))
        BY <1>1, DatedLess DEF Upto
      <4>2. F = {m \in E : m.ts <= x.ts}
        <5> HIDE DEF N, side0
        <5> QED BY <1>1, ExitsUpto
      <4>3. IsFiniteSet(E) /\ IsFiniteSet(F)
        <5> HIDE DEF N, side0
        <5> QED BY <1>1, <4>1, ExitsFinite
      <4> QED BY <4>2, <4>3
    <3>3. CASE r.rebals = 0 /\ side0 = In
      <4>1. PICK y \in E : -1 < y.ts /\ y.ts <= x.ts
        BY <1>1, <2>2, <3>3, ExitsBetween
      <4>2. y \in F
        BY <3>2, <4>1
      <4>3. Cardinality(F) # 0
        BY <3>2, <4>2, FS_EmptySet
      <4>4. Count(N, side0, x.ts) = Cardinality(F)
        BY DEF Count
      <4> HIDE DEF F
      <4> QED BY <1>3, <3>1, <3>3, <4>3, <4>4
    <3>4. ASSUME NEW m \in M, m.ts <= x.ts, MadeBy(r, M, m)
          PROVE  w.rebals <= Count(N, side0, x.ts)
      <4>1. m \in N /\ m.side = In /\ m.ts \in Nat
        BY <1>2, <2>2, <3>4 DEF MadeBy
      <4>2. m.ts < x.ts
        <5>1. m # x
          BY <2>2, <4>1
        <5>2. m.ts # x.ts
          BY <1>1, <4>1, <5>1 DEF Dated
        <5> QED BY <1>1, <3>4, <4>1, <5>2
      <4>3. PICK y \in E : m.ts < y.ts /\ y.ts <= x.ts
        BY <1>1, <2>2, <4>1, <4>2, ExitsBetween
      <4> DEFINE G == Exits(Upto(N, m.ts), side0)
      <4>4. G = {k \in E : k.ts <= m.ts}
        BY <1>1, <4>1, ExitsUpto
      <4>5. y \in N
        BY <4>3 DEF Exits
      <4>6. y.ts \in Nat
        BY <1>2, <4>5
      <4>7. E \subseteq N
        BY DEF Exits
      <4>8. G \subseteq F /\ y \in F /\ y \notin G
        <5>1. \A k \in E : k.ts \in Nat
          BY <1>2, <4>7
        <5>2. \A k \in E : k.ts <= m.ts => k.ts <= x.ts
          <6> HIDE DEF E, N
          <6> QED BY <1>1, <4>1, <4>2, <5>1
        <5>3. y \in E /\ y.ts <= x.ts /\ ~(y.ts <= m.ts)
          BY <4>1, <4>3, <4>6
        <5> HIDE DEF E, F, G, N, side0
        <5> QED BY <3>2, <4>4, <5>2, <5>3
      <4>9. Cardinality(G) \in Nat /\ Cardinality(F) \in Nat /\ IsFiniteSet(G)
        BY <3>2, <4>8, FS_Subset, FS_CardinalityType
      <4>10. Cardinality(G) + 1 <= Cardinality(F)
        <5> HIDE DEF F, G
        <5>1. Cardinality(G) <= Cardinality(F) /\ (Cardinality(F) = Cardinality(G) => F = G)
          BY <3>2, <4>8, FS_Subset
        <5> QED BY <4>8, <4>9, <5>1
      <4>11. Count(M, side0, m.ts) <= Cardinality(G) /\ Count(M, side0, m.ts) \in Nat
        <5>1. Count(M, side0, m.ts) <= Count(N, side0, m.ts) /\ Count(M, side0, m.ts) \in Nat
          BY <1>1, <4>1, CountMore
        <5> QED BY <5>1 DEF Count
      <4>12. Count(N, side0, x.ts) = Cardinality(F)
        BY DEF Count
      <4>13. r.rebals <= Count(M, side0, m.ts) /\ r.rebals \in Nat
        BY <1>1, <3>4 DEF MadeBy, Numbers
      <4> HIDE DEF F, G
      <4> QED BY <3>1, <4>9, <4>10, <4>11, <4>12, <4>13
    <3> QED BY <2>2, <3>3, <3>4 DEF Authored
  <2> QED BY <2>1, <2>2
<1>6. w.feeHours # 0 => \E start \in from : w.feeHours + start <= x.ts
  <2> SUFFICES ASSUME w.feeHours # 0 PROVE \E start \in from : w.feeHours + start <= x.ts
    OBVIOUS
  <2> DEFINE more == IF x.side = In THEN HoursSince(x.ts, prev) ELSE 0
  <2>1. w.feeHours = r.feeHours + more /\ more \in Nat
    BY <1>1 DEF HoursSince, Numbers
  <2>2. more # 0 => more = x.ts - prev /\ prev < x.ts
    BY DEF HoursSince
  <2>3. prev \in from
    OBVIOUS
  <2> HIDE DEF more
  <2>4. CASE r.feeHours = 0
    <3>1. w.feeHours + prev <= x.ts
      BY <1>1, <2>1, <2>2, <2>4
    <3> QED BY <2>3, <3>1
  <2>5. CASE r.feeHours # 0
    <3>1. PICK m \in M : m.ts <= x.ts /\ MadeBy(r, M, m)
      BY <2>5 DEF Authored
    <3>2. PICK start \in {r.openedAt} \cup {k.ts : k \in M} : r.feeHours + start <= m.ts
      BY <2>5, <3>1 DEF MadeBy
    <3>3. start \in from /\ start \in Nat
      BY <1>1, <1>2, <3>2 DEF Numbers
    <3>4. m.ts <= prev /\ m.ts \in Nat
      BY <1>2, <3>1
    <3>5. w.feeHours + start <= x.ts
      <4> HIDE DEF from
      <4>1. CASE more = 0
        BY <1>1, <2>1, <3>1, <3>2, <3>3, <3>4, <4>1 DEF Numbers
      <4>2. CASE more # 0
        BY <1>1, <2>1, <2>2, <3>2, <3>3, <3>4, <4>2 DEF Numbers
      <4> QED BY <4>1, <4>2
    <3> QED BY <3>3, <3>5
  <2> QED BY <2>4, <2>5
<1>7. MadeBy(w, N, x)
  <2> HIDE DEF N
  <2> QED BY <1>5, <1>6 DEF MadeBy
<1> QED BY <1>1, <1>7 DEF Authored

(* A time that is taken is taken by the same mark. *)
LEMMA DatedMore ==
    ASSUME NEW M, Dated(M), NEW x, x.ts \in Nat, \A k \in M : k.ts = x.ts => k = x
    PROVE  Dated(M \cup {x})
BY FS_AddElement DEF Dated

(* Two marks of one price row are one: the time gives the bin, the bin the *)
(* side.                                                                   *)
LEMMA FutureDated ==
    ASSUME RaceInv, Dates, NEW s \in Session, NEW p \in Position
    PROVE  Dated(Future(s, p))
<1> DEFINE A == {a.mark : a \in {b \in added[s] : b.position = p}}
<1>1. Dated(marks[p])
  BY DEF Dates
<1>2. CASE A = {}
  <2>1. Future(s, p) = marks[p]
    BY <1>2 DEF Future
  <2> QED BY <1>1, <2>1
<1>3. CASE A # {}
  <2>1. PICK a \in added[s] : a.position = p
    BY <1>3
  <2>2. task[s] = "mark"
    BY <2>1 DEF RaceInv, Shaped, SessionInv, Idle, Managing
  <2>3. Marking(s)
    BY DEF RaceInv, SessionInv
  <2>4. \A b \in added[s] : b.position = p => b = a
    BY <2>1, <2>2, <2>3 DEF Marking
  <2>5. A = {a.mark}
    BY <2>1, <2>4
  <2>6. a.mark.side = SideOf(a.mark.active, row[p].center) /\ Stamped(a.mark)
    BY <2>1, <2>2, <2>3 DEF Marking, Dates
  <2>7. <<a.mark.ts, a.mark.active>> \in Quotes
    BY DEF Quotes
  <2>8. a.mark.ts \in Nat
    BY <2>7 DEF RaceInv, OneQuote
  <2>9. ASSUME NEW k \in marks[p], k.ts = a.mark.ts PROVE k = a.mark
    <3>1. <<k.ts, k.active>> \in Quotes
      BY DEF Quotes
    <3>2. k.active = a.mark.active
      BY <2>7, <2>9, <3>1 DEF RaceInv, OneQuote
    <3>3. k.side = SideOf(k.active, row[p].center) /\ Stamped(k)
      BY DEF RaceInv, Rows, Dates
    <3>4. k.side = a.mark.side
      BY <2>6, <3>2, <3>3
    <3> QED BY <2>6, <2>9, <3>2, <3>3, <3>4, Zenon DEF Stamped
  <2>10. Dated(marks[p] \cup {a.mark})
    BY <1>1, <2>8, <2>9, DatedMore
  <2> QED BY <2>5, <2>10 DEF Future
<1> QED BY <1>2, <1>3

(* What a session still holds when another one, or the world, moves. *)
Still(s) == Resting(s) /\ at'[s] = at[s] /\ past'[s] = past[s] /\ ready'[s] = ready[s]

(* What a session has read stays true while it rests.                      *)
LEMMA OnceRests ==
    ASSUME RaceInv, OnceInv, NEW s \in Session, Still(s), Dates',
           price'.ts \in Nat, price.ts <= price'.ts,
           \A p \in Position : marks[p] \subseteq marks'[p],
           \A p \in DOMAIN own[s] : marks'[p] = marks[p]
    PROVE  OneAtATime(s)' /\ Reading(s)'
<1>1. OneAtATime(s) /\ Reading(s) /\ Cursor(s) /\ price.ts \in Nat
  BY DEF OnceInv, RaceInv, SessionInv, OneQuote
<1>2. Known \subseteq Position
  BY DEF Known
<1>3. OneAtATime(s)'
  BY <1>1, <1>2 DEF OneAtATime, Still, Resting, Cursor
<1>4. ASSUME task[s] = "mark" PROVE Reading(s)'
  <2>1. ASSUME NEW p \in todo[s] PROVE Authored(seen[s][p], marks'[p], price'.ts)
    <3>1. p \in Position /\ Authored(seen[s][p], marks[p], price.ts)
      BY <1>1, <1>2, <1>4 DEF Cursor, Reading
    <3>2. Dated(marks'[p])
      BY <3>1 DEF Dates
    <3> QED BY <1>1, <3>1, <3>2, AuthoredMore
  <2>2. ASSUME NEW p \in cur[s] PROVE Authored(seen[s][p], Asked(s, p)', at[s].ts)
    <3>1. p \in Position /\ Authored(seen[s][p], Asked(s, p), at[s].ts)
      BY <1>1, <1>2, <1>4 DEF Cursor, Reading
    <3>2. Dated(marks'[p])
      BY <3>1 DEF Dates
    <3>3. <<at[s].ts, at[s].active>> \in Quotes
      BY <1>4 DEF Quotes
    <3>4. at[s].ts \in Nat
      BY <3>3 DEF RaceInv, OneQuote
    <3>5. CASE ready[s]
      <4>1. Asked(s, p)' = Asked(s, p)
        BY <3>5 DEF Asked, Still
      <4> QED BY <3>1, <4>1
    <3>6. CASE ~ready[s]
      <4>1. Asked(s, p) = marks[p] /\ Asked(s, p)' = marks'[p]
        BY <3>6 DEF Asked, Still
      <4> QED BY <3>1, <3>2, <3>4, <4>1, AuthoredMore
    <3> QED BY <3>5, <3>6
  <2>3. ASSUME NEW p \in DOMAIN own[s] PROVE Authored(own[s][p], Future(s, p)', price'.ts)
    <3>1. Authored(own[s][p], Future(s, p), price.ts)
      BY <1>1, <1>4 DEF Reading
    <3>2. Future(s, p)' = Future(s, p)
      BY DEF Future, Still, Resting
    <3>3. Dated(Future(s, p))
      <4>1. p \in Position
        BY <1>1, <1>2 DEF Cursor
      <4> QED BY <4>1, FutureDated DEF OnceInv
    <3> QED BY <1>1, <3>1, <3>2, <3>3, AuthoredMore
  <2> QED BY <2>1, <2>2, <2>3 DEF Reading, Still, Resting
<1> QED BY <1>3, <1>4 DEF Reading, Still, Resting

(* The part of a mark, as BookRace writes it, that its counters are. *)
LEMMA MarkFieldsCounts ==
    ASSUME NEW r, DOMAIN r = Fields, NEW legs, NEW last, NEW was, NEW ever, NEW since, NEW side,
           NEW entry, NEW flags, NEW rebals, NEW txs, NEW hours, NEW c, NEW old
    PROVE  LET w == Written(c, MarkFields(r, legs, last, was, ever, since, side, entry, flags,
                                          rebals, txs, hours), old)
           IN  /\ w.rebals = rebals /\ w.feeHours = hours /\ w.wasIn = was
               /\ w.openedAt = r.openedAt /\ w.entry = r.entry /\ w.center = r.center
BY DEF Written, MarkFields, Fields, Absent

(* The counters that a mark writes.                                        *)
LEMMA WrittenCounts ==
    ASSUME NEW s \in Session, NEW p \in Position, NEW sigma, NEW bad, DOMAIN seen[s][p] = Fields
    PROVE  LET r    == seen[s][p]
               w    == Written(row[p], View(s)!Marked(p, sigma, bad), r)
               side == SideOf(at[s].active, r.center)
           IN  /\ w.rebals = IF r.wasIn /\ side # In THEN r.rebals + 1 ELSE r.rebals
               /\ w.feeHours = IF side = In THEN r.feeHours + HoursSince(at[s].ts, View(s)!PrevTs(p))
                               ELSE r.feeHours
               /\ w.wasIn = (side = In)
               /\ w.openedAt = r.openedAt /\ w.entry = r.entry /\ w.center = r.center
<1> DEFINE r     == seen[s][p]
           m     == View(s)!Marked(p, sigma, bad)
           side  == View(s)!SideOf(at[s].active, r.center)
           since == View(s)!OutSince(r, side)
           left  == View(s)!LeftRange(r, side)
           entry == IF r.entrySigma = 0 THEN sigma ELSE r.entrySigma
           ever  == r.ever \/ side = View(s)!In
           out   == IF since = View(s)!NoTs THEN 0 ELSE at[s].ts - since
           flags == View(s)!Evaluate(ever, side, out, entry, sigma, bad)
           legs  == View(s)!Walk(r, at[s].active)
           rebals == IF left THEN r.rebals + 1 ELSE r.rebals
           credit == IF side = View(s)!In
                     THEN r.feeHours + View(s)!HoursSince(at[s].ts, View(s)!PrevTs(p))
                     ELSE r.feeHours
           w     == Written(row[p], m, r)
<1>1. m = MarkFields(r, legs, at[s].active, side = View(s)!In, ever, since, side, entry, flags,
                     rebals, IF left THEN r.txs + 2 ELSE r.txs, credit)
  BY Zenon DEF View!Marked, MarkFields
<1>2. side = SideOf(at[s].active, r.center) /\ View(s)!In = In
  BY DEF View!SideOf, SideOf, View!In, In
<1>3. left = (r.wasIn /\ side # In)
  BY <1>2 DEF View!LeftRange
<1>4. View(s)!HoursSince(at[s].ts, View(s)!PrevTs(p)) = HoursSince(at[s].ts, View(s)!PrevTs(p))
  BY DEF View!HoursSince, HoursSince
<1> HIDE DEF m, side, since, left, entry, ever, flags, legs
<1>5. /\ w.rebals = rebals /\ w.feeHours = credit /\ w.wasIn = (side = View(s)!In)
      /\ w.openedAt = r.openedAt /\ w.entry = r.entry /\ w.center = r.center
  <2> HIDE DEF rebals, credit, r
  <2> QED BY <1>1, MarkFieldsCounts DEF r
<1>6. rebals = (IF r.wasIn /\ side # In THEN r.rebals + 1 ELSE r.rebals)
  BY <1>3, Zenon
<1>7. credit = (IF side = In THEN r.feeHours + HoursSince(at[s].ts, View(s)!PrevTs(p)) ELSE r.feeHours)
  BY <1>2, <1>4, Zenon
<1> HIDE DEF rebals, credit, w, r
<1> QED BY <1>2, <1>5, <1>6, <1>7, Zenon DEF m, w, r

(* max(ts), over the marks that the session has asked for. *)
LEMMA ViewPrevTs ==
    ASSUME NEW s \in Session, NEW p \in Position, Dated(past[s])
    PROVE  \/ past[s] = {} /\ View(s)!PrevTs(p) = seen[s][p].openedAt
           \/ \E n \in past[s] : View(s)!PrevTs(p) = n.ts /\ \A k \in past[s] : k.ts <= n.ts
<1> DEFINE V  == [q \in Position |-> past[s]][p]
           T  == {m.ts : m \in V}
           t0 == CHOOSE t \in T : \A m \in V : m.ts <= t
<1>1. V = past[s]
  OBVIOUS
<1>2. View(s)!PrevTs(p) = IF V = {} THEN seen[s][p].openedAt ELSE t0
  BY Zenon DEF View!PrevTs, View!LastTs
<1> HIDE DEF V
<1>3. CASE V = {}
  BY <1>1, <1>2, <1>3
<1>4. CASE V # {}
  <2>1. PICK n \in V : \A k \in V : k.ts <= n.ts
    BY <1>1, <1>4, Last DEF Dated
  <2>2. \E t \in T : \A m \in V : m.ts <= t
    BY <2>1
  <2>3. t0 \in T /\ \A m \in V : m.ts <= t0
    BY <2>2, Zenon
  <2> HIDE DEF t0
  <2>4. PICK k \in V : t0 = k.ts
    BY <2>3
  <2> QED BY <1>1, <1>2, <1>4, <2>3, <2>4
<1> QED BY <1>3, <1>4

-----------------------------------------------------------------------------
LEMMA OnceInit == RaceInit => OnceInv
<1> SUFFICES ASSUME RaceInit PROVE OnceInv
  OBVIOUS
<1> USE DEF RaceInit, Init
<1>1. DOMAIN past = Session /\ DOMAIN ready = Session /\ price.active \in Int
  BY PaperMarkAssumption
<1>2. Dated({})
  BY FS_EmptySet DEF Dated
<1>3. Dates
  BY <1>2 DEF Dates
<1>4. ASSUME NEW p \in Position PROVE Authored(row[p], marks[p], price.ts)
  <2>1. row[p] = Absent
    OBVIOUS
  <2> QED BY <2>1 DEF Authored, Numbers, Absent
<1>5. ASSUME NEW s \in Session PROVE OneAtATime(s) /\ Reading(s)
  BY DEF OneAtATime, Reading
<1> QED BY <1>1, <1>3, <1>4, <1>5 DEF OnceInv

(* A step of session s that changes no table. *)
LEMMA OnceTableKept ==
    ASSUME RaceInv, OnceInv, NEW s \in Session, UNCHANGED <<row, marks, price>>,
           \A t \in Session : t # s => Still(t),
           \A a \in added'[s] : a \in added[s] \/ Stamped(a.mark),
           DOMAIN past' = Session, DOMAIN ready' = Session,
           OneAtATime(s)', Reading(s)'
    PROVE  OnceInv'
<1>1. \A t \in Session : t # s => added'[t] = added[t]
  BY DEF Still, Resting
<1>2. Dates'
  BY <1>1 DEF OnceInv, Dates
<1>3. price.ts \in Nat
  BY DEF RaceInv, OneQuote
<1>4. ASSUME NEW t \in Session, t # s PROVE OneAtATime(t)' /\ Reading(t)'
  BY <1>2, <1>3, <1>4, OnceRests
<1>5. \A p \in Position : Authored(row'[p], marks'[p], price'.ts)
  BY DEF OnceInv
<1> QED BY <1>2, <1>4, <1>5 DEF OnceInv

LEMMA OnceBegin ==
    ASSUME RaceInv, OnceInv, NEW s \in Session, NEW command \in {"mark", "manage"}, Begin(s, command)
    PROVE  OnceInv'
<1> USE DEF Begin, vars
<1>1. /\ UNCHANGED <<row, marks, price>> /\ DOMAIN past' = Session /\ DOMAIN ready' = Session
      /\ \A t \in Session : t # s => Still(t)
      /\ added' = added
  BY DEF RaceInv, Shaped, OnceInv, Still, Resting
<1>2. cur[s] = {} /\ DOMAIN own[s] = {}
  BY DEF RaceInv, SessionInv, Idle
<1>3. OneAtATime(s)'
  BY <1>2 DEF OnceInv, OneAtATime
<1>4. todo'[s] \subseteq Position /\ seen'[s] = row
  BY DEF RaceInv, Shaped, Open
<1>5. Reading(s)'
  BY <1>2, <1>4 DEF OnceInv, Reading
<1> QED BY <1>1, <1>3, <1>5, OnceTableKept

LEMMA OncePass ==
    ASSUME RaceInv, OnceInv, NEW s \in Session, NEW p \in Position, Pass(s, p)
    PROVE  OnceInv'
<1> USE DEF Pass, vars
<1>1. /\ UNCHANGED <<row, marks, price>> /\ DOMAIN past' = Session /\ DOMAIN ready' = Session
      /\ \A t \in Session : t # s => Still(t)
      /\ added' = added
  BY DEF RaceInv, Shaped, OnceInv, Still, Resting
<1>2. OneAtATime(s)'
  BY DEF OnceInv, OneAtATime
<1>3. todo'[s] \subseteq todo[s]
  BY DEF RaceInv, Shaped
<1>4. Reading(s)'
  BY <1>3 DEF OnceInv, Reading, Asked, Future
<1> QED BY <1>1, <1>2, <1>4, OnceTableKept

LEMMA OnceReadFirst ==
    ASSUME RaceInv, OnceInv, NEW s \in Session, NEW p \in Position, ReadFirst(s, p)
    PROVE  OnceInv'
<1> USE DEF ReadFirst, vars
<1>1. /\ UNCHANGED <<row, marks, price>> /\ DOMAIN past' = Session /\ DOMAIN ready' = Session
      /\ \A t \in Session : t # s => Still(t)
      /\ added' = added
  BY DEF RaceInv, Shaped, OnceInv, Still, Resting
<1>2. ready[s] = FALSE /\ ready'[s] = FALSE /\ cur'[s] = {p}
  BY DEF RaceInv, Shaped, OnceInv, OneAtATime
<1>3. OneAtATime(s)'
  BY <1>2 DEF OneAtATime
<1>4. ASSUME task[s] = "mark" PROVE Reading(s)'
  <2>1. at'[s] = price /\ p \in todo[s] /\ todo'[s] = todo[s] /\ seen'[s] = seen[s] /\ own'[s] = own[s]
    BY <1>4 DEF RaceInv, Shaped
  <2>2. Reading(s)
    BY DEF OnceInv
  <2>3. Asked(s, p)' = marks[p]
    BY <1>2 DEF Asked
  <2>4. \A q \in cur'[s] : Authored(seen'[s][q], Asked(s, q)', at'[s].ts)
    BY <1>2, <1>4, <2>1, <2>2, <2>3 DEF Reading
  <2>5. \A q \in DOMAIN own[s] : Future(s, q)' = Future(s, q)
    BY DEF Future
  <2> QED BY <1>4, <2>1, <2>2, <2>4, <2>5 DEF Reading
<1>5. Reading(s)'
  BY <1>4 DEF Reading
<1> QED BY <1>1, <1>3, <1>5, OnceTableKept

LEMMA OnceReadMarks ==
    ASSUME RaceInv, OnceInv, NEW s \in Session, NEW p \in Position, ReadMarks(s, p)
    PROVE  OnceInv'
<1> USE DEF ReadMarks, vars
<1>1. /\ UNCHANGED <<row, marks, price>> /\ DOMAIN past' = Session /\ DOMAIN ready' = Session
      /\ \A t \in Session : t # s => Still(t)
      /\ added' = added
  BY DEF RaceInv, Shaped, OnceInv, Still, Resting
<1>2. past'[s] = marks[p] /\ ready'[s] = TRUE /\ cur'[s] = cur[s] /\ \A q \in cur[s] : q = p
  BY DEF RaceInv, Shaped, OnceInv, OneAtATime
<1>3. OneAtATime(s)'
  BY <1>2 DEF OneAtATime
<1>4. \A q \in cur[s] : Asked(s, q)' = Asked(s, q)
  BY <1>2 DEF Asked
<1>5. \A q \in DOMAIN own[s] : Future(s, q)' = Future(s, q)
  BY DEF Future
<1>6. Reading(s)'
  BY <1>2, <1>4, <1>5 DEF OnceInv, Reading
<1> QED BY <1>1, <1>3, <1>6, OnceTableKept

LEMMA OnceWriteMark ==
    ASSUME RaceInv, OnceInv, NEW s \in Session, NEW p \in Position, NEW sigma, NEW bad,
           WriteMark(s, p, sigma, bad)
    PROVE  OnceInv'
<1> USE DEF WriteMark, Finish, vars
<1> DEFINE r == seen[s][p]
           w == Written(row[p], View(s)!Marked(p, sigma, bad), r)
           x == [ts |-> at[s].ts, active |-> at[s].active, side |-> SideOf(at[s].active, row[p].center)]
           a == [position |-> p, mark |-> x]
           M == past[s]
           N == marks[p] \cup {x}
<1>1. /\ UNCHANGED <<row, marks, price>> /\ DOMAIN past' = Session /\ DOMAIN ready' = Session
      /\ \A t \in Session : t # s => Still(t)
  BY DEF RaceInv, Shaped, OnceInv, Still, Resting
<1>2. /\ own'[s] = Put(own[s], p, w) /\ added'[s] = added[s] \cup {a} /\ task'[s] = "mark"
      /\ todo'[s] \subseteq todo[s] /\ cur'[s] = {} /\ seen'[s] = seen[s] /\ ready'[s] = FALSE
  BY DEF RaceInv, Shaped, OnceInv
<1>3. /\ p \in cur[s] /\ p \notin DOMAIN own[s] /\ task[s] = "mark" /\ ready[s]
      /\ DOMAIN r = Fields /\ r.center = row[p].center
  BY DEF RaceInv, SessionInv, Cursor, Free
<1>4. a.position = p /\ a.mark = x /\ Stamped(x) /\ x.ts = at[s].ts /\ x.active = at[s].active
      /\ x.side = SideOf(at[s].active, row[p].center)
  BY DEF Stamped
<1>5. /\ w.rebals = IF r.wasIn /\ x.side # In THEN r.rebals + 1 ELSE r.rebals
      /\ w.feeHours = IF x.side = In THEN r.feeHours + HoursSince(x.ts, View(s)!PrevTs(p))
                      ELSE r.feeHours
      /\ w.wasIn = (x.side = In)
      /\ w.openedAt = r.openedAt /\ w.entry = r.entry /\ w.center = r.center
  <2> HIDE DEF x, w
  <2>1. x.side = SideOf(at[s].active, r.center) /\ x.ts = at[s].ts
    BY <1>3, <1>4
  <2> QED BY <1>3, <2>1, WrittenCounts DEF w
<1> HIDE DEF a, x, w, WriteMark, Finish
<1>6. <<at[s].ts, at[s].active>> \in Quotes
  BY <1>3 DEF Quotes
<1>7. x.ts \in Nat /\ x.ts <= price.ts /\ price.ts \in Nat
  BY <1>4, <1>6 DEF RaceInv, OneQuote
<1>8. ASSUME NEW k \in marks[p], k.ts = x.ts PROVE k = x
  <2>1. <<k.ts, k.active>> \in Quotes
    BY DEF Quotes
  <2>2. k.active = x.active
    BY <1>4, <1>6, <1>8, <2>1 DEF RaceInv, OneQuote
  <2>3. k.side = SideOf(k.active, row[p].center) /\ Stamped(k)
    BY DEF RaceInv, Rows, OnceInv, Dates
  <2>4. k.side = x.side
    BY <1>4, <2>2, <2>3
  <2> QED BY <1>4, <1>8, <2>2, <2>3, <2>4, Zenon DEF Stamped
<1>9. Dated(marks[p]) /\ Dated(N) /\ M \subseteq marks[p]
  <2>1. Dated(marks[p])
    BY DEF OnceInv, Dates
  <2>2. M \subseteq marks[p]
    BY <1>3 DEF OnceInv, OneAtATime
  <2>3. Dated(N)
    BY <1>7, <1>8, <2>1, DatedMore
  <2> QED BY <2>1, <2>2, <2>3
<1>10. Dated(M \cup {x}) /\ M \cup {x} \in SUBSET N /\ Dated(M)
  <2>1. M \cup {x} \in SUBSET N /\ M \in SUBSET N
    BY <1>9
  <2> QED BY <1>9, <2>1, DatedLess
<1>11. Authored(r, M, x.ts)
  <2>1. Authored(r, Asked(s, p), at[s].ts)
    BY <1>3 DEF OnceInv, Reading
  <2> QED BY <1>3, <1>4, <2>1 DEF Asked
<1> DEFINE prev == View(s)!PrevTs(p)
<1>12. /\ \/ M = {} /\ prev = r.openedAt
          \/ \E n \in M : prev = n.ts /\ \A k \in M : k.ts <= n.ts
       /\ prev \in Nat
  <2>1. \/ M = {} /\ prev = r.openedAt
        \/ \E n \in M : prev = n.ts /\ \A k \in M : k.ts <= n.ts
    BY <1>10, ViewPrevTs
  <2>2. r.openedAt \in Nat /\ \A n \in M : n.ts \in Nat
    BY <1>10, <1>11 DEF Authored, Numbers, Dated
  <2> HIDE DEF prev
  <2> QED BY <2>1, <2>2
<1>13. w.feeHours = IF x.side = In THEN r.feeHours + HoursSince(x.ts, prev) ELSE r.feeHours
  BY <1>5
<1> HIDE DEF prev, r
<1>14. Numbers(w) /\ EntrySide(w) = EntrySide(r) /\ (w.wasIn => x.side = In)
  <2>1. Numbers(r)
    BY <1>11 DEF Authored
  <2>2. HoursSince(x.ts, prev) \in Nat
    BY <1>7, <1>12 DEF HoursSince
  <2>3. w.wasIn \in BOOLEAN /\ (w.wasIn => x.side = In)
    BY <1>5
  <2>4. w.rebals \in Nat /\ w.feeHours \in Nat /\ w.openedAt \in Nat
    BY <1>5, <1>13, <2>1, <2>2 DEF Numbers
  <2> QED BY <1>5, <2>3, <2>4 DEF Numbers, EntrySide
<1>15. Authored(w, M \cup {x}, x.ts)
  BY <1>5, <1>10, <1>11, <1>12, <1>13, <1>14, MarkMakes
<1>16. Authored(w, N, price.ts)
  BY <1>7, <1>9, <1>10, <1>15, AuthoredMore
<1>17. OneAtATime(s)'
  BY <1>2 DEF OneAtATime
<1>18. /\ DOMAIN own'[s] = DOMAIN own[s] \cup {p} /\ own'[s][p] = w
       /\ \A q \in DOMAIN own[s] : q # p => own'[s][q] = own[s][q]
  BY <1>2 DEF Put
<1>19. ASSUME NEW q \in DOMAIN own'[s] PROVE Authored(own'[s][q], Future(s, q)', price.ts)
  <2>1. Marking(s)
    BY DEF RaceInv, SessionInv
  <2>2. CASE q = p
    <3>1. \A b \in added[s] : b.position # p
      BY <1>3, <2>1 DEF Marking
    <3>2. {b.mark : b \in {c \in added'[s] : c.position = p}} = {x}
      BY <1>2, <1>4, <3>1
    <3>3. Future(s, p)' = N
      BY <1>1, <3>2 DEF Future
    <3> QED BY <1>16, <1>18, <2>2, <3>3
  <2>3. CASE q # p
    <3>1. {b.mark : b \in {c \in added'[s] : c.position = q}} =
          {b.mark : b \in {c \in added[s] : c.position = q}}
      BY <1>2, <1>4, <2>3
    <3>2. Future(s, q)' = Future(s, q)
      BY <1>1, <3>1 DEF Future
    <3>3. q \in DOMAIN own[s] /\ own'[s][q] = own[s][q]
      BY <1>18, <2>3
    <3> QED BY <1>3, <3>2, <3>3 DEF OnceInv, Reading
  <2> QED BY <2>2, <2>3
<1>20. Reading(s)'
  BY <1>1, <1>2, <1>3, <1>19 DEF OnceInv, Reading
<1> QED BY <1>1, <1>2, <1>4, <1>17, <1>20, OnceTableKept

LEMMA OnceWriteClose ==
    ASSUME RaceInv, OnceInv, NEW s \in Session, NEW p \in Position, WriteClose(s, p)
    PROVE  OnceInv'
<1> USE DEF WriteClose, Finish, vars
<1>1. /\ UNCHANGED <<row, marks, price>> /\ DOMAIN past' = Session /\ DOMAIN ready' = Session
      /\ \A t \in Session : t # s => Still(t)
      /\ added' = added
  BY DEF RaceInv, Shaped, OnceInv, Still, Resting
<1>2. cur'[s] = {} /\ ready'[s] = FALSE /\ task'[s] = "manage"
  BY DEF RaceInv, Shaped, OnceInv
<1>3. OneAtATime(s)' /\ Reading(s)'
  BY <1>2 DEF OneAtATime, Reading
<1> QED BY <1>1, <1>3, OnceTableKept

(* The end of a transaction forgets what it held. *)
LEMMA OnceEnded ==
    ASSUME RaceInv, OnceInv, NEW s \in Session, End(s)
    PROVE  /\ \A t \in Session : t # s => Still(t)
           /\ DOMAIN past' = Session /\ DOMAIN ready' = Session
           /\ added'[s] = {}
           /\ OneAtATime(s)' /\ Reading(s)'
<1> USE DEF End
<1>1. /\ \A t \in Session : t # s => Still(t)
      /\ DOMAIN past' = Session /\ DOMAIN ready' = Session
  BY DEF RaceInv, Shaped, OnceInv, Still, Resting
<1>2. added'[s] = {} /\ task'[s] = "idle" /\ cur'[s] = {} /\ ready'[s] = FALSE
  BY DEF RaceInv, Shaped, OnceInv
<1>3. OneAtATime(s)' /\ Reading(s)'
  BY <1>2 DEF OneAtATime, Reading
<1> QED BY <1>1, <1>2, <1>3

LEMMA OnceAbort ==
    ASSUME RaceInv, OnceInv, NEW s \in Session, Abort(s)
    PROVE  OnceInv'
<1>1. End(s) /\ UNCHANGED <<row, marks, price>>
  BY DEF Abort, vars
<1> QED BY <1>1, OnceEnded, OnceTableKept

(* A commit makes public exactly the marks the session would have.         *)
LEMMA CommitFuture ==
    ASSUME RaceInv, OnceInv, NEW s \in Session, Commit(s), NEW p \in Position
    PROVE  marks'[p] = Future(s, p)
<1> DEFINE A   == {a.mark : a \in {b \in added[s] : b.position = p}}
           new == {m \in A : \A k \in marks[p] : k.ts # m.ts}
<1>1. marks'[p] = marks[p] \cup new
  BY DEF Commit
<1>2. Dated(Future(s, p))
  BY FutureDated DEF OnceInv
<1>3. ASSUME NEW m \in A, m \notin new PROVE m \in marks[p]
  <2>1. PICK k \in marks[p] : k.ts = m.ts
    BY <1>3
  <2>2. k = m
    BY <1>2, <2>1 DEF Dated, Future
  <2> QED BY <2>1, <2>2
<1> QED BY <1>1, <1>3 DEF Future

(* A committed version is the one whose author is in the table by now. *)
LEMMA OnceCommit ==
    ASSUME RaceInv, OnceInv, NEW s \in Session, Commit(s)
    PROVE  OnceInv'
<1>1. End(s) /\ price' = price /\ price.ts \in Nat
  BY DEF Commit, RaceInv, OneQuote
<1>2. \A t \in Session : t # s => Still(t)
  BY <1>1, OnceEnded
<1>3. ASSUME NEW p \in Position
      PROVE  /\ marks'[p] = Future(s, p) /\ Dated(marks'[p])
             /\ \A m \in marks'[p] : Stamped(m)
             /\ marks[p] \subseteq marks'[p]
  <2>1. marks'[p] = Future(s, p)
    BY CommitFuture
  <2>2. Dated(Future(s, p))
    BY FutureDated DEF OnceInv
  <2> QED BY <2>1, <2>2 DEF Future, OnceInv, Dates
<1>4. Dates'
  <2>1. \A t \in Session : \A a \in added'[t] : Stamped(a.mark)
    BY <1>1, <1>2, OnceEnded DEF OnceInv, Dates, Still, Resting
  <2> QED BY <1>3, <2>1 DEF Dates
<1>5. ASSUME NEW p \in Position PROVE Authored(row'[p], marks'[p], price'.ts)
  <2>1. Authored(row[p], marks[p], price.ts)
    BY DEF OnceInv
  <2>2. Authored(row[p], marks'[p], price.ts)
    BY <1>1, <1>3, <2>1, AuthoredMore
  <2>3. CASE p \notin DOMAIN own[s]
    BY <1>1, <2>2, <2>3, CommitRow
  <2>4. CASE p \in DOMAIN own[s] /\ task[s] = "mark"
    <3>1. row'[p] = own[s][p]
      BY <2>4, CommitRow
    <3>2. Authored(own[s][p], Future(s, p), price.ts)
      BY <2>4 DEF OnceInv, Reading
    <3> QED BY <1>1, <1>3, <3>1, <3>2
  <2>5. CASE p \in DOMAIN own[s] /\ task[s] = "manage"
    <3>1. row'[p] = own[s][p]
      BY <2>5, CommitRow
    <3>2. own[s][p] = [row[p] EXCEPT !.status = "closed"] /\ DOMAIN row[p] = Fields
      BY <2>5 DEF RaceInv, Shaped, SessionInv, Managing
    <3>3. /\ row'[p].rebals = row[p].rebals /\ row'[p].feeHours = row[p].feeHours
          /\ row'[p].openedAt = row[p].openedAt /\ row'[p].wasIn = row[p].wasIn
          /\ row'[p].entry = row[p].entry /\ row'[p].center = row[p].center
      BY <3>1, <3>2 DEF Fields, Absent
    <3> QED BY <1>1, <2>2, <3>3 DEF Authored, Numbers, MadeBy, EntrySide
  <2>6. task[s] \in {"mark", "manage"}
    BY DEF Commit, RaceInv, Shaped
  <2> QED BY <2>3, <2>4, <2>5, <2>6
<1>6. ASSUME NEW t \in Session, t # s PROVE OneAtATime(t)' /\ Reading(t)'
  <2>1. ASSUME NEW p \in DOMAIN own[t] PROVE marks'[p] = marks[p]
    <3>1. p \in Position
      BY DEF RaceInv, SessionInv, Cursor, Known
    <3>2. p \notin DOMAIN own[s]
      BY <1>6 DEF RaceInv, Exclusive
    <3> QED BY <3>1, <3>2, CommitMarks
  <2> QED BY <1>1, <1>2, <1>3, <1>4, <1>6, <2>1, OnceRests
<1> QED BY <1>1, <1>4, <1>5, <1>6, OnceEnded DEF OnceInv

LEMMA OnceClock ==
    ASSUME RaceInv, OnceInv, Tick \/ Poll \/ UNCHANGED <<now, price, row, marks>>,
           UNCHANGED <<session, figures, log>>
    PROVE  OnceInv'
<1>1. UNCHANGED <<row, marks, session>>
  BY DEF Tick, Poll
<1>2. \A s \in Session : Still(s)
  BY <1>1 DEF session, Still, Resting
<1>3. price.ts \in Nat /\ price'.ts \in Nat /\ price.ts <= price'.ts
  <2>1. price.ts \in Nat /\ now \in Nat
    BY DEF RaceInv, OneQuote
  <2> QED BY <2>1 DEF Tick, Poll
<1>4. Dates' /\ DOMAIN past' = Session /\ DOMAIN ready' = Session /\ price'.active \in Int
  <2>1. Dates' /\ DOMAIN past' = Session /\ DOMAIN ready' = Session
    BY <1>1 DEF session, OnceInv, Dates
  <2>2. price'.active \in Int
    BY PaperMarkAssumption DEF OnceInv, Tick, Poll
  <2> QED BY <2>1, <2>2
<1>5. ASSUME NEW p \in Position PROVE Authored(row'[p], marks'[p], price'.ts)
  <2>1. Authored(row[p], marks[p], price.ts) /\ Dated(marks[p])
    BY DEF OnceInv, Dates
  <2> QED BY <1>1, <1>3, <2>1, AuthoredMore
<1>6. \A s \in Session : OneAtATime(s)' /\ Reading(s)'
  BY <1>1, <1>2, <1>3, <1>4, OnceRests
<1> QED BY <1>4, <1>5, <1>6 DEF OnceInv

LEMMA OnceOpen ==
    ASSUME RaceInv, OnceInv, NEW p \in Position, NEW offset \in Offsets, OpenPosition(p, offset),
           UNCHANGED <<session, figures, log>>
    PROVE  OnceInv'
<1> DEFINE new == [Absent EXCEPT !.status = "open",
                                 !.center = price.active + offset,
                                 !.entry = price.active,
                                 !.last = price.active,
                                 !.openedAt = now,
                                 !.wasIn = offset \in -Half..Half,
                                 !.txs = 1]
<1>1. UNCHANGED <<now, price, marks>> /\ row' = [row EXCEPT ![p] = new]
  BY DEF OpenPosition
<1>2. /\ new.rebals = 0 /\ new.feeHours = 0 /\ new.openedAt = now
      /\ new.wasIn = (offset \in -Half..Half)
      /\ new.entry = price.active /\ new.center = price.active + offset
  BY DEF Absent
<1> HIDE DEF new
<1>3. row'[p] = new /\ \A q \in Position : q # p => row'[q] = row[q]
  BY <1>1 DEF RaceInv, Shaped
<1>4. \A s \in Session : Still(s)
  BY DEF session, Still, Resting
<1>5. price.ts \in Nat /\ now \in Nat
  BY DEF RaceInv, OneQuote
<1>6. Dates' /\ DOMAIN past' = Session /\ DOMAIN ready' = Session
  BY <1>1 DEF session, OnceInv, Dates
<1>7. Authored(new, marks[p], price.ts)
  <2>1. new.wasIn => EntrySide(new) = In
    <3>1. offset \in Int /\ Half \in Nat /\ price.active \in Int
      BY PaperMarkAssumption DEF OnceInv
    <3>2. offset \in -Half..Half => SideOf(price.active, price.active + offset) = In
      BY <3>1 DEF SideOf, In
    <3>3. EntrySide(new) = SideOf(price.active, price.active + offset)
      BY <1>2 DEF EntrySide
    <3> QED BY <1>2, <3>2, <3>3
  <2>2. new.wasIn \in BOOLEAN
    BY <1>2
  <2> QED BY <1>2, <1>5, <2>1, <2>2 DEF Authored, Numbers
<1>8. \A q \in Position : Authored(row'[q], marks'[q], price'.ts)
  BY <1>1, <1>3, <1>7 DEF OnceInv
<1>9. \A s \in Session : OneAtATime(s)' /\ Reading(s)'
  BY <1>1, <1>4, <1>5, <1>6, OnceRests
<1> QED BY <1>1, <1>6, <1>8, <1>9 DEF OnceInv

(* The inductive invariant: each version of a row was written by one mark. *)
THEOREM OnceInvariance == RaceSpec => [](RaceInv /\ OnceInv)
<1>1. RaceInv /\ OnceInv /\ [RaceNext]_allVars => OnceInv'
  <2> SUFFICES ASSUME RaceInv, OnceInv, [RaceNext]_allVars PROVE OnceInv'
    OBVIOUS
  <2>1. CASE Environment
    BY <2>1, OnceClock, OnceOpen DEF Environment
  <2>2. ASSUME NEW s \in Session, NEW command \in {"mark", "manage"}, Begin(s, command)
        PROVE  OnceInv'
    BY <2>2, OnceBegin
  <2>3. ASSUME NEW s \in Session, NEW p \in Position,
               Pass(s, p) \/ ReadFirst(s, p) \/ ReadMarks(s, p) \/ WriteClose(s, p)
        PROVE  OnceInv'
    BY <2>3, OncePass, OnceReadFirst, OnceReadMarks, OnceWriteClose
  <2>4. ASSUME NEW s \in Session, NEW p \in Position, NEW sigma \in Sigmas, NEW bad \in Bad,
               WriteMark(s, p, sigma, bad)
        PROVE  OnceInv'
    BY <2>4, OnceWriteMark
  <2>5. ASSUME NEW s \in Session, Commit(s) \/ Abort(s) PROVE OnceInv'
    BY <2>5, OnceCommit, OnceAbort
  <2>6. CASE UNCHANGED allVars
    BY <2>6, OnceClock DEF allVars, vars
  <2> QED BY <2>1, <2>2, <2>3, <2>4, <2>5, <2>6 DEF RaceNext
<1> QED BY <1>1, OnceInit, RaceInvariance, PTL DEF RaceSpec

(* However many marks run at once over the same rows, none of the hours    *)
(* and none of the rebalances that a row has was counted twice.            *)
THEOREM OnceCorrect == RaceSpec => []NothingTwice
<1>1. ASSUME OnceInv, RaceInv, NEW p \in Position
      PROVE  /\ row[p].feeHours # 0 =>
                  \E m \in marks[p], start \in Starts(p) : row[p].feeHours + start <= m.ts
             /\ row[p].rebals <= Cardinality(Transitions(p))
  <2> DEFINE r     == row[p]
             side0 == EntrySide(r)
  <2>1. Authored(r, marks[p], price.ts) /\ Dated(marks[p])
    BY <1>1 DEF OnceInv, Dates
  <2>2. \A m \in marks[p] : SidesBefore(p, m) = SidesPrior(marks[p], side0, m)
    BY DEF SidesBefore, Before, SidesPrior, Prior, EntrySide
  <2>3. Transitions(p) = Exits(marks[p], side0)
    BY <2>2 DEF Transitions, Exits
  <2>4. Cardinality(Exits(marks[p], side0)) \in Nat
    BY <2>1, ExitsFinite
  <2>5. CASE r.rebals = 0 /\ r.feeHours = 0
    BY <2>3, <2>4, <2>5
  <2>6. ASSUME NEW m \in marks[p], MadeBy(r, marks[p], m)
        PROVE  /\ r.feeHours # 0 =>
                    \E n \in marks[p], start \in Starts(p) : r.feeHours + start <= n.ts
               /\ r.rebals <= Cardinality(Transitions(p))
    <3>1. m.ts \in Nat
      BY <2>1 DEF Dated
    <3>2. /\ Count(marks[p], side0, m.ts) \in Nat
          /\ Count(marks[p], side0, m.ts) <= Cardinality(Exits(marks[p], side0))
      BY <2>1, <3>1, CountMore
    <3>3. r.rebals <= Count(marks[p], side0, m.ts) /\ r.rebals \in Nat
      BY <2>1, <2>6 DEF MadeBy, Authored, Numbers
    <3>4. r.rebals <= Cardinality(Transitions(p))
      BY <2>3, <2>4, <3>2, <3>3
    <3>5. r.feeHours # 0 => \E start \in Starts(p) : r.feeHours + start <= m.ts
      BY <2>6 DEF MadeBy, Starts
    <3> QED BY <3>4, <3>5
  <2> QED BY <2>1, <2>5, <2>6 DEF Authored
<1>2. RaceInv /\ OnceInv => NothingTwice
  BY <1>1 DEF NothingTwice
<1> QED BY <1>2, OnceInvariance, PTL
=============================================================================
