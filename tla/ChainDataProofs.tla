-------------------------- MODULE ChainDataProofs --------------------------
(***************************************************************************)
(* What becomes of the two series read from the chain.                     *)
(*                                                                         *)
(* bin_fees (FeeClaim): that the fees are credited once, and nothing drops *)
(* out between two marks, for any positions, bins, fees, liquidity and     *)
(* re-initialised accounts, and for any number of syncs that overlap.      *)
(*                                                                         *)
(* prices (Retention): that the hourly candles are those of all rows there *)
(* ever were, for any prices, any hour, any retention no shorter than an   *)
(* hour, and any times of polls and roll-ups.                              *)
(***************************************************************************)
EXTENDS FeeClaim, Retention, SumTheorems

-----------------------------------------------------------------------------
(* Rows of bin_fees, and what checkpoints keep of them.                    *)

Row == Acc \cup {NoRow}
Cp  == Kept \cup {NoCp}

LEMMA RowIs ==
    ASSUME NEW r \in Row
    PROVE  /\ r.fee \in Int /\ r.life \in Int /\ r.fee >= -1 /\ r.life >= -1
           /\ r.liq \in BOOLEAN
           /\ r # NoRow => r.fee >= 0 /\ r.life >= 0
           /\ r = NoRow => r.fee = -1 /\ r.life = -1 /\ ~r.liq
<1>1. CASE r \in Acc
  <2>1. r.fee \in Nat /\ r.life \in Nat /\ r.liq \in BOOLEAN
    BY <1>1 DEF Acc
  <2>2. r = NoRow => r.fee = -1
    BY DEF NoRow
  <2>3. r # NoRow
    BY <2>1, <2>2, SMT
  <2> QED BY <2>1, <2>3, SMT
<1>2. CASE r = NoRow
  BY <1>2, SMT DEF NoRow
<1> QED BY <1>1, <1>2 DEF Row

LEMMA CpIs ==
    ASSUME NEW c \in Cp
    PROVE  /\ c.fee \in Int /\ c.life \in Int /\ c.fee >= -1 /\ c.life >= -1
           /\ c = NoCp => c.fee = -1 /\ c.life = -1
BY SMT DEF Cp, Kept, NoCp

(* What is stored of a row that is there is a checkpoint that is there. *)
LEMMA StoredIs ==
    ASSUME NEW r \in Row
    PROVE  /\ Stored(r).fee = r.fee /\ Stored(r).life = r.life
           /\ r # NoRow => Stored(r) \in Kept /\ Stored(r) # NoCp
           /\ r = NoRow => Stored(r) = NoCp
<1>1. Stored(r).fee = r.fee /\ Stored(r).life = r.life
  BY DEF Stored
<1>2. ASSUME r # NoRow PROVE Stored(r) \in Kept /\ Stored(r) # NoCp
  <2>1. r.fee \in Nat /\ r.life \in Nat
    BY <1>2, RowIs, SMT
  <2>2. Stored(r) \in Kept
    BY <2>1 DEF Stored, Kept
  <2>3. NoCp.fee = -1
    BY DEF NoCp
  <2>4. Stored(r).fee # NoCp.fee
    BY <1>1, <2>1, <2>3, SMT
  <2> QED BY <2>2, <2>4
<1>3. ASSUME r = NoRow PROVE Stored(r) = NoCp
  BY <1>3 DEF Stored, NoRow, NoCp
<1> QED BY <1>1, <1>2, <1>3

LEMMA LargerIs ==
    ASSUME NEW m \in Int, NEW n \in Int
    PROVE  /\ Larger(m, n) \in Int /\ Larger(m, n) >= m /\ Larger(m, n) >= n
           /\ Larger(m, n) = m \/ Larger(m, n) = n
BY SMT DEF Larger

(* How far a write puts a row back bounds both of its counters. *)
LEMMA BackIs ==
    ASSUME NEW w \in Row, NEW v \in Row
    PROVE  /\ Back(w, v) \in Nat
           /\ w.life - v.life <= Back(w, v)
           /\ Forgotten(w) - Forgotten(v) <= Back(w, v)
<1>1. /\ w.fee \in Int /\ w.life \in Int /\ v.fee \in Int /\ v.life \in Int
  BY RowIs
<1> DEFINE i == w.life - v.life  j == Forgotten(w) - Forgotten(v)
<1>2. i \in Int /\ j \in Int
  BY <1>1, SMT DEF Forgotten
<1> HIDE DEF i, j
<1>3. Larger(i, j) \in Int /\ Larger(i, j) >= i /\ Larger(i, j) >= j
  BY <1>2, LargerIs
<1>4. Larger(0, Larger(i, j)) \in Int /\ Larger(0, Larger(i, j)) >= 0
      /\ Larger(0, Larger(i, j)) >= Larger(i, j)
  BY <1>3, LargerIs, SMT
<1> QED BY <1>2, <1>3, <1>4, SMT DEF Back, i, j

(* A gain is at least the difference of the accumulators. *)
LEMMA GainIs ==
    ASSUME NEW w \in Row, NEW c \in Cp
    PROVE  /\ Gain(w, c) \in Nat
           /\ w = NoRow \/ c = NoCp => Gain(w, c) = 0
           /\ w # NoRow /\ c # NoCp =>
                /\ Gain(w, c) >= w.fee - c.fee
                /\ Gain(w, c) = 0 \/ Gain(w, c) = w.fee - c.fee
<1>1. w.fee \in Int /\ c.fee \in Int
  BY RowIs, CpIs
<1>2. w.fee - c.fee \in Int
  BY <1>1, SMT
<1>3. CASE w = NoRow \/ c = NoCp
  BY <1>3 DEF Gain
<1>4. CASE w # NoRow /\ c # NoCp
  <2>1. Gain(w, c) = Larger(0, w.fee - c.fee)
    BY <1>4 DEF Gain
  <2> QED BY <1>2, <1>4, <2>1, LargerIs, SMT
<1> QED BY <1>3, <1>4

-----------------------------------------------------------------------------
(* One bin of one position: the first checkpoint f, the last one c, the    *)
(* row w of the table, the sum n of what was credited and passed over, and *)
(* how far back S the row has been put.  The middle three bounds say that  *)
(* the row may still fall back to where it once was, but for S.            *)

Cell(f, c, w, n, S) ==
    /\ f = NoCp <=> c = NoCp
    /\ c = NoCp => n = 0
    /\ c # NoCp => w # NoRow
    /\ n <= c.life - f.life + S
    /\ n <= w.life - f.life + S
    /\ n <= c.life - f.life + S - (Forgotten(c) - Forgotten(w))
    /\ c.fee - f.fee <= n

(* A row older than the one it overwrites is paid for by S. *)
LEMMA CellUpsert ==
    ASSUME NEW f \in Cp, NEW c \in Cp, NEW w \in Row, NEW v \in Row,
           NEW n \in Nat, NEW S \in Nat, Cell(f, c, w, n, S), v # NoRow
    PROVE  Cell(f, c, v, n, S + Back(w, v))
<1>1. /\ f.life \in Int /\ c.life \in Int /\ f.fee \in Int /\ c.fee \in Int
      /\ w.life \in Int /\ w.fee \in Int /\ v.life \in Int /\ v.fee \in Int
  BY RowIs, CpIs
<1>2. /\ Back(w, v) \in Nat /\ w.life - v.life <= Back(w, v)
      /\ Forgotten(w) - Forgotten(v) <= Back(w, v)
  BY BackIs
<1>3. /\ n <= c.life - f.life + S /\ n <= w.life - f.life + S
      /\ n <= c.life - f.life + S - (Forgotten(c) - Forgotten(w))
      /\ c.fee - f.fee <= n
  BY DEF Cell
<1>4. /\ n <= c.life - f.life + (S + Back(w, v))
      /\ n <= v.life - f.life + (S + Back(w, v))
      /\ n <= c.life - f.life + (S + Back(w, v)) - (Forgotten(c) - Forgotten(v))
  BY <1>1, <1>2, <1>3, SMT DEF Forgotten
<1> QED BY <1>3, <1>4, Zenon DEF Cell

(* A mark finds what the row has gained since the checkpoint. *)
LEMMA CellMark ==
    ASSUME NEW f \in Cp, NEW c \in Cp, NEW w \in Row,
           NEW n \in Nat, NEW S \in Nat, Cell(f, c, w, n, S), w.fee <= w.life
    PROVE  Cell(IF c = NoCp THEN Stored(w) ELSE f, Checkpoint(w, c), w, n + Gain(w, c), S)
<1>1. /\ f.life \in Int /\ c.life \in Int /\ f.fee \in Int /\ c.fee \in Int
      /\ w.life \in Int /\ w.fee \in Int
  BY RowIs, CpIs
<1>2. Gain(w, c) \in Nat
  BY GainIs
<1>3. Stored(w).fee = w.fee /\ Stored(w).life = w.life
  BY StoredIs
<1>4. CASE c = NoCp
  <2>1. Gain(w, c) = 0 /\ n = 0
    BY <1>4, GainIs DEF Cell
  <2>2. Checkpoint(w, c) = Stored(w)
    BY <1>4, StoredIs, Zenon DEF Checkpoint
  <2>3. w = NoRow <=> Stored(w) = NoCp
    BY StoredIs
  <2>4. /\ 0 <= Stored(w).life - Stored(w).life + S
        /\ 0 <= w.life - Stored(w).life + S
        /\ 0 <= Stored(w).life - Stored(w).life + S - (Forgotten(Stored(w)) - Forgotten(w))
        /\ Stored(w).fee - Stored(w).fee <= 0
    BY <1>1, <1>3, SMT DEF Forgotten
  <2>5. Cell(Stored(w), Stored(w), w, 0, S)
    BY <2>3, <2>4, Zenon DEF Cell
  <2>6. n + Gain(w, c) = 0
    BY <2>1, SMT
  <2> QED BY <1>4, <2>2, <2>5, <2>6, Zenon
<1>5. CASE c # NoCp
  <2>1. w # NoRow /\ f # NoCp
    BY <1>5 DEF Cell
  <2>2. Checkpoint(w, c) = Stored(w) /\ Stored(w) # NoCp
    BY <2>1, StoredIs, Zenon DEF Checkpoint
  <2>3. /\ Gain(w, c) >= w.fee - c.fee
        /\ Gain(w, c) = 0 \/ Gain(w, c) = w.fee - c.fee
    BY <1>5, <2>1, GainIs
  <2>4. /\ n <= w.life - f.life + S
        /\ n <= c.life - f.life + S - (Forgotten(c) - Forgotten(w))
        /\ c.fee - f.fee <= n
    BY DEF Cell
  <2>5. n + Gain(w, c) <= w.life - f.life + S /\ w.fee - f.fee <= n + Gain(w, c)
    BY <1>1, <1>2, <2>3, <2>4, SMT DEF Forgotten
  <2>6. /\ n + Gain(w, c) <= Stored(w).life - f.life + S
        /\ n + Gain(w, c) <= Stored(w).life - f.life + S - (Forgotten(Stored(w)) - Forgotten(w))
        /\ Stored(w).fee - f.fee <= n + Gain(w, c)
    BY <1>1, <1>2, <1>3, <2>5, SMT DEF Forgotten
  <2>7. Cell(f, Stored(w), w, n + Gain(w, c), S)
    BY <2>1, <2>2, <2>5, <2>6, Zenon DEF Cell
  <2> QED BY <1>5, <2>2, <2>7, Zenon
<1> QED BY <1>4, <1>5

-----------------------------------------------------------------------------
(* What holds in every state.                                              *)

(* A row that is on the chain, on its way, or in the table. *)
Genuine(r, b) ==
    /\ r.fee <= r.life
    /\ ~reinit => r.fee = r.life
    /\ r # NoRow => r.liq \/ b \in dry

RowsOK ==
    /\ \A b \in Bin : Genuine(chain[b], b) /\ Genuine(table[b], b)
    /\ \A s \in Syncer : \A b \in syncing[s].left :
         syncing[s].read[b] # NoRow /\ Genuine(syncing[s].read[b], b)

CellsOK ==
    \A p \in Position, b \in Bin :
        Cell(first[p][b], cp[p][b], table[b], claim[p][b] + passed[p][b], slip[b])

PassedOK ==
    \A p \in Position, b \in Bin : passed[p][b] # 0 => p \in empty \/ b \in dry

PlainOK ==
    ~reinit =>
        \A p \in Position, b \in Bin :
            first[p][b].fee = first[p][b].life /\ cp[p][b].fee = cp[p][b].life

IInv == TypeOK /\ RowsOK /\ CellsOK /\ PassedOK /\ PlainOK

(* Every cell of the tables is a row, a checkpoint or a counter.           *)
LEMMA Cells ==
    ASSUME TypeOK
    PROVE  /\ \A b \in Bin : /\ chain[b] \in Acc /\ chain[b] \in Row /\ chain[b] # NoRow
                             /\ table[b] \in Row /\ slip[b] \in Nat
           /\ \A s \in Syncer : /\ syncing[s].left \subseteq Bin
                                /\ \A b \in Bin : syncing[s].read[b] \in Row
           /\ \A p \in Position, b \in Bin :
                /\ first[p][b] \in Cp /\ cp[p][b] \in Cp
                /\ claim[p][b] \in Nat /\ passed[p][b] \in Nat
<1>1. ASSUME NEW b \in Bin
      PROVE  chain[b] \in Acc /\ chain[b] \in Row /\ chain[b] # NoRow
             /\ table[b] \in Row /\ slip[b] \in Nat
  <2>1. chain[b] \in Acc /\ chain[b] \in Row /\ table[b] \in Row /\ slip[b] \in Nat
    BY DEF TypeOK, Row
  <2>2. chain[b].fee \in Nat
    BY <2>1 DEF Acc
  <2>3. chain[b] # NoRow
    BY <2>1, <2>2, RowIs, SMT
  <2> QED BY <2>1, <2>3
<1>2. \A s \in Syncer : syncing[s].left \subseteq Bin /\ \A b \in Bin : syncing[s].read[b] \in Row
  BY DEF TypeOK, Row
<1>3. \A p \in Position, b \in Bin :
        first[p][b] \in Cp /\ cp[p][b] \in Cp /\ claim[p][b] \in Nat /\ passed[p][b] \in Nat
  BY DEF TypeOK, Cp
<1> QED BY <1>1, <1>2, <1>3

LEMMA InitIInv == Init => IInv
<1> SUFFICES ASSUME Init PROVE IInv
  OBVIOUS
<1>1. Before \in Nat /\ 0 \in 0..MaxMoves
  BY FeeClaimAssumption, SMT
<1>2. [fee |-> Before, life |-> Before, liq |-> TRUE] \in Acc
  BY <1>1 DEF Acc
<1>3. TypeOK
  BY <1>1, <1>2 DEF Init, TypeOK, NoSync
<1>4. RowsOK
  <2> SUFFICES ASSUME NEW b \in Bin PROVE Genuine(chain[b], b) /\ Genuine(NoRow, b)
    BY DEF RowsOK, Init, NoSync
  <2>1. chain[b].fee = Before /\ chain[b].life = Before /\ chain[b].liq
    BY DEF Init
  <2>2. NoRow.fee = -1 /\ NoRow.life = -1
    BY DEF NoRow
  <2> QED BY <1>1, <2>1, <2>2, SMT DEF Genuine
<1>5. CellsOK
  <2>1. NoCp \in Cp /\ NoRow \in Row
    BY DEF Cp, Row
  <2>2. Cell(NoCp, NoCp, NoRow, 0 + 0, 0)
    BY SMT DEF Cell, Forgotten, NoCp, NoRow
  <2> QED BY <2>2 DEF CellsOK, Init
<1>6. PassedOK /\ PlainOK
  BY DEF PassedOK, PlainOK, Init, NoCp
<1> QED BY <1>3, <1>4, <1>5, <1>6 DEF IInv

LEMMA TypeOKStep == TypeOK /\ [Next]_vars => TypeOK'
<1> SUFFICES ASSUME TypeOK, [Next]_vars PROVE TypeOK'
  OBVIOUS
<1>0. NoRow \in Row /\ NoCp \in Cp
  BY DEF Row, Cp
<1>1. ASSUME NEW b \in Bin, Earn(b) \/ Drain(b) \/ Refill(b) \/ Reinit(b) PROVE TypeOK'
  <2>1. moves' \in 0..MaxMoves
    BY <1>1, FeeClaimAssumption, SMT DEF TypeOK, Move, Earn, Drain, Refill, Reinit
  <2>2. chain' \in [Bin -> Acc]
    <3>1. chain \in [Bin -> Acc] /\ chain[b] \in Acc
      BY DEF TypeOK
    <3>2. chain[b].fee \in Nat /\ chain[b].life \in Nat /\ chain[b].liq \in BOOLEAN
      BY <3>1 DEF Acc
    <3>3. CASE Earn(b)
      <4>1. chain' = [chain EXCEPT ![b] = [chain[b] EXCEPT !.fee = chain[b].fee + 1,
                                                           !.life = chain[b].life + 1]]
        BY <3>1, <3>3, SMT DEF Earn, Acc
      <4>2. chain[b].fee + 1 \in Nat /\ chain[b].life + 1 \in Nat
        BY <3>2, SMT
      <4>3. [chain[b] EXCEPT !.fee = chain[b].fee + 1, !.life = chain[b].life + 1] \in Acc
        BY <3>1, <4>2, Zenon DEF Acc
      <4> QED BY <3>1, <4>1, <4>3
    <3>4. CASE Drain(b)
      BY <3>1, <3>4 DEF Drain, Acc
    <3>5. CASE Refill(b)
      BY <3>1, <3>5 DEF Refill, Acc
    <3>6. CASE Reinit(b)
      BY <3>1, <3>6 DEF Reinit, Acc
    <3> QED BY <1>1, <3>3, <3>4, <3>5, <3>6
  <2>3. dry' \subseteq Bin /\ reinit' \in BOOLEAN
    BY <1>1 DEF TypeOK, Earn, Drain, Refill, Reinit, past
  <2>4. UNCHANGED <<table, syncing, status, cp, claim, empty, first, passed, slip>>
    BY <1>1 DEF Earn, Drain, Refill, Reinit, past, book
  <2> QED BY <2>1, <2>2, <2>3, <2>4 DEF TypeOK
<1>2. ASSUME NEW p \in Position, OpenPosition(p) \/ ClosePosition(p) PROVE TypeOK'
  <2>1. status' \in [Position -> {"none", "open", "closed"}] /\ empty' \subseteq Position
    BY <1>2 DEF TypeOK, OpenPosition, ClosePosition
  <2>2. UNCHANGED <<chain, table, syncing, cp, claim, first, passed, slip, dry, reinit, moves>>
    BY <1>2 DEF OpenPosition, ClosePosition, past
  <2> QED BY <2>1, <2>2 DEF TypeOK
<1>3. NoSync \in [left : SUBSET Bin, read : [Bin -> Acc \cup {NoRow}]]
  BY DEF NoSync
<1>4. ASSUME NEW s \in Syncer, Fetch(s) \/ SyncFails(s) PROVE TypeOK'
  <2>1. [left |-> Bin, read |-> chain] \in [left : SUBSET Bin, read : [Bin -> Acc \cup {NoRow}]]
    BY DEF TypeOK
  <2>2. syncing' \in [Syncer -> [left : SUBSET Bin, read : [Bin -> Acc \cup {NoRow}]]]
    BY <1>3, <1>4, <2>1 DEF Fetch, SyncFails, TypeOK
  <2>3. UNCHANGED <<chain, table, status, cp, claim, empty, first, passed, slip, dry, reinit, moves>>
    BY <1>4 DEF Fetch, SyncFails, past, book
  <2> QED BY <2>2, <2>3 DEF TypeOK
<1>5. ASSUME NEW s \in Syncer, NEW b \in Bin, Upsert(s, b) PROVE TypeOK'
  <2>1. syncing[s].read[b] \in Row /\ table[b] \in Row /\ slip[b] \in Nat
    BY Cells
  <2>2. table' \in [Bin -> Acc \cup {NoRow}]
    BY <1>5, <2>1 DEF Upsert, TypeOK, Row
  <2>3. slip' \in [Bin -> Nat]
    <3>1. slip[b] + Back(table[b], syncing[s].read[b]) \in Nat
      BY <2>1, BackIs, SMT
    <3> QED BY <1>5, <3>1 DEF Upsert, TypeOK
  <2>4. syncing' \in [Syncer -> [left : SUBSET Bin, read : [Bin -> Acc \cup {NoRow}]]]
    <3>1. Rest(syncing[s], b) \in [left : SUBSET Bin, read : [Bin -> Acc \cup {NoRow}]]
      BY DEF TypeOK, Rest
    <3>2. syncing' = [syncing EXCEPT ![s] = Rest(syncing[s], b)]
      BY <1>5, Zenon DEF Upsert
    <3> QED BY <3>1, <3>2 DEF TypeOK
  <2>5. UNCHANGED <<chain, status, cp, claim, empty, first, passed, dry, reinit, moves>>
    BY <1>5 DEF Upsert, book
  <2> QED BY <2>2, <2>3, <2>4, <2>5 DEF TypeOK
<1>6. CASE Mark
  <2>1. ASSUME NEW p \in Position, NEW b \in Bin
        PROVE  /\ claim[p][b] + Delta(table[b], cp[p][b], p \in empty) \in Nat
               /\ passed[p][b] + Gain(table[b], cp[p][b])
                    - Delta(table[b], cp[p][b], p \in empty) \in Nat
               /\ Checkpoint(table[b], cp[p][b]) \in Cp /\ Stored(table[b]) \in Cp
    <3>1. /\ table[b] \in Row /\ cp[p][b] \in Cp
          /\ claim[p][b] \in Nat /\ passed[p][b] \in Nat
      BY Cells
    <3>2. Gain(table[b], cp[p][b]) \in Nat
      BY <3>1, GainIs
    <3>3. Stored(table[b]) \in Cp /\ Checkpoint(table[b], cp[p][b]) \in Cp
      BY <1>0, <3>1, StoredIs DEF Checkpoint, Cp
    <3> HIDE DEF Gain
    <3> QED BY <3>1, <3>2, <3>3, SMT DEF Delta
  <2>2. claim' \in [Position -> [Bin -> Nat]]
    BY <1>6, <2>1 DEF Mark, TypeOK
  <2>3. passed' \in [Position -> [Bin -> Nat]]
    BY <1>6, <2>1 DEF Mark, TypeOK
  <2>4. cp' \in [Position -> [Bin -> Cp]]
    BY <1>6, <2>1 DEF Mark, TypeOK, Cp
  <2>5. first' \in [Position -> [Bin -> Cp]]
    BY <1>6, <2>1 DEF Mark, TypeOK, Cp
  <2>6. UNCHANGED <<chain, table, syncing, status, empty, slip, dry, reinit, moves>>
    BY <1>6 DEF Mark, past
  <2> QED BY <2>2, <2>3, <2>4, <2>5, <2>6 DEF TypeOK, Cp
<1>7. CASE UNCHANGED vars
  BY <1>7 DEF vars, book, past, TypeOK
<1> QED BY <1>1, <1>2, <1>4, <1>5, <1>6, <1>7 DEF Next

(* What is read stays genuine: what the chain forgets is remembered.       *)
LEMMA GenuineKept ==
    ASSUME TypeOK, NEW r \in Row, NEW b \in Bin, Genuine(r, b),
           reinit => reinit', dry \subseteq dry'
    PROVE  r.fee <= r.life /\ (~reinit' => r.fee = r.life) /\ (r # NoRow => r.liq \/ b \in dry')
BY Zenon DEF Genuine

(* What happens on the chain leaves rows that are genuine. *)
LEMMA ChainMoves ==
    ASSUME IInv, NEW b \in Bin, Earn(b) \/ Drain(b) \/ Refill(b) \/ Reinit(b)
    PROVE  /\ \A c \in Bin : Genuine(chain[c], c)'
           /\ reinit => reinit'
           /\ dry \subseteq dry'
           /\ UNCHANGED <<table, syncing, status, cp, claim, empty, first, passed, slip>>
<1>1. TypeOK /\ chain \in [Bin -> Acc] /\ RowsOK
  BY DEF IInv, TypeOK
<1>2. /\ reinit => reinit'
      /\ dry \subseteq dry'
      /\ UNCHANGED <<table, syncing, status, cp, claim, empty, first, passed, slip>>
  BY DEF Earn, Drain, Refill, Reinit, past, book
<1>3. ASSUME NEW c \in Bin PROVE Genuine(chain[c], c)'
  <2>1. /\ chain[c].fee \in Nat /\ chain[c].life \in Nat /\ chain[c].liq \in BOOLEAN
        /\ chain[c].fee <= chain[c].life
        /\ ~reinit => chain[c].fee = chain[c].life
        /\ chain[c].liq \/ c \in dry
    BY <1>1, Cells DEF Acc, RowsOK, Genuine
  <2>2. CASE c # b
    <3>1. chain'[c] = chain[c]
      BY <1>1, <2>2 DEF Earn, Drain, Refill, Reinit
    <3> QED BY <1>2, <2>1, <3>1, Zenon DEF Genuine
  <2>3. CASE c = b
    <3>1. chain[b].liq \in BOOLEAN /\ chain \in [Bin -> [fee : Nat, life : Nat, liq : BOOLEAN]]
      BY <1>1, <2>1, <2>3 DEF Acc
    <3>2. CASE Earn(b)
      <4>1. /\ chain'[b].fee = chain[b].fee + 1 /\ chain'[b].life = chain[b].life + 1
            /\ chain'[b].liq = chain[b].liq
        BY <3>1, <3>2, SMT DEF Earn
      <4>2. reinit' = reinit /\ dry' = dry
        BY <3>2 DEF Earn, past
      <4>3. chain'[b].fee <= chain'[b].life /\ (~reinit => chain'[b].fee = chain'[b].life)
        BY <2>1, <2>3, <4>1, SMT
      <4> QED BY <2>1, <2>3, <4>1, <4>2, <4>3, Zenon DEF Genuine
    <3>3. CASE Drain(b)
      <4>1. /\ chain'[b].fee = chain[b].fee /\ chain'[b].life = chain[b].life
            /\ b \in dry' /\ reinit' = reinit
        BY <3>1, <3>3 DEF Drain
      <4> QED BY <2>1, <2>3, <4>1, Zenon DEF Genuine
    <3>4. CASE Refill(b)
      <4>1. /\ chain'[b].fee = chain[b].fee /\ chain'[b].life = chain[b].life
            /\ chain'[b].liq /\ reinit' = reinit
        BY <3>1, <3>4 DEF Refill, past
      <4> QED BY <2>1, <2>3, <4>1, Zenon DEF Genuine
    <3>5. CASE Reinit(b)
      <4>1. /\ chain'[b].fee = 0 /\ chain'[b].life = chain[b].life
            /\ chain'[b].liq = chain[b].liq /\ reinit' /\ dry' = dry
        BY <3>1, <3>5, SMT DEF Reinit
      <4>2. 0 <= chain[b].life
        BY <2>1, <2>3, SMT
      <4> QED BY <2>1, <2>3, <4>1, <4>2, Zenon DEF Genuine
    <3> QED BY <3>2, <3>3, <3>4, <3>5
  <2> QED BY <2>2, <2>3
<1> QED BY <1>2, <1>3

(* A write puts a genuine row in the table, and counts how old it is. *)
LEMMA UpsertKeeps ==
    ASSUME IInv, NEW s \in Syncer, NEW b \in Bin, Upsert(s, b)
    PROVE  RowsOK' /\ CellsOK'
<1> DEFINE v == syncing[s].read[b]
<1>1. TypeOK /\ RowsOK /\ CellsOK /\ table \in [Bin -> Row] /\ slip \in [Bin -> Nat]
  BY DEF IInv, TypeOK, Row
<1>2. v \in Row /\ v # NoRow /\ Genuine(v, b)
  BY <1>1, Cells DEF RowsOK, Upsert
<1>3. /\ table' = [table EXCEPT ![b] = v]
      /\ slip' = [slip EXCEPT ![b] = slip[b] + Back(table[b], v)]
      /\ UNCHANGED <<chain, cp, claim, first, passed, dry, reinit>>
  BY DEF Upsert, book
<1>4. syncing' = [syncing EXCEPT ![s] = Rest(syncing[s], b)]
  BY Zenon DEF Upsert
<1> HIDE DEF v
<1>5. ASSUME NEW c \in Bin
      PROVE  /\ table'[c] = IF c = b THEN v ELSE table[c]
             /\ slip'[c] = IF c = b THEN slip[c] + Back(table[c], v) ELSE slip[c]
  BY <1>1, <1>3
<1>6. CellsOK'
  <2> SUFFICES ASSUME NEW p \in Position, NEW c \in Bin
               PROVE  Cell(first[p][c], cp[p][c], table'[c], claim[p][c] + passed[p][c], slip'[c])
    BY <1>3, Zenon DEF CellsOK
  <2>1. /\ first[p][c] \in Cp /\ cp[p][c] \in Cp /\ table[c] \in Row
        /\ claim[p][c] + passed[p][c] \in Nat /\ slip[c] \in Nat
    BY <1>1, Cells, SMT
  <2>2. Cell(first[p][c], cp[p][c], table[c], claim[p][c] + passed[p][c], slip[c])
    BY <1>1, Zenon DEF CellsOK
  <2>3. CASE c = b
    <3>1. Cell(first[p][c], cp[p][c], v, claim[p][c] + passed[p][c],
               slip[c] + Back(table[c], v))
      BY <1>2, <2>1, <2>2, CellUpsert
    <3> QED BY <1>5, <2>3, <3>1, Zenon
  <2>4. CASE c # b
    BY <1>5, <2>2, <2>4, Zenon
  <2> QED BY <2>3, <2>4
<1>7. \A c \in Bin : Genuine(chain[c], c)' /\ Genuine(table[c], c)'
  BY <1>1, <1>2, <1>3, <1>5, Zenon DEF RowsOK, Genuine
<1>8. ASSUME NEW q \in Syncer, NEW c \in syncing'[q].left
      PROVE  syncing'[q].read[c] # NoRow /\ Genuine(syncing'[q].read[c], c)
  <2>1. syncing \in [Syncer -> [left : SUBSET Bin, read : [Bin -> Acc \cup {NoRow}]]]
    BY <1>1 DEF TypeOK
  <2>2. c \in syncing[q].left /\ syncing'[q].read[c] = syncing[q].read[c]
    <3>1. CASE q # s
      BY <1>4, <2>1, <3>1
    <3>2. CASE q = s
      <4>1. syncing'[q] = Rest(syncing[s], b)
        BY <1>4, <2>1, <3>2
      <4>2. c \in syncing[s].left \ {b}
        BY <4>1 DEF Rest
      <4>3. syncing'[q].read = [syncing[s].read EXCEPT ![b] = NoRow]
        BY <4>1 DEF Rest
      <4>4. c \in Bin /\ syncing[s].read \in [Bin -> Acc \cup {NoRow}]
        BY <2>1, <4>2
      <4> QED BY <3>2, <4>2, <4>3, <4>4
    <3> QED BY <3>1, <3>2
  <2> QED BY <1>1, <2>2, Zenon DEF RowsOK
<1> QED BY <1>3, <1>6, <1>7, <1>8, Zenon DEF RowsOK, Genuine

(* A mark, bin by bin. *)
LEMMA MarkCell ==
    ASSUME IInv, Mark, NEW p \in Position, NEW b \in Bin
    PROVE  /\ Cell(first'[p][b], cp'[p][b], table[b], claim'[p][b] + passed'[p][b], slip[b])
           /\ passed'[p][b] # 0 => p \in empty \/ b \in dry
           /\ ~reinit => first'[p][b].fee = first'[p][b].life /\ cp'[p][b].fee = cp'[p][b].life
<1> DEFINE f == first[p][b]  c == cp[p][b]  w == table[b]
           d == Delta(w, c, p \in empty)  g == Gain(w, c)
           n == claim[p][b]  m == passed[p][b]
<1>1. f \in Cp /\ c \in Cp /\ w \in Row /\ n \in Nat /\ m \in Nat /\ slip[b] \in Nat
  BY Cells DEF IInv
<1>2. Cell(f, c, w, n + m, slip[b]) /\ Genuine(w, b)
  BY Zenon DEF IInv, CellsOK, RowsOK
<1>3. /\ m # 0 => p \in empty \/ b \in dry
      /\ ~reinit => f.fee = f.life /\ c.fee = c.life
  BY Zenon DEF IInv, PassedOK, PlainOK
<1>4. /\ claim'[p][b] = IF p \in Open THEN n + d ELSE n
      /\ passed'[p][b] = IF p \in Open THEN m + g - d ELSE m
      /\ cp'[p][b] = IF p \in Open THEN Checkpoint(w, c) ELSE c
      /\ first'[p][b] = IF p \in Open /\ c = NoCp THEN Stored(w) ELSE f
  BY DEF Mark
<1>5. g \in Nat /\ (w = NoRow => g = 0)
  BY <1>1, GainIs
<1>6. d = IF w.liq /\ p \notin empty THEN g ELSE 0
  BY DEF Delta
<1> HIDE DEF f, c, w, d, g, n, m
<1>7. CASE p \notin Open
  <2>1. claim'[p][b] = n /\ passed'[p][b] = m /\ cp'[p][b] = c /\ first'[p][b] = f
    BY <1>4, <1>7, Zenon
  <2> QED BY <1>2, <1>3, <2>1, Zenon DEF w
<1>8. CASE p \in Open
  <2>1. /\ claim'[p][b] = n + d /\ passed'[p][b] = m + g - d
        /\ cp'[p][b] = Checkpoint(w, c)
        /\ first'[p][b] = IF c = NoCp THEN Stored(w) ELSE f
    BY <1>4, <1>8, Zenon
  <2>2. d \in Nat /\ claim'[p][b] + passed'[p][b] = (n + m) + g
    BY <1>1, <1>5, <1>6, <2>1, SMT
  <2>3. Cell(first'[p][b], cp'[p][b], w, (n + m) + g, slip[b])
    <3>1. n + m \in Nat /\ w.fee <= w.life
      BY <1>1, <1>2, SMT DEF Genuine
    <3>2. Cell(IF c = NoCp THEN Stored(w) ELSE f, Checkpoint(w, c), w,
               (n + m) + Gain(w, c), slip[b])
      BY <1>1, <1>2, <3>1, CellMark
    <3> QED BY <2>1, <3>2, Zenon DEF g
  <2>4. ASSUME passed'[p][b] # 0 PROVE p \in empty \/ b \in dry
    <3>1. CASE m # 0
      BY <1>3, <3>1
    <3>2. CASE m = 0
      <4>1. g - d # 0
        BY <1>5, <1>6, <2>1, <2>4, <3>2, SMT
      <4>2. g # 0 /\ (~w.liq \/ p \in empty)
        BY <1>5, <1>6, <4>1, SMT
      <4>3. w # NoRow
        BY <1>5, <4>2
      <4> QED BY <1>2, <4>2, <4>3, Zenon DEF Genuine
    <3> QED BY <3>1, <3>2
  <2>5. ASSUME ~reinit
        PROVE  first'[p][b].fee = first'[p][b].life /\ cp'[p][b].fee = cp'[p][b].life
    <3>1. w.fee = w.life /\ Stored(w).fee = Stored(w).life
      BY <1>1, <1>2, <2>5, StoredIs, Zenon DEF Genuine
    <3> QED BY <1>3, <2>1, <2>5, <3>1, Zenon DEF Checkpoint
  <2> QED BY <2>2, <2>3, <2>4, <2>5, Zenon DEF w
<1> QED BY <1>7, <1>8

LEMMA IInvStep == IInv /\ [Next]_vars => IInv'
<1> SUFFICES ASSUME IInv, [Next]_vars PROVE IInv'
  OBVIOUS
<1>0. TypeOK /\ TypeOK' /\ RowsOK /\ CellsOK /\ PassedOK /\ PlainOK
  BY TypeOKStep, Zenon DEF IInv
<1>1. ASSUME NEW b \in Bin, Earn(b) \/ Drain(b) \/ Refill(b) \/ Reinit(b) PROVE IInv'
  <2>1. /\ \A c \in Bin : Genuine(chain[c], c)'
        /\ (reinit => reinit') /\ dry \subseteq dry'
        /\ UNCHANGED <<table, syncing, status, cp, claim, empty, first, passed, slip>>
    BY <1>1, ChainMoves, Zenon
  <2>2. \A c \in Bin : Genuine(table[c], c)'
    <3> SUFFICES ASSUME NEW c \in Bin PROVE Genuine(table[c], c)'
      OBVIOUS
    <3>1. table[c] \in Row /\ Genuine(table[c], c) /\ table'[c] = table[c]
      BY <1>0, <2>1, Cells, Zenon DEF RowsOK
    <3> QED BY <1>0, <2>1, <3>1, GenuineKept, Zenon DEF Genuine
  <2>3. ASSUME NEW s \in Syncer, NEW c \in syncing'[s].left
        PROVE  syncing'[s].read[c] # NoRow /\ Genuine(syncing[s].read[c], c)'
    <3>1. c \in Bin /\ c \in syncing[s].left /\ syncing' = syncing
      BY <1>0, <2>1, <2>3, Cells
    <3>2. syncing[s].read[c] \in Row /\ syncing[s].read[c] # NoRow /\ Genuine(syncing[s].read[c], c)
      BY <1>0, <3>1, Cells, Zenon DEF RowsOK
    <3> QED BY <1>0, <2>1, <3>1, <3>2, GenuineKept, Zenon DEF Genuine
  <2>4. RowsOK'
    BY <2>1, <2>2, <2>3, Zenon DEF RowsOK
  <2>5. CellsOK' /\ PassedOK' /\ PlainOK'
    BY <1>0, <2>1, Zenon DEF CellsOK, PassedOK, PlainOK
  <2> QED BY <1>0, <2>4, <2>5 DEF IInv
<1>2. ASSUME UNCHANGED <<chain, table, cp, claim, first, passed, slip, dry, reinit>>,
             RowsOK', empty \subseteq empty'
      PROVE  IInv'
  BY <1>0, <1>2, Zenon DEF IInv, CellsOK, PassedOK, PlainOK
<1>3. ASSUME NEW p \in Position, OpenPosition(p) \/ ClosePosition(p) PROVE IInv'
  <2>1. /\ UNCHANGED <<chain, table, syncing, cp, claim, first, passed, slip, dry, reinit>>
        /\ empty \subseteq empty'
    BY <1>3 DEF OpenPosition, ClosePosition, past
  <2>2. RowsOK'
    BY <1>0, <2>1, Zenon DEF RowsOK, Genuine
  <2> QED BY <1>2, <2>1, <2>2
<1>4. ASSUME NEW s \in Syncer, Fetch(s) \/ SyncFails(s) PROVE IInv'
  <2>1. UNCHANGED <<chain, table, cp, claim, empty, first, passed, slip, dry, reinit>>
    BY <1>4 DEF Fetch, SyncFails, past, book
  <2>2. ASSUME NEW q \in Syncer, NEW c \in syncing'[q].left
        PROVE  syncing'[q].read[c] # NoRow /\ Genuine(syncing'[q].read[c], c)
    <3>1. \/ syncing'[q] = syncing[q]
          \/ syncing'[q] = [left |-> Bin, read |-> chain]
          \/ syncing'[q] = NoSync
      BY <1>0, <1>4 DEF Fetch, SyncFails, TypeOK
    <3>2. CASE syncing'[q] = syncing[q]
      BY <1>0, <2>2, <3>2, Zenon DEF RowsOK
    <3>3. CASE syncing'[q] = [left |-> Bin, read |-> chain]
      <4>1. c \in Bin /\ syncing'[q].read[c] = chain[c]
        BY <2>2, <3>3
      <4> QED BY <1>0, <4>1, Cells, Zenon DEF RowsOK
    <3>4. CASE syncing'[q] = NoSync
      BY <2>2, <3>4 DEF NoSync
    <3> QED BY <3>1, <3>2, <3>3, <3>4
  <2>3. RowsOK'
    BY <1>0, <2>1, <2>2, Zenon DEF RowsOK, Genuine
  <2> QED BY <1>2, <2>1, <2>3
<1>5. ASSUME NEW s \in Syncer, NEW b \in Bin, Upsert(s, b) PROVE IInv'
  <2>1. RowsOK' /\ CellsOK'
    BY <1>5, UpsertKeeps
  <2>2. UNCHANGED <<cp, empty, first, passed, dry, reinit>>
    BY <1>5 DEF Upsert, book
  <2>3. PassedOK' /\ PlainOK'
    BY <1>0, <2>2, Zenon DEF PassedOK, PlainOK
  <2> QED BY <1>0, <2>1, <2>3 DEF IInv
<1>6. CASE Mark
  <2>1. UNCHANGED <<chain, table, syncing, empty, slip, dry, reinit>>
    BY <1>6 DEF Mark, past
  <2>2. CellsOK' /\ PassedOK' /\ PlainOK'
    BY <1>6, <2>1, MarkCell, Zenon DEF CellsOK, PassedOK, PlainOK
  <2>3. RowsOK'
    BY <1>0, <2>1, Zenon DEF RowsOK, Genuine
  <2> QED BY <1>0, <2>2, <2>3 DEF IInv
<1>7. CASE UNCHANGED vars
  <2>1. UNCHANGED <<chain, table, syncing, cp, claim, empty, first, passed, slip, dry, reinit>>
    BY <1>7 DEF vars, book, past
  <2>2. RowsOK'
    BY <1>0, <2>1, Zenon DEF RowsOK, Genuine
  <2> QED BY <1>2, <2>1, <2>2
<1> QED BY <1>1, <1>3, <1>4, <1>5, <1>6, <1>7 DEF Next

-----------------------------------------------------------------------------
LEMMA Inductive == Spec => []IInv
BY InitIInv, IInvStep, PTL DEF Spec

(***************************************************************************)
(* The rows, the checkpoints and the claims stay well typed: the schema of *)
(* bin_fees and paper_fee_checkpoints, however many syncs overlap.         *)
(***************************************************************************)
THEOREM TypeCorrect == Spec => []TypeOK
<1>1. Init => TypeOK
  BY InitIInv DEF IInv
<1> QED BY <1>1, TypeOKStep, PTL DEF Spec

(***************************************************************************)
(* No fee is credited twice by claim_accrual and save_fee_checkpoints,     *)
(* with any number of accounts re-initialised and syncs cut short, but for *)
(* what the later writer of overlapping syncs put a row back.              *)
(***************************************************************************)
THEOREM NoFeeTwice == Spec => []CreditedOnce
<1>1. ASSUME IInv PROVE CreditedOnce
  <2> SUFFICES ASSUME NEW p \in Position, NEW b \in Bin
               PROVE  claim[p][b] <= cp[p][b].life - first[p][b].life + slip[b]
    BY DEF CreditedOnce
  <2>1. /\ claim[p][b] \in Nat /\ passed[p][b] \in Nat /\ slip[b] \in Nat
        /\ cp[p][b] \in Cp /\ first[p][b] \in Cp
    BY <1>1, Cells DEF IInv
  <2>2. cp[p][b].life \in Int /\ first[p][b].life \in Int
    BY <2>1, CpIs
  <2>3. claim[p][b] + passed[p][b] <= cp[p][b].life - first[p][b].life + slip[b]
    BY <1>1, Zenon DEF IInv, CellsOK, Cell
  <2> QED BY <2>1, <2>2, <2>3, SMT
<1> QED BY Inductive, <1>1, PTL

(***************************************************************************)
(* Nothing drops out between two marks: as long as no account has been     *)
(* re-initialised, what claim_accrual credited and passed over is all that *)
(* lies between the first checkpoint and the last, and it passes over      *)
(* nothing but in an empty position or a bin that was without liquidity.   *)
(***************************************************************************)
THEOREM NoFeeLost == Spec => []Telescopes
<1>1. ASSUME IInv PROVE Telescopes
  <2> SUFFICES ASSUME ~reinit, NEW p \in Position, NEW b \in Bin
               PROVE  /\ cp[p][b].fee - first[p][b].fee <= claim[p][b] + passed[p][b]
                      /\ claim[p][b] + passed[p][b] <= cp[p][b].fee - first[p][b].fee + slip[b]
                      /\ passed[p][b] # 0 => p \in empty \/ b \in dry
    BY DEF Telescopes
  <2>1. /\ cp[p][b].fee - first[p][b].fee <= claim[p][b] + passed[p][b]
        /\ claim[p][b] + passed[p][b] <= cp[p][b].life - first[p][b].life + slip[b]
    BY <1>1, Zenon DEF IInv, CellsOK, Cell
  <2>2. first[p][b].fee = first[p][b].life /\ cp[p][b].fee = cp[p][b].life
    BY <1>1, Zenon DEF IInv, PlainOK
  <2>3. passed[p][b] # 0 => p \in empty \/ b \in dry
    BY <1>1, Zenon DEF IInv, PassedOK
  <2> QED BY <2>1, <2>2, <2>3, Zenon
<1> QED BY Inductive, <1>1, PTL

-----------------------------------------------------------------------------
(* The price series.  Hours are numbered by date_trunc.                    *)

LEMMA HourIs ==
    ASSUME NEW a \in Nat
    PROVE  HourOf(a) \in Nat /\ Hour * HourOf(a) <= a /\ a < Hour * HourOf(a) + Hour
<1> DEFINE q == a \div Hour  m == Hour * q
<1>1. Hour \in Nat /\ Hour > 0
  BY RetentionAssumption
<1>2. q \in Int /\ m <= a /\ a < m + Hour
  BY <1>1, SMT
<1>3. q >= 0
  <2>1. q \in Int
    BY <1>2
  <2>2. q < 0 => m <= -Hour
    <3> HIDE DEF q
    <3> QED BY <1>1, <2>1, SMT
  <2> QED BY <1>1, <1>2, <2>1, <2>2, SMT
<1> QED BY <1>2, <1>3 DEF HourOf

(* A later row is in no earlier hour, and a full hour later it is in a     *)
(* later one: what lies a week back belongs to an hour that is over.       *)
LEMMA HoursFollow ==
    ASSUME NEW a \in Nat, NEW b \in Nat
    PROVE  /\ a <= b => HourOf(a) <= HourOf(b)
           /\ a + Hour <= b => HourOf(a) < HourOf(b)
<1> DEFINE p == HourOf(a)  q == HourOf(b)
<1>1. Hour \in Nat /\ Hour > 0
  BY RetentionAssumption
<1>2. p \in Nat /\ Hour * p <= a /\ a < Hour * p + Hour
  BY HourIs
<1>3. q \in Nat /\ Hour * q <= b /\ b < Hour * q + Hour
  BY HourIs
<1> HIDE DEF p, q
<1>4. q < p => Hour * q + Hour <= Hour * p
  <2>1. q < p => p - q - 1 \in Nat
    BY <1>2, <1>3, SMT
  <2>2. p - q - 1 \in Nat => Hour * (p - q - 1) >= 0
    BY <1>1, SMT
  <2>3. Hour * (p - q - 1) = Hour * p - Hour * q - Hour
    BY <1>1, <1>2, <1>3, SMT
  <2> QED BY <1>1, <1>2, <1>3, <2>1, <2>2, <2>3, SMT
<1>5. q = p => Hour * q = Hour * p
  OBVIOUS
<1>6. Hour * p \in Int /\ Hour * q \in Int
  BY <1>1, <1>2, <1>3, SMT
<1>7. a <= b => p <= q
  BY <1>1, <1>2, <1>3, <1>4, <1>6, SMT
<1>8. a + Hour <= b => p < q
  BY <1>1, <1>2, <1>3, <1>4, <1>5, <1>6, SMT
<1> QED BY <1>7, <1>8 DEF p, q

-----------------------------------------------------------------------------
(* The candle of a set of rows.                                            *)

PriceRow == [ts : Nat, price : Prices]

Candle == [open : Prices, high : Prices, low : Prices, close : Prices, n_obs : Nat \ {0}]

(* A function on a finite set is least somewhere.                          *)
LEMMA Least ==
    ASSUME NEW M, IsFiniteSet(M), M # {}, NEW f, \A m \in M : f[m] \in Int
    PROVE  \E n \in M : \A k \in M : f[n] <= f[k]
<1> DEFINE Less(k) == {j \in M : f[j] < f[k]}
           C == {Less(k) : k \in M}
<1>1. C \in SUBSET (SUBSET M) /\ C # {}
  OBVIOUS
<1>2. PICK T \in C : \A U \in C : U \subseteq T => U = T
  <2> HIDE DEF C
  <2> QED BY <1>1, Smallest
<1>3. PICK n \in M : T = Less(n)
  BY <1>2
<1>4. ASSUME NEW k \in M, f[k] < f[n] PROVE FALSE
  <2>1. Less(k) \subseteq Less(n)
    BY <1>4
  <2>2. Less(k) = Less(n)
    BY <1>2, <1>3, <2>1
  <2>3. k \in Less(n) /\ k \notin Less(k)
    BY <1>4
  <2> QED BY <2>2, <2>3
<1> QED BY <1>4

(* Open and close are the prices of an oldest and of a newest row.         *)
LEMMA FirstLast ==
    ASSUME NEW rows \in SUBSET PriceRow, IsFiniteSet(rows), rows # {}
    PROVE  /\ First(rows) \in rows
           /\ Last(rows) \in rows /\ \A s \in rows : s.ts <= Last(rows).ts
<1>1. \A r \in rows : r.ts \in Nat
  BY DEF PriceRow
<1>2. \E r \in rows : \A s \in rows : r.ts <= s.ts
  <2> DEFINE f == [r \in rows |-> r.ts]
  <2>1. \A r \in rows : f[r] = r.ts /\ f[r] \in Int
    BY <1>1
  <2> HIDE DEF f
  <2>2. PICK n \in rows : \A k \in rows : f[n] <= f[k]
    BY <2>1, Least
  <2> QED BY <2>1, <2>2
<1>3. \E r \in rows : \A s \in rows : s.ts <= r.ts
  <2> DEFINE f == [r \in rows |-> 0 - r.ts]
  <2>1. \A r \in rows : f[r] = 0 - r.ts /\ f[r] \in Int
    BY <1>1
  <2> HIDE DEF f
  <2>2. PICK n \in rows : \A k \in rows : f[n] <= f[k]
    BY <2>1, Least
  <2> QED BY <1>1, <2>1, <2>2
<1>4. First(rows) \in rows
  BY <1>2, Zenon DEF First
<1>5. Last(rows) \in rows /\ \A s \in rows : s.ts <= Last(rows).ts
  BY <1>3, Zenon DEF Last
<1> QED BY <1>4, <1>5

(* High and low are prices of rows, and no row lies outside.               *)
LEMMA HighLow ==
    ASSUME NEW rows \in SUBSET PriceRow, IsFiniteSet(rows), rows # {}
    PROVE  /\ \E r \in rows : r.price = High(rows)
           /\ \A r \in rows : r.price <= High(rows)
           /\ \E r \in rows : r.price = Low(rows)
           /\ \A r \in rows : Low(rows) <= r.price
<1> DEFINE P == {r.price : r \in rows}
<1>1. \A r \in rows : r.price \in Nat
  BY RetentionAssumption DEF PriceRow
<1>2. \E x \in P : \A r \in rows : x <= r.price
  <2> DEFINE f == [r \in rows |-> r.price]
  <2>1. \A r \in rows : f[r] = r.price /\ f[r] \in Int
    BY <1>1
  <2> HIDE DEF f
  <2>2. PICK n \in rows : \A k \in rows : f[n] <= f[k]
    BY <2>1, Least
  <2> QED BY <2>1, <2>2
<1>3. \E x \in P : \A r \in rows : r.price <= x
  <2> DEFINE f == [r \in rows |-> 0 - r.price]
  <2>1. \A r \in rows : f[r] = 0 - r.price /\ f[r] \in Int
    BY <1>1
  <2> HIDE DEF f
  <2>2. PICK n \in rows : \A k \in rows : f[n] <= f[k]
    BY <2>1, Least
  <2>3. n.price \in P /\ \A r \in rows : r.price <= n.price
    BY <1>1, <2>1, <2>2
  <2> QED BY <2>3
<1>4. Low(rows) \in P /\ \A r \in rows : Low(rows) <= r.price
  BY <1>2, Zenon DEF Low
<1>5. High(rows) \in P /\ \A r \in rows : r.price <= High(rows)
  BY <1>3, Zenon DEF High
<1> QED BY <1>4, <1>5

LEMMA CandleIs ==
    ASSUME NEW rows \in SUBSET PriceRow, IsFiniteSet(rows), rows # {}
    PROVE  CandleOf(rows) \in Candle
<1>1. Cardinality(rows) \in Nat \ {0}
  BY FS_CardinalityType, FS_EmptySet
<1>2. \A r \in rows : r.price \in Prices
  BY DEF PriceRow
<1>3. First(rows).price \in Prices /\ Last(rows).price \in Prices
  BY <1>2, FirstLast
<1>4. High(rows) \in Prices /\ Low(rows) \in Prices
  BY <1>2, HighLow
<1> QED BY <1>1, <1>3, <1>4 DEF CandleOf, Candle

-----------------------------------------------------------------------------
(* What holds in every state of the series.                                *)

(* No row is newer than this, and the next one will not be older.          *)
Edge == IF polling THEN stamp ELSE now

(* A poll brings one row per time.                                         *)
Dated(rows) == \A r \in rows, s \in rows : r.ts = s.ts => r = s

(* What the deletion of old rows leaves.                                   *)
NewestOf(part, rows) ==
    part \subseteq rows /\ \A r \in part, s \in rows : r.ts <= s.ts => s \in part

SeriesType ==
    /\ now \in 0..MaxNow /\ polling \in BOOLEAN /\ stamp \in 0..now
    /\ ever \subseteq PriceRow /\ IsFiniteSet(ever)
    /\ candle \in [Hours -> Candle \cup {NoCandle}]

EdgeOK ==
    /\ \A r \in ever : r.ts <= Edge
    /\ \A r \in ever \ raw : r.ts < Edge
    /\ \A h \in Hours : candle[h] # NoCandle => h < HourOf(Edge)

SeriesInv == SeriesType /\ Dated(ever) /\ NewestOf(raw, ever) /\ EdgeOK /\ SeriesPreserved

(* What SeriesPreserved says of one candle.                                *)
Shows(c, rows) ==
    /\ [c EXCEPT !.n_obs = 0] = [CandleOf(rows) EXCEPT !.n_obs = 0]
    /\ c.n_obs \in 1..CandleOf(rows).n_obs

(* The part of a series that lies in an hour.                              *)
LEMMA InHour ==
    ASSUME NEW rows \in SUBSET PriceRow, NEW h, IsFiniteSet(rows)
    PROVE  /\ In(rows, h) \in SUBSET PriceRow /\ IsFiniteSet(In(rows, h))
           /\ Dated(rows) => Dated(In(rows, h))
           /\ \A part : NewestOf(part, rows) => NewestOf(In(part, h), In(rows, h))
<1>1. In(rows, h) \subseteq rows
  BY DEF In
<1>2. IsFiniteSet(In(rows, h))
  BY <1>1, FS_Subset
<1>3. Dated(rows) => Dated(In(rows, h))
  BY <1>1 DEF Dated
<1>4. ASSUME NEW part, NewestOf(part, rows) PROVE NewestOf(In(part, h), In(rows, h))
  BY <1>4 DEF NewestOf, In
<1> QED BY <1>1, <1>2, <1>3, <1>4

LEMMA ShowsIs ==
    ASSUME NEW c \in Candle, NEW rows \in SUBSET PriceRow, IsFiniteSet(rows), rows # {}
    PROVE  Shows(c, rows) <=> /\ c.open = First(rows).price /\ c.close = Last(rows).price
                              /\ c.high = High(rows) /\ c.low = Low(rows)
                              /\ c.n_obs \in 1..Cardinality(rows)
<1> DEFINE d == CandleOf(rows)
<1>1. d \in Candle
  BY CandleIs
<1>2. /\ d.open = First(rows).price /\ d.close = Last(rows).price
      /\ d.high = High(rows) /\ d.low = Low(rows) /\ d.n_obs = Cardinality(rows)
  BY DEF CandleOf
<1> HIDE DEF d
<1>3. ASSUME NEW x \in Candle
      PROVE  [x EXCEPT !.n_obs = 0] = [open |-> x.open, high |-> x.high, low |-> x.low,
                                       close |-> x.close, n_obs |-> 0]
  BY <1>3 DEF Candle
<1>4. [c EXCEPT !.n_obs = 0] = [d EXCEPT !.n_obs = 0] <=>
        c.open = d.open /\ c.high = d.high /\ c.low = d.low /\ c.close = d.close
  BY <1>1, <1>3
<1> QED BY <1>2, <1>4 DEF Shows, d

(* The hour a row of the series belongs to.                                *)
LEMMA HoursOfRows ==
    ASSUME SeriesType, NEW r \in PriceRow, r.ts <= now
    PROVE  HourOf(r.ts) \in Hours /\ HourOf(now) \in Hours
<1>1. now \in Nat /\ MaxNow \in Nat /\ now <= MaxNow /\ r.ts \in Nat
  BY RetentionAssumption DEF SeriesType, PriceRow
<1>2. /\ HourOf(r.ts) \in Nat /\ HourOf(now) \in Nat /\ HourOf(MaxNow) \in Nat
      /\ HourOf(r.ts) <= HourOf(MaxNow) /\ HourOf(now) <= HourOf(MaxNow)
  BY <1>1, HourIs, HoursFollow
<1> QED BY <1>2 DEF Hours

(* A roll-up that still sees the newest rows of an hour makes nothing of   *)
(* its candle but n_obs different: the rest has been folded before.        *)
LEMMA MergeKeeps ==
    ASSUME NEW c \in Candle, NEW rows \in SUBSET PriceRow, IsFiniteSet(rows), Dated(rows),
           NEW part, NewestOf(part, rows), part # {}, Shows(c, rows)
    PROVE  Merged(c, CandleOf(part)) \in Candle /\ Shows(Merged(c, CandleOf(part)), rows)
<1> DEFINE d == CandleOf(part)  m == Merged(c, d)
<1>1. /\ part \subseteq rows /\ rows # {} /\ part \in SUBSET PriceRow /\ IsFiniteSet(part)
      /\ Cardinality(part) <= Cardinality(rows)
      /\ Cardinality(part) \in Nat \ {0} /\ Cardinality(rows) \in Nat
  BY FS_Subset, FS_CardinalityType, FS_EmptySet DEF NewestOf
<1>2. /\ c.open = First(rows).price /\ c.close = Last(rows).price
      /\ c.high = High(rows) /\ c.low = Low(rows)
  BY <1>1, ShowsIs
<1>3. /\ d \in Candle
      /\ d.close = Last(part).price /\ d.high = High(part) /\ d.low = Low(part)
      /\ d.n_obs = Cardinality(part)
  BY <1>1, CandleIs DEF CandleOf
<1>4. Last(part) = Last(rows)
  <2>1. Last(part) \in part /\ \A s \in part : s.ts <= Last(part).ts
    BY <1>1, FirstLast
  <2>2. Last(rows) \in rows /\ \A s \in rows : s.ts <= Last(rows).ts
    BY <1>1, FirstLast
  <2>3. Last(rows) \in part
    BY <2>1, <2>2, <1>1 DEF NewestOf
  <2>4. Last(part).ts \in Nat /\ Last(rows).ts \in Nat
    BY <1>1, <2>1, <2>2 DEF PriceRow
  <2>5. Last(part).ts = Last(rows).ts
    BY <1>1, <2>1, <2>2, <2>3, <2>4
  <2> QED BY <1>1, <2>1, <2>2, <2>5 DEF Dated
<1>5. d.high <= c.high /\ c.low <= d.low
  <2>1. PICK r \in part : r.price = High(part)
    BY <1>1, HighLow
  <2>2. PICK s \in part : s.price = Low(part)
    BY <1>1, HighLow
  <2>3. r.price <= High(rows) /\ Low(rows) <= s.price
    BY <1>1, <2>1, <2>2, HighLow
  <2> QED BY <1>2, <1>3, <2>1, <2>2, <2>3
<1>6. c.high \in Nat /\ c.low \in Nat /\ d.high \in Nat /\ d.low \in Nat
  BY <1>3, RetentionAssumption DEF Candle
<1> HIDE DEF d
<1>7. ~(d.high > c.high) /\ ~(d.low < c.low)
  BY <1>5, <1>6
<1>8. m = [open |-> c.open, high |-> c.high, low |-> c.low,
           close |-> d.close, n_obs |-> d.n_obs]
  <2>1. m = [c EXCEPT !.high = c.high, !.low = c.low, !.close = d.close, !.n_obs = d.n_obs]
    BY <1>7, Zenon DEF Merged
  <2> QED BY <2>1 DEF Candle
<1> HIDE DEF m
<1>9. m \in Candle
  BY <1>3, <1>8 DEF Candle
<1>10. /\ m.open = First(rows).price /\ m.close = Last(rows).price
       /\ m.high = High(rows) /\ m.low = Low(rows)
       /\ m.n_obs \in 1..Cardinality(rows)
  BY <1>1, <1>2, <1>3, <1>4, <1>8
<1>11. Shows(m, rows)
  BY <1>1, <1>9, <1>10, ShowsIs
<1> QED BY <1>9, <1>11 DEF m, d

-----------------------------------------------------------------------------
LEMMA PreservedIs ==
    SeriesPreserved <=>
        /\ \A h \in Hours : candle[h] # NoCandle => Shows(candle[h], In(ever, h))
        /\ \A r \in ever \ raw : candle[HourOf(r.ts)] # NoCandle
BY Zenon DEF SeriesPreserved, Shows

(* NoCandle is none: a candle counts at least one row.                     *)
LEMMA NotNone == \A c \in Candle : c # NoCandle
<1> SUFFICES ASSUME NEW c \in Candle PROVE c.n_obs # NoCandle.n_obs
  OBVIOUS
<1>1. c.n_obs # 0
  BY DEF Candle
<1> QED BY <1>1 DEF NoCandle

LEMMA SeriesStart == SeriesInit => SeriesInv
<1> SUFFICES ASSUME SeriesInit PROVE SeriesInv
  OBVIOUS
<1>1. 0 \in 0..MaxNow /\ 0 \in 0..0
  BY RetentionAssumption
<1>2. IsFiniteSet({})
  BY FS_EmptySet
<1>3. SeriesType
  BY <1>1, <1>2 DEF SeriesInit, SeriesType
<1>4. Dated(ever) /\ NewestOf(raw, ever) /\ EdgeOK
  BY DEF SeriesInit, Dated, NewestOf, EdgeOK
<1>5. SeriesPreserved
  BY DEF SeriesInit, SeriesPreserved
<1> QED BY <1>3, <1>4, <1>5 DEF SeriesInv

(* No row and no candle changes: the clock and the poll.                   *)
LEMMA RowsStay ==
    ASSUME SeriesInv, UNCHANGED <<raw, candle, ever>>,
           now' \in 0..MaxNow, now <= now', polling' \in BOOLEAN, stamp' \in 0..now',
           Edge <= Edge'
    PROVE  SeriesInv'
<1>1. SeriesType'
  BY DEF SeriesInv, SeriesType
<1>2. Dated(ever)' /\ NewestOf(raw, ever)'
  BY DEF SeriesInv, Dated, NewestOf
<1>3. Edge \in Nat /\ Edge' \in Nat
  BY DEF SeriesInv, SeriesType, Edge
<1>4. EdgeOK'
  <2>1. \A r \in ever : r.ts \in Nat
    BY DEF SeriesInv, SeriesType, PriceRow
  <2>2. (\A r \in ever : r.ts <= Edge') /\ (\A r \in ever \ raw : r.ts < Edge')
    BY <1>3, <2>1 DEF SeriesInv, EdgeOK
  <2>3. HourOf(Edge) <= HourOf(Edge') /\ HourOf(Edge) \in Nat /\ HourOf(Edge') \in Nat
    BY <1>3, HourIs, HoursFollow
  <2>4. \A h \in Hours : h \in Int
    BY DEF Hours
  <2>5. \A h \in Hours : candle[h] # NoCandle => h < HourOf(Edge')
    BY <2>3, <2>4 DEF SeriesInv, EdgeOK
  <2> QED BY <2>2, <2>5 DEF EdgeOK
<1>5. SeriesPreserved'
  <2>1. SeriesPreserved
    BY DEF SeriesInv
  <2> QED BY <2>1, Zenon DEF SeriesPreserved, In
<1> QED BY <1>1, <1>2, <1>4, <1>5 DEF SeriesInv

(* A row goes to the end of the series, into an hour not folded yet.       *)
LEMMA InsertStep ==
    ASSUME SeriesInv, NEW price \in Prices, Insert(price)
    PROVE  SeriesInv'
<1> DEFINE n == [ts |-> stamp, price |-> price]
<1>1. polling /\ polling' = FALSE /\ stamp' = 0 /\ now' = now /\ candle' = candle
  BY DEF Insert
<1>2. Edge = stamp /\ Edge' = now /\ stamp \in Nat /\ now \in Nat /\ stamp <= now
  BY <1>1 DEF Edge, SeriesInv, SeriesType
<1>3. CASE \E r \in raw : r.ts = stamp
  <2>1. raw' = raw /\ ever' = ever
    BY <1>3 DEF Insert
  <2>2. now' \in 0..MaxNow /\ now <= now' /\ stamp' \in 0..now' /\ Edge <= Edge'
    <3>1. now \in 0..MaxNow /\ 0 \in 0..now /\ stamp <= now
      BY <1>2 DEF SeriesInv, SeriesType
    <3> QED BY <1>1, <1>2, <3>1
  <2>3. polling' \in BOOLEAN
    BY <1>1, Zenon
  <2> QED BY <1>1, <2>1, <2>2, <2>3, RowsStay
<1>4. CASE ~ \E r \in raw : r.ts = stamp
  <2>1. raw' = raw \cup {n} /\ ever' = ever \cup {n}
    BY <1>4 DEF Insert
  <2>2. n \in PriceRow /\ n.ts = stamp
    BY <1>2 DEF PriceRow
  <2> HIDE DEF n
  <2>3. /\ \A r \in ever : r \in PriceRow /\ r.ts \in Nat /\ r.ts <= stamp
        /\ \A r \in ever \ raw : r.ts < stamp
        /\ raw \subseteq ever
    BY <1>2 DEF SeriesInv, SeriesType, EdgeOK, NewestOf, PriceRow
  <2>4. \A r \in ever : r.ts # stamp
    BY <1>2, <1>4, <2>3
  <2>5. SeriesType'
    <3>1. IsFiniteSet(ever')
      BY <2>1, FS_AddElement DEF SeriesInv, SeriesType
    <3>2. ever' \subseteq PriceRow /\ now' \in 0..MaxNow /\ stamp' \in 0..now'
      BY <1>1, <1>2, <2>1, <2>2 DEF SeriesInv, SeriesType
    <3>3. polling' \in BOOLEAN /\ candle' \in [Hours -> Candle \cup {NoCandle}]
      BY <1>1, Zenon DEF SeriesInv, SeriesType
    <3> QED BY <3>1, <3>2, <3>3 DEF SeriesType
  <2>6. Dated(ever')
    BY <2>1, <2>2, <2>4 DEF Dated, SeriesInv
  <2>7. NewestOf(raw', ever')
    <3>1. ASSUME NEW r \in raw', NEW s \in ever', r.ts <= s.ts PROVE s \in raw'
      <4>1. CASE s = n
        BY <2>1, <4>1
      <4>2. CASE r = n /\ s # n
        <5>1. s \in ever /\ stamp <= s.ts
          BY <2>1, <2>2, <3>1, <4>2
        <5> QED BY <1>2, <2>3, <2>4, <5>1
      <4>3. CASE r # n /\ s # n
        BY <2>1, <3>1, <4>3 DEF SeriesInv, NewestOf
      <4> QED BY <4>1, <4>2, <4>3
    <3> QED BY <2>1, <2>3, <3>1 DEF NewestOf
  <2>8. ever' \ raw' \subseteq ever \ raw
    BY <2>1
  <2>9. \A h \in Hours : candle[h] # NoCandle => h \in Int /\ h < HourOf(stamp)
    BY <1>2 DEF SeriesInv, EdgeOK, Hours
  <2>10. EdgeOK'
    <3>1. \A r \in ever' : r.ts <= now
      BY <1>2, <2>1, <2>2, <2>3
    <3>2. \A r \in ever' \ raw' : r.ts < now
      BY <1>2, <2>3, <2>8
    <3>3. HourOf(stamp) <= HourOf(now) /\ HourOf(stamp) \in Nat /\ HourOf(now) \in Nat
      BY <1>2, HourIs, HoursFollow
    <3>4. \A h \in Hours : candle'[h] # NoCandle => h < HourOf(now)
      BY <1>1, <2>9, <3>3
    <3> QED BY <1>2, <3>1, <3>2, <3>4 DEF EdgeOK
  <2>11. SeriesPreserved'
    <3>1. ASSUME NEW h \in Hours, candle'[h] # NoCandle
          PROVE  Shows(candle'[h], In(ever', h))
      <4>1. candle[h] # NoCandle /\ h \in Int /\ h < HourOf(stamp) /\ HourOf(stamp) \in Nat
        BY <1>1, <1>2, <2>9, <3>1, HourIs
      <4>2. In(ever', h) = In(ever, h)
        BY <2>1, <2>2, <4>1 DEF In
      <4> QED BY <1>1, <4>1, <4>2, PreservedIs, Zenon DEF SeriesInv
    <3>2. \A r \in ever' \ raw' : candle'[HourOf(r.ts)] # NoCandle
      BY <1>1, <2>8, PreservedIs, Zenon DEF SeriesInv
    <3> QED BY <3>1, <3>2, Zenon DEF SeriesPreserved, Shows
  <2> QED BY <2>5, <2>6, <2>7, <2>10, <2>11, Zenon DEF SeriesInv, Dated, NewestOf
<1> QED BY <1>3, <1>4

(* What a roll-up makes of one hour.  As long as an hour has no candle all *)
(* of its rows are there; afterwards the newest of them, or none.          *)
LEMMA FoldHour ==
    ASSUME SeriesInv, roll_up_prices, NEW h \in Hours
    PROVE  /\ candle'[h] \in Candle \cup {NoCandle}
           /\ candle'[h] # NoCandle => Shows(candle'[h], In(ever, h)) /\ h < HourOf(now)
           /\ candle[h] # NoCandle \/ h \in Foldable => candle'[h] # NoCandle
<1> DEFINE rows == In(ever, h)  part == In(raw, h)
<1>1. Edge = now /\ now \in Nat /\ HourOf(now) \in Nat
  BY HourIs DEF roll_up_prices, Edge, SeriesInv, SeriesType
<1>2. ever \in SUBSET PriceRow /\ IsFiniteSet(ever) /\ candle[h] \in Candle \cup {NoCandle}
  BY DEF SeriesInv, SeriesType
<1>3. candle'[h] = IF h \notin Foldable THEN candle[h]
                   ELSE IF candle[h] = NoCandle THEN CandleOf(part)
                   ELSE Merged(candle[h], CandleOf(part))
  BY Zenon DEF roll_up_prices
<1>4. /\ candle[h] # NoCandle => Shows(candle[h], rows) /\ h < HourOf(now)
      /\ \A r \in ever \ raw : candle[HourOf(r.ts)] # NoCandle
  BY <1>1, PreservedIs DEF SeriesInv, EdgeOK
<1>5. /\ rows \in SUBSET PriceRow /\ IsFiniteSet(rows)
      /\ Dated(rows) /\ NewestOf(part, rows)
  BY <1>2, InHour DEF SeriesInv
<1>6. CASE h \notin Foldable
  BY <1>2, <1>3, <1>4, <1>6
<1>7. CASE h \in Foldable
  <2>1. part # {} /\ h < HourOf(now)
    BY <1>1, <1>7 DEF Foldable, In
  <2>2. candle'[h] \in Candle /\ Shows(candle'[h], rows)
    <3>1. CASE candle[h] = NoCandle
      <4>1. part = rows
        BY <1>4, <1>5, <3>1 DEF In, NewestOf
      <4>2. candle'[h] = CandleOf(rows)
        BY <1>3, <1>7, <3>1, <4>1, Zenon
      <4>3. CandleOf(rows) \in Candle
        BY <1>5, <2>1, <4>1, CandleIs
      <4>4. Cardinality(rows) \in 1..Cardinality(rows)
        BY <1>5, <2>1, <4>1, FS_CardinalityType, FS_EmptySet
      <4>5. Shows(CandleOf(rows), rows)
        BY <1>5, <2>1, <4>1, <4>3, <4>4, ShowsIs DEF CandleOf
      <4> QED BY <4>2, <4>3, <4>5
    <3>2. CASE candle[h] # NoCandle
      <4>1. candle'[h] = Merged(candle[h], CandleOf(part))
        BY <1>3, <1>7, <3>2, Zenon
      <4>2. candle[h] \in Candle /\ Shows(candle[h], rows)
        BY <1>2, <1>4, <3>2
      <4> QED BY <1>5, <2>1, <4>1, <4>2, MergeKeeps
    <3> QED BY <3>1, <3>2
  <2> QED BY <2>1, <2>2, NotNone
<1> QED BY <1>6, <1>7

(* The rows a roll-up drops belong to hours it has folded.                 *)
LEMMA RollUpStep ==
    ASSUME SeriesInv, roll_up_prices
    PROVE  SeriesInv'
<1>1. /\ now' = now /\ polling' = polling /\ stamp' = stamp /\ ever' = ever
      /\ raw' = {r \in raw : r.ts >= now - Keep} /\ DOMAIN candle' = Hours
  BY DEF roll_up_prices
<1>2. /\ Edge = now /\ Edge' = now /\ now \in Nat
      /\ Hour \in Nat /\ Hour > 0 /\ Keep \in Nat /\ Keep >= Hour
  BY <1>1, RetentionAssumption DEF roll_up_prices, Edge, SeriesInv, SeriesType
<1>3. /\ raw \subseteq ever
      /\ \A r \in ever : r \in PriceRow /\ r.ts \in Nat /\ r.ts <= now
      /\ \A r \in ever \ raw : r.ts < now
  BY <1>2 DEF SeriesInv, SeriesType, EdgeOK, NewestOf, PriceRow
<1>4. \A h \in Hours :
        /\ candle'[h] \in Candle \cup {NoCandle}
        /\ candle'[h] # NoCandle => Shows(candle'[h], In(ever, h)) /\ h < HourOf(now)
        /\ candle[h] # NoCandle \/ h \in Foldable => candle'[h] # NoCandle
  BY FoldHour
<1>5. ASSUME NEW r \in raw, r \notin raw'
      PROVE  r.ts < now /\ HourOf(r.ts) \in Foldable
  <2>1. r \in ever /\ r.ts \in Nat /\ r.ts < now - Keep
    BY <1>1, <1>2, <1>3, <1>5
  <2>2. r.ts < now /\ r.ts + Hour <= now
    BY <1>2, <2>1
  <2>3. HourOf(r.ts) < HourOf(now) /\ HourOf(r.ts) \in Nat /\ HourOf(now) \in Nat
    BY <1>2, <2>1, <2>2, HourIs, HoursFollow
  <2>4. HourOf(r.ts) \in 0..(HourOf(now) - 1)
    BY <2>3
  <2> QED BY <1>5, <2>2, <2>4 DEF Foldable
<1>6. SeriesType'
  <2>1. candle' = [h \in Hours |-> candle'[h]]
    BY Zenon DEF roll_up_prices
  <2>2. candle' \in [Hours -> Candle \cup {NoCandle}]
    BY <1>4, <2>1, Zenon
  <2> QED BY <1>1, <2>2, Zenon DEF SeriesInv, SeriesType
<1>7. Dated(ever)'
  BY <1>1 DEF SeriesInv, Dated
<1>8. NewestOf(raw, ever)'
  <2>1. ASSUME NEW r \in raw', NEW s \in ever, r.ts <= s.ts PROVE s \in raw'
    <3>1. r \in raw /\ r.ts >= now - Keep
      BY <1>1, <2>1
    <3>2. s \in raw
      BY <2>1, <3>1 DEF SeriesInv, NewestOf
    <3>3. s.ts >= now - Keep
      BY <1>2, <1>3, <2>1, <3>1
    <3> QED BY <1>1, <3>2, <3>3
  <2> QED BY <1>1, <1>3, <2>1 DEF NewestOf
<1>9. EdgeOK'
  BY <1>1, <1>2, <1>3, <1>4, <1>5 DEF EdgeOK
<1>10. SeriesPreserved'
  <2>1. ASSUME NEW r \in ever \ raw' PROVE candle'[HourOf(r.ts)] # NoCandle
    <3>1. HourOf(r.ts) \in Hours
      BY <1>3, HoursOfRows DEF SeriesInv
    <3>2. CASE r \in raw
      BY <1>4, <1>5, <3>1, <3>2
    <3>3. CASE r \notin raw
      <4>1. candle[HourOf(r.ts)] # NoCandle
        BY <3>3, PreservedIs DEF SeriesInv
      <4> QED BY <1>4, <3>1, <4>1
    <3> QED BY <3>2, <3>3
  <2>2. \A h \in Hours : candle'[h] # NoCandle => Shows(candle'[h], In(ever', h))
    BY <1>1, <1>4
  <2> QED BY <1>1, <2>1, <2>2, Zenon DEF SeriesPreserved, Shows
<1> QED BY <1>6, <1>7, <1>8, <1>9, <1>10 DEF SeriesInv

LEMMA SeriesStep == SeriesInv /\ [SeriesNext]_series => SeriesInv'
<1> SUFFICES ASSUME SeriesInv, [SeriesNext]_series PROVE SeriesInv'
  OBVIOUS
<1>1. /\ now \in 0..MaxNow /\ now \in Nat /\ MaxNow \in Nat /\ stamp \in 0..now
      /\ polling \in BOOLEAN /\ stamp <= now
  BY RetentionAssumption DEF SeriesInv, SeriesType
<1>2. CASE Tick
  <2>1. /\ now' \in 0..MaxNow /\ now <= now' /\ stamp' \in 0..now' /\ Edge <= Edge'
    BY <1>1, <1>2 DEF Tick, Edge
  <2>2. polling' \in BOOLEAN /\ UNCHANGED <<raw, candle, ever>>
    BY <1>1, <1>2, Zenon DEF Tick
  <2> QED BY <2>1, <2>2, RowsStay
<1>3. CASE StartPoll
  <2>1. /\ now' \in 0..MaxNow /\ now <= now' /\ stamp' \in 0..now' /\ Edge <= Edge'
    BY <1>1, <1>3 DEF StartPoll, Edge
  <2>2. polling' \in BOOLEAN /\ UNCHANGED <<raw, candle, ever>>
    BY <1>3, Zenon DEF StartPoll
  <2> QED BY <2>1, <2>2, RowsStay
<1>4. ASSUME NEW price \in Prices, Insert(price) PROVE SeriesInv'
  BY <1>4, InsertStep
<1>5. CASE PollBringsNothing
  <2>1. /\ now' \in 0..MaxNow /\ now <= now' /\ stamp' \in 0..now' /\ Edge <= Edge'
    BY <1>1, <1>5 DEF PollBringsNothing, Edge
  <2>2. polling' \in BOOLEAN /\ UNCHANGED <<raw, candle, ever>>
    BY <1>5, Zenon DEF PollBringsNothing
  <2> QED BY <2>1, <2>2, RowsStay
<1>6. CASE roll_up_prices
  BY <1>6, RollUpStep
<1>7. CASE UNCHANGED series
  <2>1. /\ now' \in 0..MaxNow /\ now <= now' /\ stamp' \in 0..now' /\ Edge <= Edge'
    BY <1>1, <1>7 DEF series, Edge
  <2>2. polling' \in BOOLEAN /\ UNCHANGED <<raw, candle, ever>>
    BY <1>1, <1>7, Zenon DEF series
  <2> QED BY <2>1, <2>2, RowsStay
<1> QED BY <1>2, <1>3, <1>4, <1>5, <1>6, <1>7, Zenon DEF SeriesNext

(***************************************************************************)
(* roll_up_prices loses nothing: the candle of an hour is that of all rows *)
(* the hour ever had, and every row that was deleted is in one, however    *)
(* late, often or seldom the series is folded.                             *)
(***************************************************************************)
THEOREM CandlesComplete == SeriesSpec => []SeriesPreserved
<1>1. SeriesInv => SeriesPreserved
  BY DEF SeriesInv
<1> QED BY <1>1, SeriesStart, SeriesStep, PTL DEF SeriesSpec

=============================================================================
