----------------------------- MODULE PaperMark -----------------------------
(***************************************************************************)
(* Marking the paper book of one pool: ingest/main.py _paper_mark with the *)
(* exit clock of ingest/exits.py.                                          *)
(*                                                                         *)
(* Every tick of the worker first polls the chain (cmd_poll inserts one    *)
(* `prices` row stamped with the time of the call) and then, in a second   *)
(* transaction, marks every open position against the newest price row.    *)
(* The mark is stamped with the time of the PRICE, not of the mark: when a *)
(* poll brings no row for the pool, or an operator runs `paper mark` by    *)
(* hand, the same row is used again.                                       *)
(*                                                                         *)
(* Time is counted in hours.  Amounts and dollars are left out; what is    *)
(* kept is where the price stands relative to each range, which token each *)
(* bin holds, and for how many hours fees were credited.                   *)
(***************************************************************************)
EXTENDS Integers, FiniteSets

CONSTANTS
    Position,   \* identity values of paper_positions
    Bins,       \* active bins the pool can move through
    Offsets,    \* `paper open --offset`; 0 for everything the engine opens
    Half,       \* n_bins // 2
    SoftHours,  \* BELOW_SOFT_H
    HardHours,  \* BELOW_HARD_H
    Sigmas,     \* daily volatilities a score row can carry, 0 for NULL
    MaxNow      \* bound: the clock stops here

ASSUME PaperMarkAssumption ==
    /\ Bins \subseteq Int
    /\ Offsets \subseteq Int
    /\ Half \in Nat
    /\ SoftHours \in Nat
    /\ HardHours \in Nat
    /\ SoftHours <= HardHours
    /\ Sigmas \subseteq Nat
    /\ MaxNow \in Nat

VARIABLES
    now,     \* wall clock
    price,   \* newest `prices` row of the pool: its time and active bin
    row,     \* paper_positions
    marks    \* paper_marks: per position, the set of rows (ts, side)

vars == <<now, price, row, marks>>

NoTs == -1
In == "in"
Side == {In, "above", "below"}
Flag == {"soft", "hard", "sigma", "pool"}

Offset == -Half..Half              \* bins of a position, from its centre
Leg    == {"base", "quote", "both"}

(***************************************************************************)
(* A paper_positions row.  `flags` stands for exit_reasons: below the      *)
(* range for SoftHours or HardHours, the sigma shock, and "pool" for the   *)
(* three conditions of the pool itself (negative edge, a block, drawdown). *)
(* `entry` is the bin of entry_price, `last` is last_active, and `legs` is *)
(* what the array `bins` holds at each offset from the centre.             *)
(* feeHours is the sum of the `hours` that fee_accrual was handed while    *)
(* the price was in range: fees_usd divided by the rate.                   *)
(***************************************************************************)
Row == [ status     : {"none", "open", "closed"},
         center     : Int,
         entry      : Int,
         last       : Int,
         legs       : [Offset -> Leg],
         openedAt   : Nat,
         wasIn      : BOOLEAN,
         ever       : BOOLEAN,
         outSince   : Nat \cup {NoTs},
         outSide    : Side,
         entrySigma : Nat,
         flags      : SUBSET Flag,
         rebals     : Nat,
         txs        : Nat,
         feeHours   : Nat ]

Mark == [ts : Nat, active : Int, side : Side]

(* The deposit of paper.open_position: quote below the centre, base above. *)
Deposit == [o \in Offset |-> IF o < 0 THEN "quote" ELSE IF o > 0 THEN "base" ELSE "both"]

Absent == [ status |-> "none", center |-> 0, entry |-> 0, last |-> 0,
            legs |-> Deposit, openedAt |-> 0,
            wasIn |-> FALSE, ever |-> FALSE, outSince |-> NoTs, outSide |-> In,
            entrySigma |-> 0, flags |-> {}, rebals |-> 0, txs |-> 0,
            feeHours |-> 0 ]

Open == {p \in Position : row[p].status = "open"}

(* exits.side, with "in" for None. *)
SideOf(active, center) ==
    IF active > center + Half THEN "above"
    ELSE IF active < center - Half THEN "below"
    ELSE In

(* Variant: as if the price moved one bin at a time. *)
WalkReached(r, active) ==
    [o \in Offset |->
        IF r.center + o # active \/ active = r.last THEN r.legs[o]
        ELSE IF active > r.last THEN "quote" ELSE "base"]

(***************************************************************************)
(* paper.walk: every bin on the way is converted, the bin the price leaves *)
(* is not, the bin it reaches is.                                          *)
(***************************************************************************)
Walk(r, active) ==
    [o \in Offset |->
        IF r.center + o \in (r.last + 1)..active THEN "quote"
        ELSE IF r.center + o \in active..(r.last - 1) THEN "base"
        ELSE r.legs[o]]

(* SELECT max(ts) FROM paper_marks WHERE position_id = p, or opened_at *)
LastTs(p) == CHOOSE t \in {m.ts : m \in marks[p]} : \A m \in marks[p] : m.ts <= t
PrevTsOpening(p) == row[p].openedAt                    \* variant: forgets the marks
PrevTs(p) == IF marks[p] = {} THEN row[p].openedAt ELSE LastTs(p)

(* max(0.0, ts - prev_ts): the price row may be older than the position *)
HoursSinceUnclamped(ts, t0) == ts - t0                 \* variant: no max
HoursSince(ts, t0) == IF ts > t0 THEN ts - t0 ELSE 0

(***************************************************************************)
(* exits.evaluate.  The range counts only for a position that has held     *)
(* liquidity at the market at least once, and only below it; a sigma of    *)
(* more than 1.75 times the one at entry, and the pool's own condition,    *)
(* count always.                                                           *)
(***************************************************************************)
BelowFlagsEager(ever, side, hoursOut) ==               \* variant: flanks too
    IF side # "below" THEN {}
    ELSE IF hoursOut >= HardHours THEN {"hard"}
    ELSE IF hoursOut >= SoftHours THEN {"soft"}
    ELSE {}

BelowFlags(ever, side, hoursOut) ==
    IF ~ever \/ side # "below" THEN {}
    ELSE IF hoursOut >= HardHours THEN {"hard"}
    ELSE IF hoursOut >= SoftHours THEN {"soft"}
    ELSE {}

SigmaShock(entry, live) == entry # 0 /\ live # 0 /\ 4 * live > 7 * entry

Evaluate(ever, side, hoursOut, entry, live, poolBad) ==
    BelowFlags(ever, side, hoursOut)
        \cup (IF SigmaShock(entry, live) THEN {"sigma"} ELSE {})
        \cup (IF poolBad THEN {"pool"} ELSE {})

Urgency(flags) ==
    IF flags = {} THEN "none" ELSE IF flags = {"soft"} THEN "soft" ELSE "hard"

-----------------------------------------------------------------------------
Init ==
    /\ now = 0
    /\ price \in [ts : {0}, active : Bins]
    /\ row = [p \in Position |-> Absent]
    /\ marks = [p \in Position |-> {}]

Tick ==
    /\ now < MaxNow
    /\ now' = now + 1
    /\ UNCHANGED <<price, row, marks>>

(* cmd_poll: the row is keyed by (pool, ts) and a conflict does nothing. *)
Poll ==
    /\ price.ts < now
    /\ \E active \in Bins : price' = [ts |-> now, active |-> active]
    /\ UNCHANGED <<now, row, marks>>

(* _open_paper, for `paper open` and for cmd_manage. *)
OpenPosition(p, offset) ==
    /\ row[p].status = "none"
    /\ row' = [row EXCEPT ![p] =
                 [Absent EXCEPT !.status = "open",
                                !.center = price.active + offset,
                                !.entry = price.active,
                                !.last = price.active,
                                !.openedAt = now,
                                !.wasIn = offset \in -Half..Half,
                                !.txs = 1]]
    /\ UNCHANGED <<now, price, marks>>

(* close_position *)
ClosePosition(p) ==
    /\ row[p].status = "open"
    /\ row' = [row EXCEPT ![p].status = "closed"]
    /\ UNCHANGED <<now, price, marks>>

(***************************************************************************)
(* One turn of the loop of _paper_mark: the row as update_paper_position,  *)
(* set_entry_context and update_exit_state leave it.                       *)
(***************************************************************************)
OutSinceSticky(r, side) ==                             \* variant: no reset
    IF r.outSince = NoTs /\ side # In THEN price.ts ELSE r.outSince

OutSince(r, side) ==
    IF side = In THEN NoTs
    ELSE IF r.outSince = NoTs \/ side # r.outSide THEN price.ts
    ELSE r.outSince

LeftRangeAnyTick(r, side) == side # In                 \* variant: counts ticks
LeftRange(r, side) == r.wasIn /\ side # In

Marked(p, sigma, poolBad) ==
    LET r     == row[p]
        side  == SideOf(price.active, r.center)
        since == OutSince(r, side)
        left  == LeftRange(r, side)
        entry == IF r.entrySigma = 0 THEN sigma ELSE r.entrySigma
        ever  == r.ever \/ side = In
        out   == IF since = NoTs THEN 0 ELSE price.ts - since
    IN [r EXCEPT !.legs = Walk(r, price.active),
                 !.last = price.active,
                 !.wasIn = side = In,
                 !.ever = ever,
                 !.outSince = since,
                 !.outSide = side,
                 !.entrySigma = entry,
                 !.flags = Evaluate(ever, side, out, entry, sigma, poolBad),
                 !.rebals = IF left THEN @ + 1 ELSE @,
                 !.txs = IF left THEN @ + 2 ELSE @,
                 !.feeHours = IF side = In THEN @ + HoursSince(price.ts, PrevTs(p))
                              ELSE @]

(* insert_paper_mark: ON CONFLICT (position_id, ts) DO NOTHING *)
MarkRows(p) ==
    IF \E m \in marks[p] : m.ts = price.ts THEN marks[p]
    ELSE marks[p] \cup {[ts |-> price.ts, active |-> price.active,
                         side |-> SideOf(price.active, row[p].center)]}

(***************************************************************************)
(* _paper_mark: all open positions in one transaction.  An error rolls the *)
(* whole transaction back, which is a step that changes nothing.  The      *)
(* score the exits read is whatever the last ingest left.                  *)
(***************************************************************************)
PaperMark(sigma, bad) ==
    /\ row' = [p \in Position |-> IF p \in Open THEN Marked(p, sigma, p \in bad)
                                  ELSE row[p]]
    /\ marks' = [p \in Position |-> IF p \in Open THEN MarkRows(p) ELSE marks[p]]
    /\ UNCHANGED <<now, price>>

Next ==
    \/ Tick
    \/ Poll
    \/ \E p \in Position, offset \in Offsets : OpenPosition(p, offset)
    \/ \E p \in Position : ClosePosition(p)
    \/ \E sigma \in Sigmas, bad \in SUBSET Open : PaperMark(sigma, bad)

Spec == Init /\ [][Next]_vars

-----------------------------------------------------------------------------
TypeOK ==
    /\ now \in Nat
    /\ price \in [ts : Nat, active : Int]
    /\ row \in [Position -> Row]
    /\ marks \in [Position -> SUBSET Mark]

(* The hard "below range" exit is raised only by hours the position really *)
(* spent below: some mark at least HardHours older than the newest one was *)
(* already below the range, every mark since was below it too, and before  *)
(* that the position had been in range.  main.py: "the clock starts when   *)
(* the range is first left, and resets on re-entry".                       *)
HardExitIsSustained ==
    \A p \in Position : "hard" \in row[p].flags =>
        \E first \in marks[p] :
            /\ first.ts + HardHours <= LastTs(p)
            /\ \A m \in marks[p] : m.ts >= first.ts => m.side = "below"
            /\ \E m \in marks[p] : m.ts < first.ts /\ m.side = In

(* A flank placed away from the price is supposed to wait there: no range  *)
(* signal before some mark found the price inside its range (exits.py,     *)
(* evaluate).                                                              *)
FlankMayWait ==
    \A p \in Position :
        row[p].flags \cap {"soft", "hard"} # {} => \E m \in marks[p] : m.side = In

(* The rebalance counter counts transitions out of range, not ticks spent  *)
(* there ("counting ticks made a quiet position look like a frantic one"): *)
(* it equals the number of marks out of range whose predecessor, or the    *)
(* entry, was in range, however often a price row was marked; and every    *)
(* transition costs the two transactions of a rebalance.                   *)
Before(p, m) ==
    {k \in marks[p] : k.ts < m.ts /\ \A j \in marks[p] : j.ts < m.ts => j.ts <= k.ts}

SidesBefore(p, m) ==
    IF Before(p, m) = {} THEN {SideOf(row[p].entry, row[p].center)}
    ELSE {k.side : k \in Before(p, m)}

TransitionsCounted ==
    \A p \in Position : row[p].status # "none" =>
        /\ row[p].rebals = Cardinality({m \in marks[p] : m.side # In /\ SidesBefore(p, m) = {In}})
        /\ row[p].txs = 1 + 2 * row[p].rebals

(* No hour is credited twice and none out of range: the hours handed to    *)
(* fee_accrual fit between the opening (or the first mark, when its price  *)
(* row is older) and the newest mark that found the price in range.        *)
Starts(p) == {row[p].openedAt} \cup {m.ts : m \in marks[p]}

NoHourTwice ==
    \A p \in Position : row[p].feeHours # 0 =>
        \E m \in marks[p], start \in Starts(p) :
            m.side = In /\ row[p].feeHours + start <= m.ts

(* "as the active bin walks up, each bin it crosses converts base -> quote; *)
(* walking down does the reverse": a bin the price only ever jumped over   *)
(* holds the token that the place of the price calls for, however far the  *)
(* price moved between two marks and whichever way it came back.  Two      *)
(* kinds of bins are no part of this: one that the price stood in at the   *)
(* opening or at a mark (walk leaves it unconverted when the price moves   *)
(* on), and, of a flank, one that was filled for the centre although the   *)
(* price was on its other side.                                            *)
Landed(p) == {row[p].entry} \cup {m.active : m \in marks[p]}

FilledRight(r, b) == (b < r.center /\ b < r.entry) \/ (b > r.center /\ b > r.entry)

LegsFollowPrice ==
    \A p \in Position, o \in Offset :
        LET r == row[p]
            b == r.center + o
        IN  /\ r.status # "none"
            /\ b \notin Landed(p)
            /\ FilledRight(r, b)
            => r.legs[o] = IF b < r.last THEN "quote" ELSE "base"

=============================================================================
