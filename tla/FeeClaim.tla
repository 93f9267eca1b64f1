------------------------------ MODULE FeeClaim ------------------------------
(***************************************************************************)
(* Fees measured from the chain, for the paper positions of one pool:      *)
(* exec/src/fees.ts and binfees.ts, which copy the accumulators of the     *)
(* pool's bins into bin_fees, and the part of _paper_mark that credits     *)
(* what they gained since the position's last checkpoint (claim_accrual,   *)
(* save_fee_checkpoints, update_paper_claim).                              *)
(*                                                                         *)
(* The two are processes of their own; the table bin_fees is all they      *)
(* share.  A sync reads the chain first and writes afterwards, in several  *)
(* statements that are no transaction.                                     *)
(*                                                                         *)
(* Abstracted: the two tokens to one; a chunk of 500 rows to a bin; an     *)
(* account, which always exists, to its bins.  A credit is counted in what *)
(* the accumulator gained, before claim_accrual multiplies it by the share *)
(* the position would have held at that mark and rounds it down.  A share  *)
(* that is nothing at all is kept, for then the gain is not credited.      *)
(***************************************************************************)
EXTENDS Integers, FiniteSets

CONSTANTS
    Syncer,     \* runs of sync that can be under way at once
    Position,
    Bin,        \* the bins of one pool, in the order they are written
    Before,     \* what a bin earned before the first sync
    MaxMoves    \* bound: what happens on the chain from then on

ASSUME FeeClaimAssumption ==
    /\ Bin \subseteq Int /\ IsFiniteSet(Bin)
    /\ Before \in Nat /\ MaxMoves \in Nat

VARIABLES
    chain,    \* each bin, on the chain
    table,    \* bin_fees
    syncing,  \* what each run of sync has read and not written yet
    status,   \* of each paper position
    cp,       \* paper_fee_checkpoints
    claim,    \* claim_x, kept apart for each bin
    empty,    \* the positions opened with nothing in their bins
    first,    \* history: the row the first checkpoint of a bin came from
    passed,   \* history: what marks found gained and did not credit
    slip,     \* history: how far an older sync put the row of a bin back
    dry,      \* history: the bins that have been without liquidity
    reinit,   \* history: whether an account was ever re-initialised
    moves     \* what happened on the chain so far

book == <<status, cp, claim, empty, first, passed>>
past == <<slip, dry, reinit>>
vars == <<chain, table, syncing, book, past, moves>>

(***************************************************************************)
(* fee is feeAmountPerTokenStored, liq that liquiditySupply is not zero.   *)
(* life is history: all the bin has ever earned, which a re-initialised    *)
(* account forgets; no step of the code reads it.                          *)
(***************************************************************************)
Acc    == [fee : Nat, life : Nat, liq : BOOLEAN]
NoRow  == [fee |-> -1, life |-> -1, liq |-> FALSE]
Kept   == [fee : Nat, life : Nat]
NoCp   == [fee |-> -1, life |-> -1]
NoSync == [left |-> {}, read |-> [b \in Bin |-> NoRow]]

Open == {p \in Position : status[p] = "open"}

Larger(m, n) == IF m >= n THEN m ELSE n

Init ==
    /\ chain = [b \in Bin |-> [fee |-> Before, life |-> Before, liq |-> TRUE]]
    /\ table = [b \in Bin |-> NoRow]
    /\ syncing = [s \in Syncer |-> NoSync]
    /\ status = [p \in Position |-> "none"]
    /\ cp = [p \in Position |-> [b \in Bin |-> NoCp]]
    /\ claim = [p \in Position |-> [b \in Bin |-> 0]]
    /\ empty = {}
    /\ first = [p \in Position |-> [b \in Bin |-> NoCp]]
    /\ passed = [p \in Position |-> [b \in Bin |-> 0]]
    /\ slip = [b \in Bin |-> 0]
    /\ dry = {}
    /\ reinit = FALSE
    /\ moves = 0

-----------------------------------------------------------------------------
(* The chain, and the book. *)

Move ==
    /\ moves < MaxMoves
    /\ moves' = moves + 1

(* A bin without liquidity earns nothing. *)
Earn(b) ==
    /\ Move
    /\ chain[b].liq
    /\ chain' = [chain EXCEPT ![b].fee = @ + 1, ![b].life = @ + 1]
    /\ UNCHANGED <<table, syncing, book, past>>

(* The last liquidity leaves the bin, or the first comes back. *)
Drain(b) ==
    /\ Move
    /\ chain[b].liq
    /\ chain' = [chain EXCEPT ![b].liq = FALSE]
    /\ dry' = dry \cup {b}
    /\ UNCHANGED <<table, syncing, book, slip, reinit>>

Refill(b) ==
    /\ Move
    /\ ~chain[b].liq
    /\ chain' = [chain EXCEPT ![b].liq = TRUE]
    /\ UNCHANGED <<table, syncing, book, past>>

(* "a negative delta means the account was re-initialised" *)
Reinit(b) ==
    /\ Move
    /\ chain' = [chain EXCEPT ![b].fee = 0]
    /\ reinit' = TRUE
    /\ UNCHANGED <<table, syncing, book, slip, dry>>

(* A rebalance redeploys what the old position was worth less the cost of  *)
(* moving it, or nothing when that is less than nothing.                   *)
OpenPosition(p) ==
    /\ status[p] = "none"
    /\ status' = [status EXCEPT ![p] = "open"]
    /\ empty' \in {empty, empty \cup {p}}
    /\ UNCHANGED <<chain, table, syncing, cp, claim, first, passed, past, moves>>

ClosePosition(p) ==
    /\ status[p] = "open"
    /\ status' = [status EXCEPT ![p] = "closed"]
    /\ UNCHANGED <<chain, table, syncing, cp, claim, empty, first, passed, past, moves>>

-----------------------------------------------------------------------------
(* sync: the pools of the open positions, their accounts, the rows. *)

Fetch(s) ==
    /\ syncing[s].left = {}
    /\ Open # {}
    /\ syncing' = [syncing EXCEPT ![s] = [left |-> Bin, read |-> chain]]
    /\ UNCHANGED <<chain, table, book, past, moves>>

(* What a run still has to write after a bin: NoSync after the last. *)
Rest(run, b) == [left |-> run.left \ {b}, read |-> [run.read EXCEPT ![b] = NoRow]]

(* What a row has lost of all it earned, and how much older the new one is *)
(* than the one it overwrites: in all, or in what was lost.                *)
Forgotten(r) == r.life - r.fee

Back(old, new) ==
    Larger(0, Larger(old.life - new.life, Forgotten(old) - Forgotten(new)))

(* The chunks go in order.  Nothing compares a row with the one it         *)
(* overwrites: of two runs the later writer wins.                          *)
Upsert(s, b) ==
    /\ b \in syncing[s].left
    /\ \A c \in syncing[s].left : b <= c
    /\ table' = [table EXCEPT ![b] = syncing[s].read[b]]
    /\ slip' = [slip EXCEPT ![b] = @ + Back(table[b], syncing[s].read[b])]
    /\ syncing' = [syncing EXCEPT ![s] = Rest(@, b)]
    /\ UNCHANGED <<chain, book, dry, reinit, moves>>

(* tick catches whatever sync throws; the process may die as well. *)
SyncFails(s) ==
    /\ syncing[s].left # {}
    /\ syncing' = [syncing EXCEPT ![s] = NoSync]
    /\ UNCHANGED <<chain, table, book, past, moves>>

-----------------------------------------------------------------------------
(* _paper_mark: one transaction over all open positions. *)

(* max(0, fee_x_now - cp[0]), nothing without a row or a checkpoint *)
Gain(row, old) ==
    IF row # NoRow /\ old # NoCp THEN Larger(0, row.fee - old.fee) ELSE 0

(* Variant: the negative delta is not cut off. *)
DeltaSigned(row, old, nothing) ==
    IF row = NoRow \/ old = NoCp \/ ~row.liq \/ nothing THEN 0 ELSE row.fee - old.fee

(* Variant: a bin without a checkpoint starts from nothing. *)
DeltaFromZero(row, old, nothing) ==
    IF row = NoRow \/ ~row.liq \/ nothing THEN 0
    ELSE IF old = NoCp THEN row.fee ELSE Gain(row, old)

(* liq <= 0 or ours <= 0: the bin is skipped, whatever it gained *)
Delta(row, old, nothing) == IF row.liq /\ ~nothing THEN Gain(row, old) ELSE 0

(* What a checkpoint keeps of a row. *)
Stored(row) == [fee |-> row.fee, life |-> row.life]

(* Variant: only the bins that earned something are checkpointed. *)
CheckpointEarning(row, old) == IF Gain(row, old) > 0 THEN Stored(row) ELSE old

(* Variant: the first checkpoint stays. *)
CheckpointOnce(row, old) == IF old = NoCp THEN Stored(row) ELSE old

(* save_fee_checkpoints: every bin that has a row, the skipped ones too *)
Checkpoint(row, old) == IF row = NoRow THEN old ELSE Stored(row)

Mark ==
    LET Credited(p, b) == Delta(table[b], cp[p][b], p \in empty)
    IN
    /\ claim' = [p \in Position |-> [b \in Bin |->
                   IF p \in Open THEN claim[p][b] + Credited(p, b) ELSE claim[p][b]]]
    /\ passed' = [p \in Position |-> [b \in Bin |->
                    IF p \in Open
                    THEN passed[p][b] + Gain(table[b], cp[p][b]) - Credited(p, b)
                    ELSE passed[p][b]]]
    /\ cp' = [p \in Position |-> [b \in Bin |->
                IF p \in Open THEN Checkpoint(table[b], cp[p][b]) ELSE cp[p][b]]]
    /\ first' = [p \in Position |-> [b \in Bin |->
                   IF p \in Open /\ cp[p][b] = NoCp THEN Stored(table[b]) ELSE first[p][b]]]
    /\ UNCHANGED <<chain, table, syncing, status, empty, past, moves>>

Next ==
    \/ \E b \in Bin : Earn(b) \/ Drain(b) \/ Refill(b) \/ Reinit(b)
    \/ \E p \in Position : OpenPosition(p) \/ ClosePosition(p)
    \/ \E s \in Syncer : Fetch(s) \/ SyncFails(s) \/ \E b \in Bin : Upsert(s, b)
    \/ Mark

Spec == Init /\ [][Next]_vars

(***************************************************************************)
(* The worker marks for ever, a sync runs at every interval and some runs  *)
(* do not fail: an upsert that is possible again and again is done.        *)
(***************************************************************************)
FairSpec ==
    /\ Spec
    /\ WF_vars(Mark)
    /\ \A s \in Syncer : WF_vars(Fetch(s))
    /\ \A s \in Syncer, b \in Bin : SF_vars(Upsert(s, b))

-----------------------------------------------------------------------------
TypeOK ==
    /\ chain \in [Bin -> Acc]
    /\ table \in [Bin -> Acc \cup {NoRow}]
    /\ syncing \in [Syncer -> [left : SUBSET Bin, read : [Bin -> Acc \cup {NoRow}]]]
    /\ status \in [Position -> {"none", "open", "closed"}]
    /\ cp \in [Position -> [Bin -> Kept \cup {NoCp}]]
    /\ claim \in [Position -> [Bin -> Nat]]
    /\ empty \subseteq Position
    /\ first \in [Position -> [Bin -> Kept \cup {NoCp}]]
    /\ passed \in [Position -> [Bin -> Nat]]
    /\ slip \in [Bin -> Nat]
    /\ dry \subseteq Bin
    /\ reinit \in BOOLEAN
    /\ moves \in 0..MaxMoves

(***************************************************************************)
(* No fee is credited twice: what a position was credited in a bin is no   *)
(* more than the bin earned between the reading its first checkpoint came  *)
(* from and the newest reading it has seen, however often the accounts     *)
(* were re-initialised and syncs cut short.  Only where two syncs overlap  *)
(* can it be more, and then by no more than the later writer put the row   *)
(* back.                                                                   *)
(***************************************************************************)
CreditedOnce ==
    \A p \in Position, b \in Bin :
        claim[p][b] <= cp[p][b].life - first[p][b].life + slip[b]

(***************************************************************************)
(* Nothing drops out between two marks ("the next checkpoint picks the     *)
(* accumulator up where it left off"): as long as no account was           *)
(* re-initialised, what any number of marks credited and what they passed  *)
(* over add up to what one mark at the end would have found gained, but    *)
(* for what overlapping syncs put back.  And nothing is passed over, which *)
(* is for good, but in a position that holds nothing and in a bin that has *)
(* been without liquidity.                                                 *)
(***************************************************************************)
Telescopes ==
    ~reinit =>
        \A p \in Position, b \in Bin :
            LET gained == cp[p][b].fee - first[p][b].fee
                found  == claim[p][b] + passed[p][b]
            IN  /\ gained <= found /\ found <= gained + slip[b]
                /\ passed[p][b] # 0 => p \in empty \/ b \in dry

(***************************************************************************)
(* The positions that stay open are measured up to date: in the end every  *)
(* checkpoint is at the value the chain has stopped at, so that all a bin  *)
(* earned has been looked at.                                              *)
(***************************************************************************)
CatchesUp ==
    \A p \in Position, b \in Bin :
        <>[](status[p] = "open") => <>[](cp[p][b].fee = chain[b].fee)

=============================================================================
