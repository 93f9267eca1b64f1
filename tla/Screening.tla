------------------------------ MODULE Screening ------------------------------
(***************************************************************************)
(* Which pools the book may be in: the pipeline of the worker (ingest with *)
(* its gates, backfill, volatility, red flags, manage), the marks between  *)
(* two passes, and the commands an operator runs beside it.                *)
(*                                                                         *)
(* Abstracted: a stage to one transaction, of which everything or nothing  *)
(* takes effect; the base token of a pool to the pool; what the structural *)
(* flags read beside fee and LVR to whether they fire.  These are three,   *)
(* by where it is kept: in the rows of an ingest alone (thin), in the      *)
(* newest row of scores once there is a sigma (wild), in the prices        *)
(* themselves (fallen).  A tick is an hour, a pass takes less.             *)
(***************************************************************************)
EXTENDS Integers

CONSTANTS
    Pool,
    Offers,   \* what the venue may say of a pool
    Courses,  \* what its price series may show
    MaxAge    \* hours after which a mint account is read again

(* thin: the token is worth more than can leave through this pool, and it  *)
(* is not a token of many venues.                                          *)
Offer == [good : BOOLEAN, black : BOOLEAN, fee : Nat, thin : BOOLEAN]

(* wild: no fee tier covers the sigma, or the volume of the pool is well   *)
(* below what would; fallen: far below the peak, or falling for 72 hours.  *)
Course == [lvr : Nat, wild : BOOLEAN, fallen : BOOLEAN]

ASSUME ScreeningAssumption ==
    /\ MaxAge \in Nat
    /\ Offers \subseteq Offer /\ Courses \subseteq Course

VARIABLES
    \* the world
    venue,    \* what the venue says of each pool
    prices,   \* what its price series shows
    mint,     \* how its token is configured
    dirty,    \* history: hours the token has been hostile for, at most MaxAge + 1
    \* the database
    listed,   \* pools.is_blacklisted
    score,    \* the newest row of scores
    facts,    \* what was read from the mint account
    age,      \* hours since then, at most MaxAge + 1
    blocked,  \* pools.blocked
    held,     \* pools with an open position
    fatal,    \* those whose last mark left a reason to close
    \* the pass
    pc,       \* its next stage
    fetched   \* what the venue said to this pass

world == <<venue, prices, mint, dirty>>
mints == <<facts, age>>
book  == <<held, fatal>>
vars  == <<world, listed, score, mints, blocked, book, pc, fetched>>

Unknown == -1
NoScore == [fee |-> Unknown, lvr |-> Unknown, thin |-> FALSE, wild |-> FALSE]
NoFetch == [p \in Pool |-> [verdict |-> "none", fee |-> 0, thin |-> FALSE]]

(* A row of scores. *)
Score == [fee : Nat, lvr : Nat \cup {Unknown}, thin : BOOLEAN, wild : BOOLEAN]

(* The pools that have a row. *)
Known == {p \in Pool : score[p] # NoScore}

(* edge_lvr_pct, where sigma is known *)
Loses(s) == s.lvr # Unknown /\ s.fee < s.lvr
Pays(s)  == s.lvr # Unknown /\ s.fee > s.lvr

Older(n) == IF n > MaxAge THEN n ELSE n + 1

Init ==
    /\ venue \in [Pool -> Offers]
    /\ prices \in [Pool -> Courses]
    /\ mint \in [Pool -> {"clean", "hostile"}]
    /\ dirty = [p \in Pool |-> 0]
    /\ listed = [p \in Pool |-> FALSE]
    /\ score = [p \in Pool |-> NoScore]
    /\ facts = [p \in Pool |-> "none"]
    /\ age = [p \in Pool |-> 0]
    /\ blocked = {} /\ held = {} /\ fatal = {}
    /\ pc = "idle"
    /\ fetched = NoFetch

-----------------------------------------------------------------------------
(* The world. *)

VenueChanges(p) ==
    /\ \E v \in Offers : venue' = [venue EXCEPT ![p] = v]
    /\ UNCHANGED <<prices, mint, dirty, listed, score, mints, blocked, book, pc, fetched>>

PricesChange(p) ==
    /\ \E r \in Courses : prices' = [prices EXCEPT ![p] = r]
    /\ UNCHANGED <<venue, mint, dirty, listed, score, mints, blocked, book, pc, fetched>>

MintChanges(p) ==
    /\ mint' = [mint EXCEPT ![p] = IF @ = "clean" THEN "hostile" ELSE "clean"]
    /\ dirty' = [dirty EXCEPT ![p] = 0]
    /\ UNCHANGED <<venue, prices, listed, score, mints, blocked, book, pc, fetched>>

Tick ==
    /\ pc = "idle"
    /\ dirty' = [p \in Pool |-> IF mint[p] = "hostile" THEN Older(dirty[p]) ELSE 0]
    /\ age' = [p \in Pool |-> IF facts[p] = "none" THEN 0 ELSE Older(age[p])]
    /\ UNCHANGED <<venue, prices, mint, listed, score, facts, blocked, book, pc, fetched>>

-----------------------------------------------------------------------------
(* cmd_ingest, cmd_backfill and cmd_volatility. *)

(* gates.check *)
Verdict(v) ==
    IF v.black THEN "black" ELSE IF v.good THEN "kept" ELSE "gated"

Fetch ==
    /\ pc = "idle"
    /\ fetched' = [p \in Pool |-> [verdict |-> Verdict(venue[p]), fee |-> venue[p].fee, thin |-> venue[p].thin]]
    /\ pc' = "persist"
    /\ UNCHANGED <<world, listed, score, mints, blocked, book>>

(* What needs a sigma, for the pools Long, whose price series, own or else *)
(* the vendor's, is long enough for one.                                   *)
Assessed(row, p, Long) ==
    IF p \in Long THEN [row EXCEPT !.lvr = prices[p].lvr, !.wild = prices[p].wild] ELSE row

(* What is written of a pool that passed the gates: its row of scores, *)
Scored(p, Long) ==
    Assessed([NoScore EXCEPT !.fee = fetched[p].fee, !.thin = fetched[p].thin], p, Long)

(* and the column of pools. *)
Upserted(p) == fetched[p].verdict = "black"

(* History: of what this pass fetched, what the venue has blacklisted. *)
Remembered ==
    [p \in Pool |-> IF fetched[p].verdict = "black" THEN fetched[p] ELSE NoFetch[p]]

Persist ==
    /\ pc = "persist"
    /\ \E Long \in SUBSET Pool :
         score' = [p \in Pool |-> IF fetched[p].verdict = "kept" THEN Scored(p, Long) ELSE score[p]]
    /\ listed' = [p \in Pool |-> IF fetched[p].verdict = "kept" THEN Upserted(p) ELSE listed[p]]
    /\ fetched' = Remembered
    /\ pc' = "volatility"
    /\ UNCHANGED <<world, mints, blocked, book>>

(* cmd_volatility leaves the newest row as it was where there is no sigma. *)
Volatility ==
    /\ pc = "volatility"
    /\ \E Long \in SUBSET Known : score' = [p \in Pool |-> Assessed(score[p], p, Long)]
    /\ pc' = "redflags"
    /\ UNCHANGED <<world, listed, mints, blocked, book, fetched>>

-----------------------------------------------------------------------------
(* cmd_redflags. *)

(* Variant: a mint is read once. *)
NeedsCheckOnce == {p \in Known : facts[p] = "none"}

(* mints_needing_check *)
NeedsCheck == {p \in Known : facts[p] = "none" \/ age[p] > MaxAge}

(* Variant: a block is never lifted. *)
SetBlocksSticky(flagged) == blocked \cup flagged

(* set_blocks, for every pool *)
SetBlocks(flagged) == flagged

(* redflags.evaluate, on the facts as they are now.  v_drawdown reads our  *)
(* own prices and wants twenty of them: it has a say of the pools Watched. *)
Flagged(p, Watched) ==
    \/ facts'[p] = "hostile" \/ listed[p]
    \/ Loses(score[p]) \/ score[p].wild \/ score[p].thin
    \/ p \in Watched /\ prices[p].fallen

(* The account of a token that a pool trades exists, so mintcheck has an   *)
(* answer for each or raises.                                              *)
FactsChecked == [p \in Pool |-> IF p \in NeedsCheck THEN mint[p] ELSE facts[p]]

(* update_mint_facts, which stamps what it writes *)
AgeChecked == [p \in Pool |-> IF p \in NeedsCheck THEN 0 ELSE age[p]]

CheckAndFlag ==
    /\ facts' = FactsChecked
    /\ age' = AgeChecked
    /\ \E Watched \in SUBSET Known :
         blocked' = SetBlocks({p \in Known : Flagged(p, Watched)})
    /\ UNCHANGED <<world, listed, score, book>>

RedFlags ==
    /\ pc = "redflags"
    /\ CheckAndFlag
    /\ pc' = "manage"
    /\ UNCHANGED fetched

-----------------------------------------------------------------------------
(* cmd_manage and _paper_mark. *)

(* v_tradeable; a volume that just does not break even is any candidate's  *)
(* that the allocator leaves out.                                          *)
Tradeable(p) == p \notin blocked /\ Pays(score[p])

(* The reasons of decide that leave it no choice; an unknown edge is 0. *)
MustClose(p) == p \in fatal \/ ~Pays(score[p])

(* What else decide closes and which candidates the allocator funds, any. *)
CloseAndAdd ==
    \E closed \in SUBSET held :
        /\ {p \in held : MustClose(p)} \subseteq closed
        /\ \E opened \in SUBSET {p \in Pool : Tradeable(p) /\ p \notin held \ closed} :
             held' = (held \ closed) \cup opened
        /\ fatal' = fatal \ closed
        /\ UNCHANGED <<world, listed, score, mints, blocked>>

Manage ==
    /\ pc = "manage"
    /\ CloseAndAdd
    /\ pc' = "idle"
    /\ fetched' = NoFetch

(* An exception in a stage, or the end of the process: the pass is over. *)
PassFails ==
    /\ pc # "idle"
    /\ pc' = "idle"
    /\ fetched' = NoFetch
    /\ UNCHANGED <<world, listed, score, mints, blocked, book>>

(* Variant: evaluate forgets that the pool is blocked. *)
FatalUnblocked(p) == Loses(score[p])

(* exits.evaluate, as far as the pool decides it *)
Fatal(p) == p \in blocked \/ Loses(score[p])

(* Variant: closed positions are marked as well. *)
MarkedEver == Known

Marked == held

(* A shock of sigma or a drawdown of the position comes on top, or not. *)
MarkAll ==
    /\ \E shock \in SUBSET held : fatal' = {p \in Marked : Fatal(p) \/ p \in shock}
    /\ UNCHANGED <<world, listed, score, mints, blocked, held, pc, fetched>>

(* The other task of the worker: its one thread is not in a pass. *)
Mark == pc = "idle" /\ MarkAll

-----------------------------------------------------------------------------
(* Commands by hand, at any time. *)

(* paper open, with --force or without *)
OpenByHand(p) ==
    /\ p \in Known \ held
    /\ \E force \in BOOLEAN : p \in blocked => force
    /\ held' = held \cup {p}
    /\ UNCHANGED <<world, listed, score, mints, blocked, fatal, pc, fetched>>

RedFlagsByHand == CheckAndFlag /\ UNCHANGED <<pc, fetched>>

ManageByHand == CloseAndAdd /\ UNCHANGED <<pc, fetched>>

Next ==
    \/ \E p \in Pool : VenueChanges(p) \/ PricesChange(p) \/ MintChanges(p)
    \/ Tick
    \/ Fetch \/ Persist \/ Volatility \/ RedFlags \/ Manage \/ PassFails
    \/ Mark \/ MarkAll
    \/ \E p \in Pool : OpenByHand(p)
    \/ RedFlagsByHand \/ ManageByHand

Spec == Init /\ [][Next]_vars

(***************************************************************************)
(* Hours go by, the worker starts passes and marks between them, and a     *)
(* stage that is reached again and again does not fail every time.         *)
(***************************************************************************)
FairSpec ==
    /\ Spec
    /\ SF_vars(Tick) /\ SF_vars(Mark)
    /\ WF_vars(Fetch)
    /\ SF_vars(Persist) /\ SF_vars(Volatility) /\ SF_vars(RedFlags) /\ SF_vars(Manage)

-----------------------------------------------------------------------------
TypeOK ==
    /\ venue \in [Pool -> Offers]
    /\ prices \in [Pool -> Courses]
    /\ mint \in [Pool -> {"clean", "hostile"}]
    /\ dirty \in [Pool -> 0..(MaxAge + 1)]
    /\ listed \in [Pool -> BOOLEAN]
    /\ score \in [Pool -> Score \cup {NoScore}]
    /\ facts \in [Pool -> {"none", "clean", "hostile"}]
    /\ age \in [Pool -> 0..(MaxAge + 1)]
    /\ blocked \subseteq Known /\ held \subseteq Known /\ fatal \subseteq held
    /\ pc \in {"idle", "persist", "volatility", "redflags", "manage"}
    /\ fetched \in [Pool -> [verdict : {"none", "black", "gated", "kept"},
                           fee : Nat, thin : BOOLEAN]]

(***************************************************************************)
(* What the pass may open when it comes to cmd_manage is vetted: the mint  *)
(* of every candidate has been read, and none has been hostile for longer  *)
(* than the age at which cmd_redflags reads a mint again.  It rests on the *)
(* order of the stages, on a failed stage ending the pass, and on the      *)
(* selection of stale mints together.                                      *)
(***************************************************************************)
CandidatesVetted ==
    pc = "manage" =>
        \A p \in Pool : Tradeable(p) => facts[p] # "none" /\ dirty[p] <= MaxAge

(***************************************************************************)
(* A position does not stay in a pool whose token has turned hostile: the  *)
(* mint is read again, the pool blocked, the next mark makes it a reason   *)
(* to close, and the pass after that closes.                               *)
(***************************************************************************)
HostileLeaves ==
    \A p \in Pool :
        (p \in held /\ mint[p] = "hostile") ~> (p \notin held \/ mint[p] = "clean")

(***************************************************************************)
(* "These come back when conditions change": a pool that passes the gates, *)
(* pays, and whose token is in order from some time on, while nothing of   *)
(* what the structural flags are about is the matter with it any more,     *)
(* does not stay blocked, whatever older rows of it say.                   *)
(***************************************************************************)
Sound(p) ==
    /\ Verdict(venue[p]) = "kept" /\ mint[p] = "clean"
    /\ venue[p].fee > prices[p].lvr
    /\ ~venue[p].thin /\ ~prices[p].wild /\ ~prices[p].fallen

Unblocks == \A p \in Pool : <>[]Sound(p) => <>[](p \notin blocked)

(***************************************************************************)
(* Statements of the repository that this code does not keep.              *)
(***************************************************************************)

(* "meteora-blacklist: flagged by the venue itself" is a hard flag: what   *)
(* the venue has blacklisted is refused.  The gates drop such a pool       *)
(* before the column is written, so the flag never sees it.                *)
BlacklistRefused ==
    pc = "manage" => \A p \in Pool : Tradeable(p) => fetched[p].verdict # "black"

=============================================================================
