# A TLA+ model of memet

memet screens Meteora DLMM pools, runs a paper book of liquidity positions in
them, and hands the decisions about that book to executors that build and
simulate transactions. This directory models the parts of it whose behaviour
depends on the order in which things happen, or on many steps of arithmetic
agreeing with each other: the worker, the marks, the management of the book and
its allocator, the screening of pools, the measured fees, the price series, the
intent queue, and commands run by hand beside the worker. The modules are checked
with TLC on small instances; the main invariants of most, and the refinement of
the intent ledger, are proved with TLAPS for every value of the constants.

## The system

Three programs share one Postgres database and nothing else.

| Component | Code | State it keeps | Operations |
|---|---|---|---|
| Scheduler | `ingest/worker.py`, `main.py cmd_worker` | next slot and failures of two tasks, stop flag | a pass over the due tasks, failure, SIGTERM, exit; pm2 restarts it |
| Ingest | `main.py cmd_ingest, cmd_backfill, cmd_volatility`, `sources.py`, `ohlcv.py`, `onchain.py` | `pools`, `tokens`, `snapshots`, `prices`, `scores` | fetch with retries, bulk inserts, roll-up of old prices |
| Red flags, gates | `redflags.py`, `gates.py`, `mintcheck.py` | `pools.blocked`, mint facts | check mints, block and unblock pools |
| Scores, volatility | `scoring.py`, `volatility.py` | none | formulas |
| Marking | `main.py _paper_mark`, `exits.py`, `paper.py` | `paper_positions`, `paper_marks` | walk the bins, accrue fees, run the exit clock, raise flags |
| Allocation | `sizing.py` | none | split a budget over sleeves and pools, choose width and shape |
| Management | `main.py cmd_manage, _open_paper`, `actions.py` | `paper_positions`, `actions`, `book_state` | decide, close, re-centre, add; `paper open` by hand |
| Measured fees | `exec/src/binfees.ts`, `fees.ts`, `paper.py claim_accrual` | `bin_fees`, `paper_fee_checkpoints`, `claim_*` | copy accumulators from the chain; credit what they gained |
| Intent queue | `exec/src/index.ts, db.ts, guards.ts`, table `intents` | status of every intent | claim, check limits, simulate, resolve |
| Transactions | `exec/src/dlmm.ts, jupiter.ts`, `zapout.py` | none | build, simulate, quote |
| Retention | `migration_010_retention.sql`, called by `db.py roll_up_prices` | `prices`, `prices_hourly` | fold raw rows into hourly candles, drop rows older than a week |
| Commands by hand | `main.py`, any command in a second process | an open transaction | `paper mark`, `manage`, `paper open`, `redflags` beside the worker |
| Launchd scripts | `scripts/run_ingest.sh, run_poll.sh` | a lock directory | run one ingest at a time (instead of the worker) |
| Dashboard | `web/` | none | read-only queries, HTML |

How they interact: the worker is one thread and runs, on a wall-clock grid,
`poll` (insert prices, then mark every open position) and `pipeline` (ingest,
backfill, volatility, red flags, manage, roll-up). Each command is one database
transaction (`db.session`): an exception or the death of the process rolls it
back. Operators run the same commands by hand. `memet-fees` is a process of its
own that writes `bin_fees`; marks read it. `cmd_manage` inserts intents; any
number of executors claim them.

What is hard: marks are stamped with the time of a price row that may be old or
used twice; `cmd_manage` reads money and exposure once and then changes both;
a fee sync writes what it read earlier, in several statements; executors check
limits against a count that others change; two sessions write the same row from
what each of them read; two ceilings on the same weights undo each other;
processes die and are started again anywhere. `PROJECT.json` lists these places one by one, at their lines, with the
property that would notice.

What makes each component correct:

* **Scheduler**: no slot runs twice, a missed slot is made up for, the process
  gives up for one reason only, nothing begins after a signal.
* **Marking**: clock, flags, counters and fee hours of a position can be
  recomputed from its marks, and each of its bins holds the token its side of the
  price calls for, whatever path the price took.
* **Commands by hand**: two sessions over one row may lose an update, but count
  nothing twice, forget nothing that must stay, and close a position once.
* **Retention**: candles lose nothing of the rows that were dropped.
* **Management**: chains of re-centrings are sound, the log explains the book,
  intents are committed decisions, the budget survives a whole loop of additions,
  and none of them is in a token that was held when the book was sized.
* **Measured fees**: nothing credited twice, and nothing passed over but in a bin
  or a position that is empty.
* **Intent queue**: one executor per intent, one answer, ceilings kept.
* **Allocation**: both ceilings hold whenever they can, without flattening the
  ranking or leaving money idle that could carry a position.
* **Red flags**: a pool that turned bad is neither opened nor kept.
* **Lock of the scripts**: one run at a time, and no lock that lasts for ever.

## The modules

| Module | Models | Extends or composes |
|---|---|---|
| `PaperMark` | polls, openings, marks and closings in one pool; `exits.evaluate`, `paper.walk` | |
| `BookRace` | marks and closings by several sessions at once, statement by statement | extends `PaperMark`, and instantiates it once per session (`View`) |
| `PaperMarkProofs` | theorems about both | `BookRace` |
| `BookJournal` | what the table `actions` promises about the book: an append-only journal | |
| `PaperBook` | `cmd_manage` as a transaction, `actions.decide`, `paper open` | refines `BookJournal` |
| `PaperBookProofs` | theorems about it | `PaperBook` |
| `Sizing` | `plan_book`, `plan` and `geometry`: the plan that `PaperBook` takes as a free choice | |
| `SizingProofs` | theorems about it | `Sizing` |
| `IntentLedger` | what the table `intents` promises, in five states per intent | |
| `ExecQueue` | the executors, await by await | refines `IntentLedger` |
| `ExecQueueProofs` | theorems about it, the refinement among them | `ExecQueue` |
| `FeeClaim` | fee syncs and the credits of the marks | |
| `Screening` | the pipeline around `cmd_redflags`, and what a blocked pool does to the book | |
| `ScreeningProofs` | theorems about it | `Screening` |
| `Retention` | polls and `roll_up_prices` over one pool's series | |
| `ChainDataProofs` | theorems about both stores of what the chain was asked: `FeeClaim`'s accumulators and `Retention`'s prices | `FeeClaim`, `Retention` |
| `Worker` | `Worker.run` and `Task.run` under pm2 | |
| `WorkerProofs` | theorems about it | `Worker` |
| `SumTheorems` | lemmas about sums over finite sets | used by the proofs about `Sizing`, `PaperBook`, `ExecQueue`, `PaperMark` and `Retention` |
| `MC...` | constants for TLC | the module they are named after |

Operators whose comment starts with "Variant" (or "variant:") are changed copies of the definition below
them, the way a plausible bug would change it. Nothing uses them; `PROJECT.json`
("mutants") says which property notices each of them when it takes the place of
the original.

### PaperMark

`price` is the newest row of `prices`, `row` the table `paper_positions`,
`marks` the table `paper_marks`. `Tick` is time, `Poll` is `cmd_poll`,
`OpenPosition` is `_open_paper`, `ClosePosition` is `close_position`,
`PaperMark` is `_paper_mark`: every open position in one transaction. `Marked`
is one turn of its loop and names what the row becomes; `MarkRows` is the insert
that ignores a second mark with the same time. Nothing orders `Poll` before
`PaperMark`: a poll can bring no row for a pool, and `paper mark` can be run by
hand. Hours stand for time, bins keep their order, and a flank is a position
with an offset larger than half its width. Amounts and dollars are not there;
`feeHours` is what `fee_accrual` was handed while in range, and `legs` says which
token each bin holds: `Deposit` is what `open_position` puts there, `Walk` is
`paper.walk`, which converts from the bin behind the one the price leaves to the
one it reaches. `LegsFollowPrice` says of every bin the price only jumped over,
in any number of jumps back and forth, that it holds what the header of
`paper.py` says; `Landed` and `FilledRight` name the two kinds of bins of which
that is not true (below, "What the code does not keep").

### BookRace

The worker marks and manages in one thread; the README of memet says "Run exactly
one worker", and yet every command can be typed beside it. A session is one
transaction: `Begin` opens its cursor, `ReadFirst` and `ReadMarks` are the
queries for one position (`latest_price` and `max(ts)` for a mark,
`position_for_action` and `latest_mark` for a closing), `WriteMark` and
`WriteClose` are the UPDATEs, and `Commit` makes them public. `own` is what the
transaction has written, and also its row locks (`Free`). What a mark computes is
`PaperMark`'s `Marked`, evaluated by `View(s)` over the row as the cursor saw it
and the price row and marks as the session read them; what the UPDATE does with
it (`Written`) keeps of the row as it is by then its status, its `entry_sigma` and
its `ever_in_range`, and overwrites the rest. `Closes` is the guard
`closed_at IS NULL`. Openings, polls and time belong to the environment.

So an update can be lost: two marks over one price row credit its hours once or,
if the older reading is written last, some never. That is not forbidden, and not
everything `PaperMark` promises survives it: with two sessions
`HardExitIsSustained` and `TransitionsCounted` fail (both were tried; a clock that
the mark that lost had reset goes on from where it stood). `LegsFollowPrice`,
`FlankMayWait` and the types hold in the checked instance. The properties say
what holds: nothing is counted twice, `ever_in_range` forgets nothing, and of two
closings the first keeps its figures. Two managers still log a closing each and
can open two heirs, and a mark can land on a position that the other session has
closed meanwhile.

### PaperBook

`pos`, `log`, `intents` are the committed tables `paper_positions`, `actions`,
`intents`; `wpos`, `wlog`, `wintents` are the same tables as the open
transaction sees them. `Begin` is the head of `cmd_manage`; `Hold`, `Close` and
`Rebalance` are the three verbs of `actions.decide` for one row of the cursor;
`SizeBook` reads free capital and exposure and plans; `Skip` and `Add` are turns
of the loop over the plan; `Commit` and `Rollback` end the session. `MarkBook`
is `_paper_mark` as far as `cmd_manage` can see it, between two transactions,
because the worker is one thread. `ManualOpen` is `paper open`: a process of its
own, visible to the open transaction at once (READ COMMITTED). `nextId` is an
identity column: it is not rolled back.

What is read from scores and prices at the moment of use is a free choice:
whether a position is spent, whether re-centring pays, what it redeploys, and
which plan the allocator makes within count, floor and exposure.

`BookJournal` is the same book for somebody who reads only what is committed. It
has two variables: `journal`, the entries (`log`), and `book`, what `Facts` keeps
of a row: state, pool, capital, generation, parent, and whose it is; neither marks
nor the flag of a mark. A position appears by hand, without an entry, or a
transaction appends entries, and then each entry is true (`Done`), no two speak of
one position, and every position that none of them names is as it was. So a
commit, which publishes dozens of statements, is one step, and everything that a
transaction reads, tries or gives up before is none.

### Sizing

One step per turn of a loop of `plan`: `BeginSleeve`, `TooMany` and `Weigh` are the
head of the search for the largest count, `ClipTokens` and `ClipPositions` the two
calls of `clip` in a round, `Shrink` starts over with one position less, `Settle`
and `GiveUp` return, and `plan_book` goes on with the other sleeve. `Geometry` is
the choice of width and shape for a position about to be opened.

Weights are whole parts of `Unit`, 8!, so that the shares of up to eight
candidates are exact. Every division rounds down (what is trimmed rounds up), so
a sum can fall short by some parts per round; `Slack`, a hundredth of `Unit`, is
far above that and far below what the mutants change. Books are chosen so that
each ceiling binds alone, both bind, and neither can be kept: up to four pools of
up to three tokens with Kelly numbers from 1 to 6, three pools in any sleeves
with one unusable, eight tokens of one pool each. With six tokens or fewer the
token ceiling is 1/T of the tokens T, so it forces equal shares per token; the
eight tokens are there for the case where 15 percent binds for some and leaves
room for others.

### Retention

`raw` is `prices`, `candle` is `prices_hourly`, `ever` is history. A poll takes its
time stamp at its start and inserts later; `roll_up_prices` is the SQL function of
that name: fold every past hour that still has rows, then drop what is older than
`Keep`. Nothing says how often it runs. The worker is one thread, so a poll is not
under way while it does; a poll typed by hand could insert into an hour that was
just folded, and then `open` would stay as it was (not modelled). The candle's
`n_obs` is not part of the promise: every roll-up replaces it by the number of
rows it still sees.

### ExecQueue and IntentLedger

`row` is the table `intents`. Each executor has a program counter: `Lock` and
`Claim` are the two statements of `claim` (the row lock lasts until the commit),
`ReadWindow` is `spendWindow`, `Check` is `guards.check`, `Build` the `try` block,
`Resolve` the update, `ResolveThrows` the same update when its reply is lost (the
`catch` block then resolves again), `Crash` the end of the process at any of
these places, `Start` somebody starting it again. `Record` is `record_intent`;
its time is the start of the writing transaction, so an intent may appear with
an older time than one already there. An amount is `capital_usd`,
`new_capital` or `value_usd`, but only `capital_usd`, which opens have, enters
the day's sum. No intent that the engine writes carries `position_pubkey`, so a
close is rejected unless something throws.

`IntentLedger` says what the table is for: every intent is submitted once, taken
by one executor at most, and settled or orphaned by that one. `LedgerSpec` is
the refinement: `StateOf` and `HolderOf` map the row and the executors.

### FeeClaim

`chain` is the pool's accumulators, `table` is `bin_fees`, `syncing` what a run
of `sync` has read and still has to write. `Fetch` reads, `Upsert` writes the
next chunk (a bin here), `SyncFails` is the exception that `tick` catches or the
end of the process. Several runs can be under way at once, and the later writer
wins. On the chain a bin earns (`Earn`) while it has liquidity (`Drain`,
`Refill`), and its account may be initialised again (`Reinit`). `Mark` credits
`Delta` and saves `Checkpoint` for every open position in one transaction.

`Delta` is 0 where `claim_accrual` skips a bin: without a row or a checkpoint,
without liquidity (`liq`), or when the position has nothing in it (`empty`: a
position that a rebalance opened with nothing, for which `ours` is 0). The
checkpoint moves on all the same, so what such a bin gained is never credited;
`passed` counts it. What is left out is how much of the rest is the position's:
`claim_accrual` multiplies a gain by the share the position would have in the bin
at that mark, and rounds down twice. So `claim` counts what was multiplied, not
tokens: that a gain is multiplied once is what the properties say, and the factor
itself, taken at the mark for the whole interval, is the code's own estimate.

`life`, `first`, `passed`, `slip`, `dry` and `reinit` are history: what the code
does not know but the properties speak of. `slip` is how far overlapping syncs put
the row of a bin back: what the older reading had not earned yet, or had not
forgotten yet in a re-initialisation. With one sync at a time it stays 0, and
`CreditedOnce` and `Telescopes` are the plain statements.

### Screening

`venue`, `prices` and `mint` are the world: what the datapi says of a pool, what
its price series shows, how its token is configured. `listed`, `score`,
`facts`, `age` and `blocked` are columns: `pools.is_blacklisted`, the newest row
of `scores`, the mint facts of `tokens` with the hours since `mint_checked_at`,
`pools.blocked`; `held` and `fatal` are the open positions and the reasons the
last mark left with them. `pc` is the next stage of a pass: `Fetch` and
`Persist` are the two halves of `cmd_ingest` (vendors first, one transaction
after), `Volatility` is `cmd_backfill` and `cmd_volatility`, `RedFlags` and
`Manage` are the commands of that name. `PassFails` ends a pass anywhere, as an
exception in `cmd_worker.pipeline` does: the stages behind are skipped.
`MarkAll` is `_paper_mark`, between two passes in the worker, at any time by
hand; `RedFlagsByHand`, `ManageByHand` and `OpenByHand` (with `--force` or not)
are the operator. Each stage is one step, because each is one transaction and
the worker one thread; two managers at once are not modelled here.

Of the edge a fee above, at or below the loss to volatility is left: `Pays` is
`edge_lvr_pct > 0`, `Loses` is `< 0`, and without a sigma neither holds. Which
pools have a series long enough for one is a free choice, each time. The
structural flags of `redflags.evaluate` that do not follow from the edge are
three, because what matters for a block that must be lifted is where their cause
is kept. `thin` (`mcap/tvl` of a token of few venues) is in the row that an ingest
writes, and stays as it was while the gates drop the pool. `wild` (a sigma that no
fee tier covers, or a turnover below what it asks for) is in the same row, but
only once there is a sigma; `cmd_volatility` may write it later. `fallen` (far below the
peak, or down over 72 hours) is read from the prices at that moment, if there are
twenty of them (`Watched`). `Unblocks` has all of them in its premise (`Sound`): a
pool of which one stays true may stay blocked, and should. What the allocator funds and what `decide` closes for other reasons
are free choices too. `dirty` is history: for how long a token has been hostile.

### Worker

`pc` is where the thread stands: in the head of the loop, in a pass over the due
tasks, in a run, or gone. `Look` computes the due list, `RunNext` starts its
first task (the test of the flag and the call of `run` are one step: a signal
between the two finds the run begun), `Succeed` and `Fail` end a run and align the
next slot, `Signal` sets the flag at any point, `Kill` and `Start` are pm2 and the operator. Time
passes in any state, so a run can last over several slots.

## The runs

| Run | Instance | What it shows |
|---|---|---|
| `paper_mark` | one position, three bins of price, range of half-width 1, offsets 0 and 2, soft after 1 h, hard after 3 h, 4 h | type, `HardExitIsSustained`, `FlankMayWait`, `TransitionsCounted`, `NoHourTwice`, `LegsFollowPrice` |
| `book_race` | two sessions over one position, range of one bin, two bins of price, 2 h | `NothingTwice`, `EverInRangeKept`, `FirstClosingStands` |
| `paper_book` | one pool, three positions, one generation, intents on, two slots | `Lineage`, `AuditTrail`, `IntentsMatchBook`, `JournalSpec` |
| `paper_book_budget` | two pools of one token in two sleeves, three positions, one generation | `AddsFitBudget`, `AddsNewTokens` |
| `sizing` | the ceilings of `sizing.py`; the books above; widths cut at 14 bins | `CapsKept`, `KellyKept`, `NeverEmpty`, `ShapeFromWidth` |
| `exec_queue` | two executors, two intents, one crash, lag of one tick | `ClaimExclusive`, `LedgerSpec`, `Taken`, `Answered` |
| `exec_queue_limits` | two executors, three intents, two clock values, 1 per hour, $2 per day | `HourBound`, `DayBound` |
| `fee_claim` | two syncs that may overlap, one position, two bins, two events on the chain (a swap, a bin drained or filled again, a re-initialisation) | type, `CreditedOnce`, `Telescopes`, `CatchesUp` |
| `screening` | one pool, mints read again after one hour, the changes of venue and prices listed in `MCScreening`, any of the mint | type, `CandidatesVetted`, `HostileLeaves`, `Unblocks` |
| `screening_blacklist` | the same | `BlacklistRefused` fails |
| `retention` | an hour of three ticks, a week of four, two prices, nine ticks | `SeriesPreserved` |
| `worker` | two tasks every 2 and 3 ticks, 8 clock values, two failures allowed | type, `OncePerSlot`, `GivesUpWhenBroken`, `DueRuns`, `Obeys` |

Why the bounds are enough. Positions do not influence each other in `PaperMark`,
so one is all positions; four hours take a position into its range, out of it,
through both thresholds and back, and three prices jump over the bin between
them. In `PaperBook` three identities are a position,
its heir and an addition, or two additions beside a manual one; one generation
reaches the limit of the chain and the closing behind it, and in the second run
lets an heir of the same transaction hold the token an addition asks for. Two
executors and two
intents are every race for a row; three intents and two executors are what it
takes to overrun the hourly ceiling by more than one. Two bins are a chunk before
and a chunk after a mark; two syncs are an older and a newer reading, and two
events put something between the readings and something after them. Three events
on two bins and four on one (safety only) were checked as well; they take longer
and find no more. In `Screening` nothing relates two pools (the allocator
could, but its choice is free), so one is all pools; an hour of `MaxAge` makes a
mint be read, be believed once, and be read again; a day behaves the same. A thin
pool pays nothing in the run, so that `thin` decides alone only while no sigma is
known; an instance in which the two vary on their own passes as well. The
grids of 2 and 3 meet within the eight clock values, and a run can last past two
slots of either. In `BookRace` a lost update takes two sessions and one row; a
third price row (`MaxNow` 2) is what a stale write can be one behind of, and
nothing new appears with a fourth, which also passes. `Bad` is `{FALSE}` there:
the state of the pool raises a flag and touches none of the three properties. In
`Retention` three rows make an hour of which a later roll-up can see three, two or
one. `MaxBins` is 14 instead of 1400 in `Sizing`, so that some widths reach the
limit; the theorem has no such bound.

The clocks, identities, crashes and re-initialisations are bounded by constants
(`MaxNow`, `MaxPid`, `MaxMoney`, `MaxCycle`, `MaxId`, `MaxClock`, `MaxLag`,
`MaxCrash`, `MaxMoves`) in the guards of the environment's actions
(`Screening` needs none: ages stop counting above `MaxAge`, and `Offers` and
`Courses` list what the venue and the prices may be);
`MaxPid` also stops `Add` and `Rebalance` (which can then still open nothing).
`MaxBins`, `MaxPositions` and `Rounds` are limits of the code.

Deadlock is checked in every run but `sizing`, which ends where `plan_book` and
`geometry` return: none of the other models stops, because a mark, a halt file, a
new transaction, a poll or a restart is always possible.

### Fairness

* `ExecQueue`: weak fairness of the steps of each executor. The loop of a running
  executor has no other way to go, and every call it awaits returns or throws.
  Starting an executor again is not fair: nothing supervises it. So `Taken` ends
  with "or every executor has stopped".
* `FeeClaim`: the worker marks for ever and the interval timer starts syncs for
  ever (weak fairness); a run of `sync` may fail every time it is tried, but not
  for ever at the same chunk (strong fairness of `Upsert`). Without the last
  assumption a chain of failing syncs would credit nothing, as in the code.
* `Screening`: time goes on and the worker starts a pass again and again
  (`Worker`'s `DueRuns`); a stage may fail every time it is tried, but not for
  ever (strong fairness of the four stages and of the mark). The code gives up
  after ten failures in a row instead, and pm2 starts it again. The world and
  the operator are not fair: `HostileLeaves` and `Unblocks` hold whatever they do.
* `Worker`: weak fairness of the loop. Every call of a task returns or raises;
  HTTP has timeouts, database and chain calls are assumed to have them too.

## What is proved

The proof modules follow the same line: an inductive invariant, one lemma for
the initial states, one per action, and the properties as consequences. They
hold for every value of the constants that satisfies the module's named
assumption. Two of the assumptions are about data: the candidates of a sleeve are
finitely many (rows of a query), and in `PaperBook` a rent is not zero
(`POSITION_RENT_SOL` times a price of SOL, `sizing.py:30,117`), without which a
floor of zero would let additions go on when nothing is free.

**SumTheorems.** Counters and ceilings are sums over sets, and the prover has no
induction over an operator. What takes its place is `Smallest`: among the subsets
of a finite set for which something is false there is a smallest one; it is not
empty, and taking one element out of it gives a smaller one. So `SumRemove` (the
element that is taken out does not matter), `SumMonotone`, `SumPlus`, `SumScale`
and `SumShares` (shares of an amount, each rounded down, come to no more than the
amount) are shown, each with the set it fails for written out.

**PaperMarkProofs, one session.** The properties speak of the set of all marks,
the code only of the newest values in the row. `MarkInv` says what the row knows
about the marks: all marks are at or before the price row and the clock;
`outSince`, when set, is the time of a mark from which on every mark is on side
`outSide`; `ever` means there is a mark in range; the fee hours fit between two of
the times in `Starts`; `last_active`, from which `walk` starts, is a bin the price
stood in at the opening or at a mark, so what a walk leaves unconverted is never a
bin the property speaks of; and (`Counted`) `rebals` is the number of exits among
the marks while `was_in_range` is the side of the newest. From it follow
`TypeCorrect`, `HardExitCorrect`, `FlankCorrect`, `FeeHoursCorrect`, `LegsCorrect`
and `TransitionsCorrect`. The last one rests on lemmas about sets of marks: a mark
that is appended makes an exit exactly if the one before it was in range
(`ExitsAppend`), and a mark with a time that is there already makes none.

**PaperMarkProofs, several sessions.** A cursor is a snapshot and a row may change
under it, so `RaceInv` speaks of what a session has read as well as of the table.
All price rows of one time that any session or mark remembers are the same row
(`OneQuote`), so the second mark of one time, which the table drops, would have
said the same. The row locks are sessions that own disjoint rows. A row a session
has marked has the `ever_in_range` of the committed row or of its one new mark; a
row it has closed was open and has exactly one entry; and an entry that is
committed is of a closed row whose figures are its own. From it follow
`EverCorrect` and `FirstClosingCorrect`, for any number of sessions.

`OnceCorrect` (nothing counted twice) needs to know what a stale row can be worth.
With several sessions the counter is no longer the number of exits, and what the
table says of a row may be older than its newest mark. `OnceInv` says instead that
every version of a row, in the table, in a cursor or written and not yet committed,
is as the opening left it or was written by one mark (`Authored`, `MadeBy`): its
counter is at most the number of exits up to that mark, it claims to be in range
only if that mark was, and its fee hours end there. A mark over a stale version then
adds an exit only if its author was in range and the price row is out: between the
two there is an exit that the author has not counted, whoever else marked meanwhile
(`ExitsBetween`). A commit adds marks to the past of other versions, which takes
nothing from them (`AuthoredMore`).

**SizingProofs.** A width that the limit of bins has not cut covers the target of
its sleeve, because the division rounds up (`CeilDivCovers`, `WidthCovers`); two
daily sigmas are then above the threshold of "curve", one is above that of
"spot". `ShapeCorrect` says so for any volatility, bin step and limit.
`NInv` follows the search for a plan: as long as a sleeve has the money for one
position and a candidate, the count never falls to zero, because one candidate has
the whole weight, no ceiling trims it, and its money is what can be deployed
(`OneAboveFloor`). So `NeverEmptyCorrect`. `SharesInv` says that the weights are
shares of no more than the whole at every step: Kelly's shares are (`KellyShares`),
and a clip gives to the others no more than it took (`ClipShares`), which needs
groups that share nobody. With it `SpendingCorrect`: what the positions of a sleeve
are told to take, and their rents, stay within the sleeve's part of the budget
(`BudgetKept`, of which the run sees the weights as the upper half of the first
line of `CapsKept`). The code's weights are floats, so there the bound holds up to
their rounding.

**PaperBookProofs.** The properties speak of the committed tables, but every
statement changes the session's view, so `IInv` carries `LineageIn`, `AuditIn`
and `IntentsMatch` for both, and ties them together: outside a transaction they
are equal, inside it the view extends the committed tables (rows only go from
none to open to closed and keep pool, parent and generation; log and intents
only grow), identities from `nextId` on are unused, and the cursor holds open
positions that no entry speaks of yet. From it follow `TypeCorrect`,
`LineageCorrect`, `AuditCorrect` and `IntentsCorrect` (the type invariant has no
run of its own). `TokenCorrect` has a second invariant, `Apart`: before the book is
sized the transaction has added nothing, and afterwards neither what it added nor
what the plan still holds is in a token of what was there. It says nothing of two
additions of one transaction, which can be in one new token (below).
`BudgetCorrect` has a third, `Fits`: while positions are added, what they and their elders bind and what is still
free fit the budget together, unless nothing was free and nothing is added. The
elders are those the sizing has seen; a position opened by hand meanwhile is not
among them, and closing is over by then.

`JournalCorrect` is the refinement. `IInv` is not enough for it: that a log
explains a table (`AuditIn`) does not say which change belongs to which entry of
this transaction. `Pending` says so at every statement: each entry that is not
committed yet is true of the committed rows on one side and the session's rows on
the other (`DoneIn`), and a row that none of them names is the same on both.
`PendingMore` is the step that adds an entry and changes the rows it names; a row
opened by hand appears on both sides at once, and a commit or a rollback leaves
nothing pending. `CommitMaps`, `ManualMaps` and `MarkMaps` map the only steps that
change what is committed: to a transaction, to an opening by hand, and to no step
at all. The theorem is about one manager: with two at once both log a closing of
one position (`BookRace`), which is why "exactly one worker" matters.

**ExecQueueProofs.** `IInv` is `ClaimExclusive` with the types it needs: jobs and
stages agree, two executors never have the same job, the status of a row is
what the stage of its holder says, and each crash leaves one orphan at most.
From it follow `OneExecutorEach` and `LedgerCorrect`, the refinement: the ledger
sees of an intent its holder and, where there is none, its status, so a step
that changes those for no intent is a stutter (`Stutter`), and `Record`, `Claim`,
`Resolve` and `Crash` change them for one intent (`OneMoves`), as `Submit`, `Take`,
`Settle` and `Abandon` do. `HourCorrect` needs one idea more: an executor that has
passed, or will pass, on the window it read counts like an intent it has already
simulated. That sum is at most the ceiling plus all other executors when a window
is read below the ceiling, and no other step makes it grow. `DayCorrect` has the
stronger result, no overrun at all: `DayKept` bounds what has passed the check, or
is about to. Only the reading of a window lets an intent pass; that window counted
every intent of the day whatever became of it, the intent itself and all that had
passed among them. `TypeCorrect` includes the sums in `seen`.

**ChainDataProofs, fees.** A row overwritten by an older one is what makes the
invariant, for any number of overlapping syncs. `Cell` speaks of one bin of one
position, and of `n`, what its marks have found gained, credited or not: `n` is at
most what the bin earned from the first checkpoint to the last one, and also what
it earned from there to the row as it stands now, and also the first of these less
what the row has not forgotten yet of re-initialisations, each up to `slip`. The
last two are what a mark needs, and what an upsert keeps because it adds to `slip`
how far it puts the row back (`CellUpsert`, `BackIs`); a mark adds at most the
difference of the accumulators (`CellMark`, `GainIs`). `RowsOK` says of every row,
on the chain, read or written, that it has forgotten something only after a
re-initialisation and lacks liquidity only in a bin that has been dry; `PassedOK`
that only an empty position or such a bin was passed over; `PlainOK` that without a
re-initialisation a checkpoint is all the bin has earned. From it follow
`NoFeeTwice` and `NoFeeLost`, without an assumption about the number of syncs.

**ChainDataProofs, prices.** `CandlesComplete` compares a candle with the rows the
hour ever had, of which a roll-up sees what is left. `SeriesInv` says what that is:
no two rows have one time (`Dated`), and with a row all newer ones are still there
(`NewestOf`). `Edge`, the stamp of the poll under way or else the clock, is a time
that no row is after, that every dropped row is before, and that lies in a later
hour than every candle, so no row can still come into an hour that was folded. So a
roll-up either sees an hour whole, and its candle is the true one, or sees the
newest part of an hour that has a candle. Then the open stays, the close is that of
the newest row, which is still there, and the highest of the old high and the new
rows is the highest of all (`MergeKeeps`). `Keep >= Hour` is what makes it true: a
roll-up drops no row of an hour it could not fold. That the first, last, highest and
lowest of a set of rows exist comes from `Smallest` (`Least`), without induction.

**ScreeningProofs.** `OnlyVetted` rests on two facts that no single stage knows: a
token read as clean has been hostile for no longer than its facts are old, and
when a pass comes to `cmd_manage` every known pool has facts of the last `MaxAge`
hours and is blocked if they are hostile. The second one survives everything that
can happen between the red flags and the management of a pass, commands by hand
included.

**WorkerProofs.** `IInv` adds four facts to `OncePerSlot`: every recorded run lies in
a slot up to the present one, a task that does not run waits for a slot after its
last one, what a pass found due still is, and `failures` counts failures in a row,
fewer than the limit while the process is up. `OneRunPerSlot` is then arithmetic of
the grid (`SlotRange`, `SlotMonotone`), `GivesUpRightly` a consequence of the count.

Only model-checked:

* `CapsKept` and `KellyKept`: they hold up to `Slack`, and for the 60 rounds of
  the loop; with coarser units or fewer rounds they need not, and how fast the two clips
  converge is not something an inductive invariant says;
* `Taken`, `Answered`, `CatchesUp`, `DueRuns`, `HostileLeaves`, `Unblocks` and the
  half of `Obeys` that says the process ends: liveness, out of reach of the prover.
  The other half (nothing begins between the signal and the end) is checked with it.

## What the code does not keep

One run ends in a violation; it refutes a sentence of the repository and is the
finding in `PROJECT.json`.

* `BlacklistRefused`: the gates drop a blacklisted pool (`gates.py:12`) before
  `upsert_pool` can write the column that the red flag "meteora-blacklist" reads.
  A pool the venue blacklists after it was ingested keeps its last score and
  stays tradeable.

Seen while modelling, without a run of their own. In the marks and the book:

* fees are counted from the price row of the first mark even when that row is
  older than the position (`main.py:309-311`); `NoHourTwice` therefore starts at
  the opening or at the first mark;
* a position in a pool that was held before takes its first checkpoint from an old
  row of `bin_fees` and is credited the fees since that row (`paper.py:152-160`),
  which were earned by somebody else;
* `actions.decide` re-centres a flank that has never been in range
  (`actions.py:76`), although `exits.py:60-62` wants it to wait;
* "each bin it crosses converts" (`paper.py:7-10`) is not true of the bin the price
  leaves: `walk` starts one behind it (`paper.py:92`), so the bin of an earlier
  mark keeps the leg it had; and the bins of a flank between its centre and the
  price are filled with the wrong leg at the opening and only convert when crossed;
* the gain of a bin that has no liquidity when it is marked, or of which the
  position has nothing, is not credited and its checkpoint moves on
  (`paper.py:168,176`, `main.py:326`): a bin that was drained after it earned loses
  what it earned since the last mark, for good, although `main.py:321-322` says that
  the next checkpoint picks the accumulator up where it left off. `Telescopes` says
  that nothing else is lost;
* a sync that overtakes another puts rows back, and the difference is credited a
  second time (`fees.ts:31`); `slip` in `CreditedOnce` is how much;
* `held` is not kept up to date while positions are added (`main.py:550`), and a plan
  may hold several pools of one token, in one sleeve or in two (`sizing.py:181-183`
  caps their sum): if nobody held it, one run can add them all. `AddsNewTokens` speaks
  of the tokens held before;
* a re-centred position may be smaller than the position floor, or have no heir at
  all;
* the intent of an addition carries the shape and width of the command line
  (`main.py:593-594`), not the ones that `geometry` chose (`main.py:577-579`);
* when the two ceilings of an allocation cannot both hold, the comment says that
  "the token cap wins and the breach is reported" (`sizing.py:190-197`): three pools
  of tokens A, A, B with equal Kelly numbers end with 65 percent in A, whose
  ceiling is 50, and only positions above the other ceiling are ever reported
  (`sizing.py:226`);
* `prices_hourly.n_obs` shrinks while the hour's rows are dropped;
* `actions` lists "open" among its kinds (`migration_008_actions.sql:13`), and
  nothing writes one: a position opened by hand is in no entry, so the journal
  accounts for what the engine did, not for the whole book (`OpenByHand`).

In the rest: two executors can both pass the hourly check on the same count, so
the queue alone does not keep the ceiling (`HourBound` says how far it is missed);
`redflags.is_hard` counts "collapsed-" and "down-" as facts about the token, though
they are structural; an open repeated in one pool and slot has no intent; the
amount of an open counts twice against the daily ceiling; a SIGTERM during the tenth
failure exits 1, not 0.

## Not modelled

Formulas without control (scores, sigma, fee rates, rebalance costs, the Kelly
number of a candidate), the dashboard, HTTP and the SDK calls of the executor.
Their results enter as free choices where the models use them. SQL views have no
state; a model that reads one reads the tables behind it. A race of two allocations
or of two re-centrings (two heirs), the claims of a mark beside another mark, and
the lock of the launchd scripts are in the plan.

## Plan

Done are the first nine, 11 and 13.

1. `PaperMark` and its proofs: the flagship numbers of the book rest on it, the
   legs of its bins included.
2. `PaperBook` and its proofs: the transaction that moves the money.
3. `IntentLedger`, `ExecQueue` and their proofs: the boundary to execution.
4. `FeeClaim` and its proofs: two processes over one table.
5. `Worker` and its proofs: the frame everything runs in.
6. `Screening` and its proofs: what may be in the book at all.
7. `Sizing` and `SizingProofs`: how much of it.
8. `BookRace` and its proofs: two sessions over the same rows.
9. `Retention`: the roll-up of prices against the series that volatility reads.
10. `IngestLock`: the lock directory of `run_ingest.sh` with a stale lock.
11. `BookJournal`, the abstract book that `PaperBook` implements. Done. One step
    further would be money: capital is conserved up to marks, with `Screening`'s
    candidates and `Sizing`'s plans instead of free choices.
12. In `BookRace`: the allocation of two managers at once, over the openings of
    `PaperBook`.
13. Proofs: `CandlesComplete` (`Retention`) and `JournalCorrect` (11). Done.
