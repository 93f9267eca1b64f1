----------------------------- MODULE PaperBook -----------------------------
(***************************************************************************)
(* The paper book under management: ingest/main.py cmd_manage, _open_paper *)
(* and cmd_paper_open, with ingest/actions.py decide.                      *)
(*                                                                         *)
(* cmd_manage is ONE transaction (db.session): it walks the open positions *)
(* that have a mark, closes or re-centres some of them, then adds new ones *)
(* from the allocator's plan, and commits.  An exception, or the death of  *)
(* the process, at any point rolls all of it back.  So the model keeps the *)
(* committed tables and, beside them, the session's view of the same       *)
(* tables; only a commit makes the view public.  The worker is one thread, *)
(* so marks fall between two transactions; `paper open` is a process of    *)
(* its own, and what it commits is seen by the open session at once (READ  *)
(* COMMITTED).                                                             *)
(*                                                                         *)
(* Abstracted: what a mark computes (PaperMark) to where it found the      *)
(* price; whatever is read from scores and prices at the moment it is used *)
(* to a free choice there; Kelly weights to any plan that respects the     *)
(* count per sleeve and the floor per position; dollars to small whole     *)
(* numbers.                                                                *)
(***************************************************************************)
EXTENDS Integers, FiniteSets, Functions

CONSTANTS
    Pool,         \* pools the book trades in
    MintOf,       \* base mint of each pool
    SleeveOf,     \* "core" or "satellite": sizing.classify
    Share,        \* core and satellite shares, in percent
    MaxPositions, \* --max-positions
    Budget,       \* --budget, 0 disables adding
    GasBuffer,    \* sizing.GAS_BUFFER_USD
    Rent,         \* sizing.rent_usd
    Floor,        \* sizing.min_position
    Sizes,        \* dollars the plan can put into one pool
    Values,       \* dollars a re-centred position can redeploy
    MaxGen,       \* actions.MAX_GENERATIONS
    EmitIntents,  \* --emit-intents
    MaxPid,       \* bound: identity values handed out
    MaxMoney,     \* bound: dollars in open positions
    MaxCycle      \* bound: pipeline slots

ASSUME PaperBookAssumption ==
    /\ Pool # {}
    /\ MintOf \in [Pool -> Pool]
    /\ SleeveOf \in [Pool -> {"core", "satellite"}]
    /\ Share \in [{"core", "satellite"} -> Nat]
    /\ MaxPositions \in Nat /\ Budget \in Nat /\ GasBuffer \in Nat
    /\ Rent \in Nat \ {0} /\ Floor \in Nat
    /\ Sizes \subseteq Nat /\ \A s \in Sizes : s >= Floor
    /\ Values \subseteq Nat
    /\ MaxGen \in Nat
    /\ EmitIntents \in BOOLEAN
    /\ MaxPid \in Nat /\ MaxMoney \in Nat /\ MaxCycle \in Nat

VARIABLES
    pos, log, intents,     \* committed: paper_positions, actions, intents
    wpos, wlog, wintents,  \* the same tables as the open session sees them
    phase,                 \* where cmd_manage stands: "idle", "decide", "add"
    todo,                  \* rows of its cursor not decided yet
    funded,                \* pools the allocator would fund, its yardstick
    plan,                  \* allocations not tried yet
    free,                  \* dollars it may still commit
    nextId,                \* identity of paper_positions; never rolled back
    cycle,                 \* int(time.time() // 900)
    late                   \* history: opened by hand since free was read

committed == <<pos, log, intents>>
view      == <<wpos, wlog, wintents>>
control   == <<phase, todo, funded, plan, free, late>>
vars      == <<committed, view, control, nextId, cycle>>

Pid   == 1..MaxPid
NoPid == 0
Side  == {"in", "above", "below"}

(* MintOf maps a pool to a representative pool of its token. *)
Row == [ status : {"none", "open", "closed"},
         pool   : Pool,
         capital: Nat,
         gen    : Nat,
         parent : Pid \cup {NoPid},
         auto   : BOOLEAN,
         side   : Side \cup {"unmarked"},
         ever   : BOOLEAN ]

LogEntry == [ kind : {"close", "rebalance", "add"},
              pid  : Pid \cup {NoPid},
              new  : Pid \cup {NoPid} ]

(* (kind, pool, cycle, key) is dedupe_key; position is position_id. *)
Intent == [ kind : {"close", "rebalance", "open"},
            pool : Pool,
            cycle : Nat,
            key  : Pid \cup {NoPid},
            position : Pid ]

Absent == [ status |-> "none", pool |-> CHOOSE p \in Pool : TRUE, capital |-> 0,
            gen |-> 0, parent |-> NoPid, auto |-> FALSE,
            side |-> "unmarked", ever |-> FALSE ]

OpenIn(table) == {p \in Pid : table[p].status = "open"}
AutoIn(table) == {p \in Pid : table[p].status # "none" /\ table[p].auto}

Deployed(table) == SumFunctionOnSet([p \in Pid |-> table[p].capital], OpenIn(table))

(* Variant: exposure keyed by pool. *)
HeldMintsByPool(table) == {table[p].pool : p \in OpenIn(table)}

HeldMints(table) == {MintOf[table[p].pool] : p \in OpenIn(table)}

-----------------------------------------------------------------------------
Init ==
    /\ pos = [p \in Pid |-> Absent] /\ wpos = pos
    /\ log = {} /\ wlog = {}
    /\ intents = {} /\ wintents = {}
    /\ phase = "idle" /\ todo = {} /\ plan = {} /\ funded = {}
    /\ free = 0 /\ late = {}
    /\ nextId = 1
    /\ cycle = 0

(* cmd_manage reads the slot once, at its beginning. *)
NextCycle ==
    /\ phase = "idle"
    /\ cycle < MaxCycle
    /\ cycle' = cycle + 1
    /\ UNCHANGED <<committed, view, control, nextId>>

(* Variant: the generation starts again with every row. *)
NewRowReset(pool, capital, parent, generation, auto) ==
    [status |-> "open", pool |-> pool, capital |-> capital, gen |-> 0,
     parent |-> parent, auto |-> auto, side |-> "unmarked", ever |-> FALSE]

(* The row _open_paper inserts. *)
NewRow(pool, capital, parent, generation, auto) ==
    [status |-> "open", pool |-> pool, capital |-> capital, gen |-> generation,
     parent |-> parent, auto |-> auto, side |-> "unmarked", ever |-> FALSE]

(* cmd_paper_open: a transaction of its own, at any time. *)
ManualOpen(pool, capital) ==
    /\ nextId \in Pid
    /\ pos' = [pos EXCEPT ![nextId] = NewRow(pool, capital, NoPid, 0, FALSE)]
    /\ wpos' = [wpos EXCEPT ![nextId] = NewRow(pool, capital, NoPid, 0, FALSE)]
    /\ nextId' = nextId + 1
    /\ late' = IF phase = "add" THEN late \cup {nextId} ELSE late
    /\ UNCHANGED <<log, intents, wlog, wintents, phase, todo, funded, plan, free, cycle>>

(***************************************************************************)
(* _paper_mark, as far as cmd_manage can see it: the position now has a    *)
(* row in v_paper_latest and the side of its newest mark.                  *)
(***************************************************************************)
MarkBook ==
    /\ phase = "idle"
    /\ \E side \in [OpenIn(pos) -> Side] :
         pos' = [p \in Pid |->
                   IF p \in OpenIn(pos)
                   THEN [pos[p] EXCEPT !.side = side[p], !.ever = @ \/ side[p] = "in"]
                   ELSE pos[p]]
    /\ wpos' = pos'
    /\ UNCHANGED <<log, intents, wlog, wintents, control, nextId, cycle>>

(* Variant: the cursor lists closed positions too. *)
BeginAnyMarked(fund) ==
    /\ phase = "idle"
    /\ phase' = "decide"
    /\ funded' = fund
    /\ todo' = {p \in Pid : wpos[p].side # "unmarked"}
    /\ UNCHANGED <<committed, view, plan, free, late, nextId, cycle>>

(***************************************************************************)
(* The beginning of cmd_manage: a first plan_book is the yardstick for     *)
(* whether a position still deserves its slot, and the cursor holds the    *)
(* open positions that have a mark.                                        *)
(***************************************************************************)
Begin(fund) ==
    /\ phase = "idle"
    /\ phase' = "decide"
    /\ funded' = fund
    /\ todo' = {p \in OpenIn(wpos) : wpos[p].side # "unmarked"}
    /\ UNCHANGED <<committed, view, plan, free, late, nextId, cycle>>

(***************************************************************************)
(* actions.decide.  spent: the mark left a fatal reason, or the edge read  *)
(* now is not positive; worth: v_reb > v_hold.                             *)
(***************************************************************************)
Decide(r, spent, worth) ==
    IF spent THEN "close"
    ELSE IF r.side # "below" THEN "hold"
    ELSE IF r.gen >= MaxGen THEN "close"
    ELSE IF r.pool \notin funded THEN "close"
    ELSE IF worth THEN "rebalance" ELSE "hold"

Decided(p, verb) ==
    /\ phase = "decide" /\ p \in todo
    /\ \E spent, worth \in BOOLEAN : Decide(wpos[p], spent, worth) = verb
    /\ todo' = todo \ {p}

(* record_intent: ON CONFLICT (dedupe_key) DO NOTHING *)
SameKey(i, j) == i.kind = j.kind /\ i.pool = j.pool /\ i.cycle = j.cycle /\ i.key = j.key

Queue(i) ==
    wintents' = IF ~EmitIntents \/ \E j \in wintents : SameKey(i, j) THEN wintents
                ELSE wintents \cup {i}

NewIntent(kind, pool, key, position) ==
    [kind |-> kind, pool |-> pool, cycle |-> cycle, key |-> key, position |-> position]

(* Variant: the update does not reach the row. *)
ClosedNothing(table, p) == table

(* close_position: UPDATE ... WHERE id = p AND closed_at IS NULL *)
Closed(table, p) ==
    IF table[p].status = "open" THEN [table EXCEPT ![p].status = "closed"] ELSE table

Hold(p) ==
    /\ Decided(p, "hold")
    /\ UNCHANGED <<committed, view, phase, funded, plan, free, late, nextId, cycle>>

Close(p) ==
    /\ Decided(p, "close")
    /\ wpos' = Closed(wpos, p)
    /\ wlog' = wlog \cup {[kind |-> "close", pid |-> p, new |-> NoPid]}
    /\ Queue(NewIntent("close", wpos[p].pool, p, p))
    /\ UNCHANGED <<committed, phase, funded, plan, free, late, nextId, cycle>>

(***************************************************************************)
(* The position is closed first and reopened second.  _open_paper returns  *)
(* None when the pool has no price row or its quote leg cannot be valued;  *)
(* the rebalance is logged, counted and queued all the same.               *)
(***************************************************************************)
Rebalance(p) ==
    /\ Decided(p, "rebalance")
    /\ \/ /\ nextId \in Pid
          /\ \E redeploy \in Values :
               wpos' = [Closed(wpos, p) EXCEPT ![nextId] =
                          NewRow(wpos[p].pool, redeploy, p, wpos[p].gen + 1, TRUE)]
          /\ wlog' = wlog \cup {[kind |-> "rebalance", pid |-> p, new |-> nextId]}
          /\ nextId' = nextId + 1
       \/ /\ wpos' = Closed(wpos, p)
          /\ wlog' = wlog \cup {[kind |-> "rebalance", pid |-> p, new |-> NoPid]}
          /\ UNCHANGED nextId
    /\ Queue(NewIntent("rebalance", wpos[p].pool, p, p))
    /\ UNCHANGED <<committed, phase, funded, plan, free, late, cycle>>

(***************************************************************************)
(* "size the book from the budget": the second plan_book runs over the     *)
(* candidates whose token is not held any more, with at most               *)
(* max(1, round(max_positions * share)) pools in each sleeve.              *)
(***************************************************************************)
MaxOf(a, b) == IF a >= b THEN a ELSE b

SleeveCount(sleeve) == MaxOf(1, (MaxPositions * Share[sleeve] + 50) \div 100)

Candidates == {c \in Pool : MintOf[c] \notin HeldMints(wpos)}

Plans == {q \in SUBSET Candidates :
            \A s \in {"core", "satellite"} :
                Cardinality({c \in q : SleeveOf[c] = s}) <= SleeveCount(s)}

FreeCapital ==
    MaxOf(0, Budget - Deployed(wpos) - GasBuffer - Cardinality(OpenIn(wpos)) * Rent)

SizeBook ==
    /\ phase = "decide" /\ todo = {} /\ Budget > 0
    /\ phase' = "add"
    /\ Deployed(wpos) \in 0..MaxMoney
    /\ plan' \in Plans
    /\ free' = FreeCapital
    /\ funded' = {}   \* not read any more
    /\ UNCHANGED <<committed, view, todo, late, nextId, cycle>>

(* Variant: the rent of the new position is not set aside. *)
AffordableGross(usd) == IF usd <= free THEN usd ELSE free

(* min(x.usd, free - rent) *)
Affordable(usd) == IF usd <= free - Rent THEN usd ELSE free - Rent

(* What is left is below the floor, or _open_paper returns None. *)
Skip(c) ==
    /\ phase = "add" /\ c \in plan
    /\ free >= Floor + Rent
    /\ plan' = plan \ {c}
    /\ UNCHANGED <<committed, view, phase, todo, funded, free, late, nextId, cycle>>

Add(c) ==
    /\ phase = "add" /\ c \in plan
    /\ free >= Floor + Rent
    /\ nextId \in Pid
    /\ \E usd \in Sizes :
         /\ Affordable(usd) >= Floor
         /\ wpos' = [wpos EXCEPT ![nextId] = NewRow(c, Affordable(usd), NoPid, 0, TRUE)]
         /\ free' = free - (Affordable(usd) + Rent)
    /\ wlog' = wlog \cup {[kind |-> "add", pid |-> NoPid, new |-> nextId]}
    /\ Queue(NewIntent("open", c, NoPid, nextId))
    /\ nextId' = nextId + 1
    /\ plan' = plan \ {c}
    /\ UNCHANGED <<committed, phase, todo, funded, late, cycle>>

(* The loop breaks when the money is out, and ends when the plan is. *)
Finished ==
    \/ phase = "decide" /\ todo = {} /\ Budget = 0
    \/ phase = "add" /\ (plan = {} \/ free < Floor + Rent)

EndPhase ==
    /\ phase' = "idle" /\ todo' = {} /\ plan' = {} /\ funded' = {}
    /\ free' = 0 /\ late' = {}

Commit ==
    /\ Finished
    /\ pos' = wpos /\ log' = wlog /\ intents' = wintents
    /\ EndPhase
    /\ UNCHANGED <<view, nextId, cycle>>

(* Variant: intents are queued outside the transaction. *)
RollbackKeepsIntents ==
    /\ phase # "idle"
    /\ wpos' = pos /\ wlog' = log
    /\ intents' = wintents
    /\ EndPhase
    /\ UNCHANGED <<pos, log, wintents, nextId, cycle>>

(* db.session on an exception; the server does it when the process dies. *)
Rollback ==
    /\ phase # "idle"
    /\ wpos' = pos /\ wlog' = log /\ wintents' = intents
    /\ EndPhase
    /\ UNCHANGED <<committed, nextId, cycle>>

Next ==
    \/ NextCycle
    \/ \E c \in Pool, usd \in Sizes : ManualOpen(c, usd)
    \/ MarkBook
    \/ \E fund \in SUBSET Pool : Begin(fund)
    \/ \E p \in Pid : Hold(p) \/ Close(p) \/ Rebalance(p)
    \/ SizeBook
    \/ \E c \in Pool : Skip(c) \/ Add(c)
    \/ Commit
    \/ Rollback

Spec == Init /\ [][Next]_vars

-----------------------------------------------------------------------------
TypeOK ==
    /\ pos \in [Pid -> Row] /\ wpos \in [Pid -> Row]
    /\ log \subseteq LogEntry /\ wlog \subseteq LogEntry
    /\ intents \subseteq Intent /\ wintents \subseteq Intent
    /\ phase \in {"idle", "decide", "add"}
    /\ todo \subseteq Pid /\ late \subseteq Pid
    /\ plan \subseteq Pool /\ funded \subseteq Pool
    /\ free \in Nat
    /\ nextId \in 1..(MaxPid + 1)
    /\ cycle \in 0..MaxCycle

Used(table) == {p \in Pid : table[p].status # "none"}

(***************************************************************************)
(* Re-centring makes a chain: the parent of a position is an older, closed *)
(* one in the same pool, one generation younger, it has no other heir, and *)
(* no chain outgrows MAX_GENERATIONS.  Close and reopen are two statements *)
(* of one transaction, and a rolled back one leaves no half of them.       *)
(***************************************************************************)
LineageIn(table) ==
    /\ \A p \in Used(table) : table[p].gen <= MaxGen
    /\ \A p \in Used(table) : table[p].parent = NoPid => table[p].gen = 0
    /\ \A p \in Used(table) : table[p].parent # NoPid =>
         LET q == table[p].parent
         IN  /\ q < p
             /\ table[q].status = "closed"
             /\ table[q].pool = table[p].pool
             /\ table[p].gen = table[q].gen + 1
    /\ \A p, r \in Used(table) :
         table[p].parent # NoPid /\ table[p].parent = table[r].parent => p = r

Lineage == LineageIn(pos)

(***************************************************************************)
(* The actions table explains the book (dashboard and `history` read it):  *)
(* every position the engine closed has exactly one entry that closed it   *)
(* or re-centred it, every position the engine opened is the new position  *)
(* of exactly one entry, and no entry speaks of a position whose change    *)
(* was rolled back.                                                        *)
(***************************************************************************)
AuditIn(table, entries) ==
    /\ \A p \in Pid : table[p].status = "closed" <=>
         \E e \in entries : e.kind \in {"close", "rebalance"} /\ e.pid = p
    /\ \A e, f \in entries : e.pid = f.pid /\ e.pid # NoPid => e = f
    /\ \A p \in Pid : p \in AutoIn(table) <=>
         \E e \in entries : e.new = p
    /\ \A e, f \in entries : e.new = f.new /\ e.new # NoPid => e = f

AuditTrail == AuditIn(pos, log)

(***************************************************************************)
(* The actions table is an append-only journal, and the book follows it:   *)
(* each commit of cmd_manage does to the committed positions exactly what  *)
(* its entries say, in one step, whatever was opened by hand or marked     *)
(* since it began; nothing that was committed is overwritten or comes back.*)
(***************************************************************************)
Facts(r) ==
    IF r.status = "none" THEN [status |-> "none"]
    ELSE [status |-> r.status, pool |-> r.pool, capital |-> r.capital,
          gen |-> r.gen, parent |-> r.parent, auto |-> r.auto]

Journal == INSTANCE BookJournal
             WITH Id <- Pid, NoId <- NoPid, journal <- log,
                  book <- [p \in Pid |-> Facts(pos[p])]

JournalSpec == Journal!Spec

(***************************************************************************)
(* What the executor can claim is a decision that really was taken: an     *)
(* intent names a position the engine opened or closed, in that pool, for  *)
(* the very reason that is logged, and no position is the subject of two   *)
(* closing intents.                                                        *)
(***************************************************************************)
IntentsMatch(table, entries, queue) ==
    /\ \A i \in queue :
         /\ table[i.position].status # "none"
         /\ table[i.position].pool = i.pool
         /\ \/ i.kind = "open" /\ \E e \in entries : e.kind = "add" /\ e.new = i.position
            \/ i.kind # "open" /\ \E e \in entries : e.kind = i.kind /\ e.pid = i.position
    /\ \A i, j \in queue :
         i.position = j.position /\ i.kind # "open" /\ j.kind # "open" => i = j

IntentsMatchBook == IntentsMatch(pos, log, intents)

(***************************************************************************)
(* Positions this transaction added, and what was open before it.          *)
(***************************************************************************)
Added == {p \in OpenIn(wpos) \cap AutoIn(wpos) :
            wpos[p].parent = NoPid /\ pos[p].status = "none"}
Before == OpenIn(wpos) \ (Added \cup late)

(* Capital, rent and the gas buffer of a set of positions. *)
Committed(set) ==
    SumFunctionOnSet([p \in Pid |-> wpos[p].capital + Rent], set) + GasBuffer

(***************************************************************************)
(* An addition never takes the book over its budget, although the free     *)
(* capital is read once, before the loop, and counted down in a local      *)
(* variable: with what was opened by hand meanwhile left aside, a book     *)
(* that was added to fits the budget, rent and gas buffer included.        *)
(***************************************************************************)
AddsFitBudget ==
    phase = "add" /\ Added # {} => Committed(Added \cup Before) <= Budget

(***************************************************************************)
(* Nothing is added in a token that was already held when the book was     *)
(* sized, through whichever pool, the heir of a position re-centred in     *)
(* this same transaction included.  That is all the loop sees to: the set  *)
(* of tokens held is read once, before it, so that two pools of one token  *)
(* that is new can both be added in it.                                    *)
(***************************************************************************)
AddsNewTokens ==
    \A p \in Added, q \in Before : MintOf[wpos[p].pool] # MintOf[wpos[q].pool]

=============================================================================
