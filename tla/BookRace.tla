------------------------------ MODULE BookRace ------------------------------
(***************************************************************************)
(* Commands run by hand beside the worker: several transactions over the   *)
(* same open positions, each a `paper mark` or a `manage`, statement by    *)
(* statement (READ COMMITTED: a statement sees what was committed when it  *)
(* began, an UPDATE waits for the transaction that wrote the row last and  *)
(* then changes the row that one left).                                    *)
(*                                                                         *)
(* What a mark makes of a row is PaperMark's Marked, computed from what    *)
(* the session has read (View).  Of cmd_manage the model has the closing   *)
(* of a position, alone or as the first half of a re-centring; the heir    *)
(* and the additions are openings, which nobody's cursor holds yet.        *)
(*                                                                         *)
(* Abstracted: a realized figure is the mark and the fees it was read      *)
(* from; the checkpoints of measured fees are left to FeeClaim.            *)
(***************************************************************************)
EXTENDS PaperMark, Sequences

CONSTANTS
    Session,
    Bad      \* whether a mark finds the pool itself in a bad state

ASSUME BookRaceAssumption == Bad \subseteq BOOLEAN

VARIABLES
    task,     \* per session: "idle", "mark" or "manage"
    todo,     \* positions of the cursor that are still to come
    cur,      \* the position that is being handled: a set of one, or none
    seen,     \* rows as they were when the cursor was opened
    at,       \* "mark": the price row that latest_price returned
    past,     \* the marks of cur that were there when they were asked for
    fees,     \* "manage": fees_usd as position_for_action returned it
    ready,    \* everything has been read, the row is to be written
    own,      \* rows that the open transaction has written
    added,    \* its new paper_marks
    entries,  \* its new rows of `actions`
    figures,  \* realized_pnl and realized_fees of a closed position
    log       \* `actions`

session == <<task, todo, cur, seen, at, past, fees, ready, own, added, entries>>
allVars == <<vars, session, figures, log>>

NoFigures == [mark |-> NoTs, fees |-> 0]

(* PaperMark, over what session s has read. *)
View(s) == INSTANCE PaperMark WITH row <- seen[s], price <- at[s],
                                   marks <- [p \in Position |-> past[s]]

Latest(rows) == CHOOSE t \in {m.ts : m \in rows} : \A m \in rows : m.ts <= t

-----------------------------------------------------------------------------
RaceInit ==
    /\ Init
    /\ task = [s \in Session |-> "idle"]
    /\ todo = [s \in Session |-> {}]
    /\ cur = [s \in Session |-> {}]
    /\ seen = [s \in Session |-> << >>]
    /\ at = [s \in Session |-> << >>]
    /\ past = [s \in Session |-> {}]
    /\ fees = [s \in Session |-> 0]
    /\ ready = [s \in Session |-> FALSE]
    /\ own = [s \in Session |-> << >>]
    /\ added = [s \in Session |-> {}]
    /\ entries = [s \in Session |-> << >>]
    /\ figures = [p \in Position |-> NoFigures]
    /\ log = << >>

(* The SELECT that opens the command: open_paper_positions, or the cursor  *)
(* of cmd_manage over v_paper_latest, where a position without a mark is   *)
(* not.                                                                    *)
Begin(s, command) ==
    /\ task[s] = "idle"
    /\ task' = [task EXCEPT ![s] = command]
    /\ todo' = [todo EXCEPT ![s] =
                  IF command = "mark" THEN Open ELSE {p \in Open : marks[p] # {}}]
    /\ seen' = [seen EXCEPT ![s] = row]
    /\ UNCHANGED <<vars, cur, at, past, fees, ready, own, added, entries, figures, log>>

(* "continue": no price or pool, or decide says HOLD. *)
Pass(s, p) ==
    /\ task[s] # "idle" /\ cur[s] = {} /\ p \in todo[s]
    /\ todo' = [todo EXCEPT ![s] = @ \ {p}]
    /\ UNCHANGED <<vars, task, cur, seen, at, past, fees, ready, own, added, entries, figures, log>>

(* latest_price, or position_for_action *)
ReadFirst(s, p) ==
    /\ task[s] # "idle" /\ cur[s] = {} /\ p \in todo[s]
    /\ cur' = [cur EXCEPT ![s] = {p}]
    /\ IF task[s] = "mark"
       THEN at' = [at EXCEPT ![s] = price] /\ UNCHANGED fees
       ELSE fees' = [fees EXCEPT ![s] = row[p].feeHours] /\ UNCHANGED at
    /\ UNCHANGED <<vars, task, todo, seen, past, ready, own, added, entries, figures, log>>

(* SELECT max(ts) FROM paper_marks, or latest_mark *)
ReadMarks(s, p) ==
    /\ p \in cur[s] /\ ~ready[s]
    /\ past' = [past EXCEPT ![s] = marks[p]]
    /\ ready' = [ready EXCEPT ![s] = TRUE]
    /\ UNCHANGED <<vars, task, todo, cur, seen, at, fees, own, added, entries, figures, log>>

(* The row p of a transaction's own version of the table. *)
Put(f, p, r) == [q \in DOMAIN f \cup {p} |-> IF q = p THEN r ELSE f[q]]

(* The row lock: until its end, the transaction that wrote a row keeps it. *)
Free(p) == \A s \in Session : p \notin DOMAIN own[s]

(* Variants: fees_usd = fees_usd + the new ones; ever_in_range as computed. *)
WrittenAdding(r, new, old) ==
    [new EXCEPT !.status = r.status,
                !.feeHours = r.feeHours + new.feeHours - old.feeHours]
WrittenStale(r, new, old) == [new EXCEPT !.status = r.status]

(***************************************************************************)
(* update_paper_position, set_entry_context and update_exit_state: the     *)
(* columns get what was computed from the row `old` the session has read,  *)
(* except that ever_in_range is ORed to the row r as it is by now, that    *)
(* entry_sigma is kept when it is there, and that closed_at is not touched.*)
(***************************************************************************)
Written(r, new, old) ==
    [new EXCEPT !.status = r.status,
                !.ever = r.ever \/ new.wasIn,
                !.entrySigma = IF r.entrySigma = 0 THEN @ ELSE r.entrySigma]

Finish(s) ==
    /\ todo' = [todo EXCEPT ![s] = @ \ cur[s]]
    /\ cur' = [cur EXCEPT ![s] = {}]
    /\ at' = [at EXCEPT ![s] = << >>]
    /\ past' = [past EXCEPT ![s] = {}]
    /\ fees' = [fees EXCEPT ![s] = 0]
    /\ ready' = [ready EXCEPT ![s] = FALSE]

WriteMark(s, p, sigma, bad) ==
    /\ task[s] = "mark" /\ p \in cur[s] /\ ready[s] /\ Free(p)
    /\ own' = [own EXCEPT ![s] =
                 Put(@, p, Written(row[p], View(s)!Marked(p, sigma, bad), seen[s][p]))]
    /\ added' = [added EXCEPT ![s] = @ \cup
                   {[position |-> p,
                     mark |-> [ts |-> at[s].ts, active |-> at[s].active,
                               side |-> SideOf(at[s].active, row[p].center)]]}]
    /\ Finish(s)
    /\ UNCHANGED <<vars, task, seen, entries, figures, log>>

(* close_position: WHERE id = p AND closed_at IS NULL, on the row as it is *)
(* by now; log_action in any case.                                         *)
ClosedAgain(r) == TRUE                                  \* variant: no guard
Closes(r) == r.status = "open"

WriteClose(s, p) ==
    /\ task[s] = "manage" /\ p \in cur[s] /\ ready[s] /\ Free(p)
    /\ own' = [own EXCEPT ![s] =
                 IF Closes(row[p]) THEN Put(@, p, [row[p] EXCEPT !.status = "closed"]) ELSE @]
    /\ entries' = [entries EXCEPT ![s] =
                     Append(@, [position |-> p,
                                figures |-> [mark |-> Latest(past[s]), fees |-> fees[s]]])]
    /\ Finish(s)
    /\ UNCHANGED <<vars, task, seen, added, figures, log>>

End(s) ==
    /\ task' = [task EXCEPT ![s] = "idle"]
    /\ todo' = [todo EXCEPT ![s] = {}]
    /\ cur' = [cur EXCEPT ![s] = {}]
    /\ seen' = [seen EXCEPT ![s] = << >>]
    /\ at' = [at EXCEPT ![s] = << >>]
    /\ past' = [past EXCEPT ![s] = {}]
    /\ fees' = [fees EXCEPT ![s] = 0]
    /\ ready' = [ready EXCEPT ![s] = FALSE]
    /\ own' = [own EXCEPT ![s] = << >>]
    /\ added' = [added EXCEPT ![s] = {}]
    /\ entries' = [entries EXCEPT ![s] = << >>]

(* The figures are columns of the rows that this transaction has closed. *)
Commit(s) ==
    /\ task[s] # "idle" /\ cur[s] = {} /\ todo[s] = {}
    /\ row' = [p \in Position |-> IF p \in DOMAIN own[s] THEN own[s][p] ELSE row[p]]
    /\ marks' = [p \in Position |-> marks[p] \cup
                    {m \in {a.mark : a \in {b \in added[s] : b.position = p}} :
                        \A k \in marks[p] : k.ts # m.ts}]
    /\ figures' = [p \in Position |->
                    IF task[s] = "manage" /\ p \in DOMAIN own[s]
                    THEN entries[s][CHOOSE i \in DOMAIN entries[s] : entries[s][i].position = p].figures
                    ELSE figures[p]]
    /\ log' = log \o entries[s]
    /\ End(s)
    /\ UNCHANGED <<now, price>>

(* An error, a kill, or Postgres ending a cycle of waiting transactions. *)
Abort(s) ==
    /\ task[s] # "idle"
    /\ End(s)
    /\ UNCHANGED <<vars, figures, log>>

Environment ==
    /\ \/ Tick \/ Poll
       \/ \E p \in Position, offset \in Offsets : OpenPosition(p, offset)
    /\ UNCHANGED <<session, figures, log>>

RaceNext ==
    \/ Environment
    \/ \E s \in Session :
         \/ \E command \in {"mark", "manage"} : Begin(s, command)
         \/ \E p \in Position :
              \/ Pass(s, p) \/ ReadFirst(s, p) \/ ReadMarks(s, p)
              \/ \E sigma \in Sigmas, bad \in Bad : WriteMark(s, p, sigma, bad)
              \/ WriteClose(s, p)
         \/ Commit(s)
         \/ Abort(s)

RaceSpec == RaceInit /\ [][RaceNext]_allVars

-----------------------------------------------------------------------------
(***************************************************************************)
(* Two marks over the same row lose hours and transitions (the later write *)
(* wins), but they never make any: the fee hours of a row fit between the  *)
(* opening, or the first mark, and the newest mark, and the counter of     *)
(* rebalances is at most the number of transitions among the marks.  The   *)
(* row is read before the marks, so what it has was credited up to a mark  *)
(* that max(ts) already knows.                                             *)
(***************************************************************************)
Transitions(p) == {m \in marks[p] : m.side # In /\ SidesBefore(p, m) = {In}}

NothingTwice ==
    \A p \in Position :
        /\ row[p].feeHours # 0 =>
             \E m \in marks[p], start \in Starts(p) : row[p].feeHours + start <= m.ts
        /\ row[p].rebals <= Cardinality(Transitions(p))

(***************************************************************************)
(* What tells a flank that waits from a position that fell out of its      *)
(* range outlives every lost update: ever_in_range is set exactly when     *)
(* some mark found the price in range, whoever wrote the row last.         *)
(***************************************************************************)
EverInRangeKept ==
    \A p \in Position : row[p].ever = (\E m \in marks[p] : m.side = In)

(***************************************************************************)
(* A position that two managers decide to close keeps the figures of the   *)
(* closing that came first: the ones its first entry in the log has.       *)
(***************************************************************************)
EntriesOf(p) == {i \in DOMAIN log : log[i].position = p}

FirstClosingStands ==
    \A p \in Position :
        /\ row[p].status = "closed" <=> EntriesOf(p) # {}
        /\ \A i \in EntriesOf(p) :
             (\A j \in EntriesOf(p) : i <= j) => figures[p] = log[i].figures

=============================================================================
