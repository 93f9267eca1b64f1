------------------------------ MODULE Retention ------------------------------
(***************************************************************************)
(* The price series of one pool.  cmd_poll (main.py) inserts a row that is *)
(* stamped with the start of its run; roll_up_prices, the end of a         *)
(* pipeline (db/migration_010_retention.sql), folds raw rows into hourly   *)
(* candles and deletes those older than a week.  Both run in the one       *)
(* thread of the worker, at any distance: a run fails, stalls, or the      *)
(* worker is gone for a while.                                             *)
(*                                                                         *)
(* Abstracted: the hour and the week, to a few ticks of the clock.         *)
(***************************************************************************)
EXTENDS Integers, FiniteSets

CONSTANTS
    Hour,    \* ticks between two values of date_trunc('hour', .)
    Keep,    \* interval '7 days'
    Prices,  \* prices a poll can bring
    MaxNow   \* bound: the clock stops here

ASSUME RetentionAssumption ==
    /\ Hour \in Nat \ {0}
    /\ Keep \in Nat /\ Keep >= Hour
    /\ Prices \subseteq Nat
    /\ MaxNow \in Nat

VARIABLES
    now,
    polling,   \* cmd_poll is waiting for the chain
    stamp,     \* its datetime.now()
    raw,       \* prices
    candle,    \* prices_hourly, by hour
    ever       \* history: every row that was ever in prices

series == <<now, polling, stamp, raw, candle, ever>>

HourOf(ts) == ts \div Hour
Hours == 0..HourOf(MaxNow)
NoCandle == [n_obs |-> 0]

In(rows, h) == {r \in rows : HourOf(r.ts) = h}

First(rows) == CHOOSE r \in rows : \A s \in rows : r.ts <= s.ts
Last(rows)  == CHOOSE r \in rows : \A s \in rows : s.ts <= r.ts
High(rows)  == CHOOSE x \in {r.price : r \in rows} : \A r \in rows : r.price <= x
Low(rows)   == CHOOSE x \in {r.price : r \in rows} : \A r \in rows : x <= r.price

(* The SELECT of roll_up_prices, for the rows of one hour. *)
CandleOf(rows) ==
    [open |-> First(rows).price, high |-> High(rows), low |-> Low(rows),
     close |-> Last(rows).price, n_obs |-> Cardinality(rows)]

(* Variant: the conflict takes the new candle whole. *)
MergedFresh(old, new) == new

(* ON CONFLICT (pool, hour) DO UPDATE: open stays, n_obs is replaced. *)
Merged(old, new) ==
    [old EXCEPT !.high = IF new.high > @ THEN new.high ELSE @,
                !.low = IF new.low < @ THEN new.low ELSE @,
                !.close = new.close,
                !.n_obs = new.n_obs]

(* ts < date_trunc('hour', now()) *)
Foldable == {HourOf(r.ts) : r \in raw} \cap 0..(HourOf(now) - 1)

SeriesInit ==
    /\ now = 0
    /\ polling = FALSE /\ stamp = 0
    /\ raw = {} /\ ever = {}
    /\ candle = [h \in Hours |-> NoCandle]

Tick ==
    /\ now < MaxNow
    /\ now' = now + 1
    /\ UNCHANGED <<polling, stamp, raw, candle, ever>>

StartPoll ==
    /\ ~polling
    /\ polling' = TRUE
    /\ stamp' = now
    /\ UNCHANGED <<now, raw, candle, ever>>

(* ON CONFLICT (pool, ts) DO NOTHING *)
Insert(price) ==
    LET rows == IF \E r \in raw : r.ts = stamp THEN {} ELSE {[ts |-> stamp, price |-> price]}
    IN  /\ polling
        /\ raw' = raw \cup rows
        /\ ever' = ever \cup rows
        /\ polling' = FALSE /\ stamp' = 0
        /\ UNCHANGED <<now, candle>>

(* The call raises, the chain does not know the pool, or the process dies. *)
PollBringsNothing ==
    /\ polling
    /\ polling' = FALSE /\ stamp' = 0
    /\ UNCHANGED <<now, raw, candle, ever>>

roll_up_prices ==
    /\ ~polling
    /\ candle' = [h \in Hours |->
                    IF h \notin Foldable THEN candle[h]
                    ELSE IF candle[h] = NoCandle THEN CandleOf(In(raw, h))
                    ELSE Merged(candle[h], CandleOf(In(raw, h)))]
    /\ raw' = {r \in raw : r.ts >= now - Keep}
    /\ UNCHANGED <<now, polling, stamp, ever>>

SeriesNext ==
    \/ Tick
    \/ StartPoll
    \/ \E price \in Prices : Insert(price)
    \/ PollBringsNothing
    \/ roll_up_prices

SeriesSpec == SeriesInit /\ [][SeriesNext]_series

-----------------------------------------------------------------------------
(***************************************************************************)
(* "Keep a week, then drop - and keep an hourly roll-up indefinitely": the *)
(* candle of an hour is the candle of every row the hour ever had, though  *)
(* each roll-up sees only the rows that are left, and the first roll-ups   *)
(* after a week see a part of the hour; and a row that was dropped is in a *)
(* candle.  Only n_obs forgets: it counts the rows the last roll-up saw.   *)
(***************************************************************************)
SeriesPreserved ==
    /\ \A h \in Hours : candle[h] # NoCandle =>
         LET true == CandleOf(In(ever, h))
         IN  /\ [candle[h] EXCEPT !.n_obs = 0] = [true EXCEPT !.n_obs = 0]
             /\ candle[h].n_obs \in 1..true.n_obs
    /\ \A r \in ever \ raw : candle[HourOf(r.ts)] # NoCandle

=============================================================================
