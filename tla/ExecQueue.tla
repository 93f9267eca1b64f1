----------------------------- MODULE ExecQueue ------------------------------
(***************************************************************************)
(* The executors: exec/src/index.ts, db.ts and guards.ts around the table  *)
(* intents.  Any number of executors run the loop of main: claim a pending *)
(* intent, read the spending window, check the limits, build and simulate, *)
(* write the result back.  Each await is a place where the others run, and *)
(* where the process can die.                                              *)
(*                                                                         *)
(* Abstracted: what is built and simulated to whether it succeeds; dollars *)
(* and time to small whole numbers.                                        *)
(***************************************************************************)
EXTENDS Integers, FiniteSets, Functions

CONSTANTS
    Executor,
    Nobody,        \* no executor
    Usd,           \* amounts an intent can ask for
    MaxUsdPerTx,   \* DEFAULT_LIMITS
    MaxTxPerHour,
    MaxUsdPerDay,
    Hour, Day,     \* ticks of the clock
    Follow,        \* dry-run follows the queue, once drains it and exits
    MaxId,         \* bound: intents
    MaxClock,      \* bound: ticks
    MaxLag,        \* bound: ticks a writing transaction takes
    MaxCrash       \* bound: executors that die

ASSUME ExecQueueAssumption ==
    /\ IsFiniteSet(Executor) /\ Executor # {}
    /\ Nobody \notin Executor
    /\ Usd \subseteq Nat
    /\ MaxUsdPerTx \in Nat /\ MaxTxPerHour \in Nat /\ MaxUsdPerDay \in Nat
    /\ Hour \in Nat /\ Day \in Nat
    /\ Follow \in BOOLEAN
    /\ MaxId \in Nat /\ MaxClock \in Nat /\ MaxLag \in Nat /\ MaxCrash \in Nat

VARIABLES
    row,      \* the table intents
    clock,    \* now()
    halt,     \* the HALT file is there
    pc,       \* where each executor stands
    job,      \* the intent it holds
    seen,     \* what spendWindow returned to it
    verdict,  \* the status it is about to write
    crashes   \* executors that died so far

executors == <<pc, job, seen, verdict>>
vars  == <<row, clock, halt, pc, job, seen, verdict, crashes>>

Id   == 1..MaxId
NoId == 0

Kind     == {"open", "close", "rebalance"}
Resolved == {"simulated", "rejected", "failed"}

Row == [ status   : {"absent", "pending", "simulating"} \cup Resolved,
         kind     : Kind,
         usd      : Nat,
         created  : Int,
         resolved : Nat ]

Stage == {"stopped", "idle", "locked", "claimed", "windowed",
          "building", "refused", "resolving", "catching"}

NoWindow == [txHour |-> 0, usdDay |-> 0]

Absent == [status |-> "absent", kind |-> "open", usd |-> 0,
           created |-> 0, resolved |-> 0]

Init ==
    /\ row = [i \in Id |-> Absent]
    /\ clock = 0
    /\ halt \in BOOLEAN
    /\ pc = [e \in Executor |-> "idle"]
    /\ job = [e \in Executor |-> NoId]
    /\ seen = [e \in Executor |-> NoWindow]
    /\ verdict = [e \in Executor |-> "failed"]
    /\ crashes = 0

-----------------------------------------------------------------------------
(* The world around the executors. *)

Tick ==
    /\ clock < MaxClock
    /\ clock' = clock + 1
    /\ UNCHANGED <<row, halt, executors, crashes>>

ToggleHalt ==
    /\ halt' = ~halt
    /\ UNCHANGED <<row, clock, executors, crashes>>

(***************************************************************************)
(* record_intent.  created_at is the start of the transaction of           *)
(* cmd_manage, which has been running for a while when it commits.         *)
(***************************************************************************)
Record(i, kind, usd, lag) ==
    /\ row[i].status = "absent"
    /\ \A j \in Id : j < i => row[j].status # "absent"
    /\ row' = [row EXCEPT ![i] = [status |-> "pending", kind |-> kind, usd |-> usd,
                                  created |-> clock - lag, resolved |-> 0]]
    /\ UNCHANGED <<clock, halt, executors, crashes>>

-----------------------------------------------------------------------------
(* claim: SELECT ... ORDER BY created_at LIMIT 1 FOR UPDATE SKIP LOCKED,   *)
(* UPDATE, COMMIT.  The row lock lasts until the commit.                   *)

Locked == {i \in Id : \E e \in Executor : pc[e] = "locked" /\ job[e] = i}

(* Variant: FOR UPDATE SKIP LOCKED is missing. *)
ClaimableUnlocked == {i \in Id : row[i].status = "pending"}

Claimable == {i \in Id : row[i].status = "pending" /\ i \notin Locked}

(* Variant: an intent as old as another is not the oldest. *)
OldestStrictly(set) == {i \in set : \A j \in set \ {i} : row[i].created < row[j].created}

Oldest(set) == {i \in set : \A j \in set : row[i].created <= row[j].created}

Lock(e) ==
    /\ pc[e] = "idle"
    /\ \E i \in Oldest(Claimable) : job' = [job EXCEPT ![e] = i]
    /\ pc' = [pc EXCEPT ![e] = "locked"]
    /\ UNCHANGED <<row, clock, halt, seen, verdict, crashes>>

Claim(e) ==
    /\ pc[e] = "locked"
    /\ row' = [row EXCEPT ![job[e]].status = "simulating"]
    /\ pc' = [pc EXCEPT ![e] = "claimed"]
    /\ UNCHANGED <<clock, halt, job, seen, verdict, crashes>>

(* claim returned null under --once: the executor says the queue is drained. *)
Drain(e) ==
    /\ ~Follow
    /\ pc[e] = "idle" /\ Claimable = {}
    /\ pc' = [pc EXCEPT ![e] = "stopped"]
    /\ UNCHANGED <<row, clock, halt, job, seen, verdict, crashes>>

-----------------------------------------------------------------------------
(* spendWindow: what was created within the last hour and the last day.    *)

Present == {i \in Id : row[i].status # "absent"}
InHour  == {i \in Present : row[i].created > clock - Hour}
InDay   == {i \in Present : row[i].created > clock - Day}

SimulatedInHour == {i \in InHour : row[i].status = "simulated"}

(* Only an open has capital_usd in its parameters. *)
Capital(i) == IF row[i].kind = "open" THEN row[i].usd ELSE 0

Spent(set) == SumFunctionOnSet([i \in Id |-> Capital(i)], set)

(* Variant: the day's sum counts the intents that got through. *)
UsdDaySimulated == Spent({i \in InDay : row[i].status = "simulated"})

UsdDay == Spent(InDay)

ReadWindow(e) ==
    /\ pc[e] = "claimed"
    /\ seen' = [seen EXCEPT ![e] = [txHour |-> Cardinality(SimulatedInHour),
                                    usdDay |-> UsdDay]]
    /\ pc' = [pc EXCEPT ![e] = "windowed"]
    /\ UNCHANGED <<row, clock, halt, job, verdict, crashes>>

(* Variant: the hour is full one transaction later. *)
WithinLimitsLate(usd, win) ==
    /\ usd <= MaxUsdPerTx
    /\ win.txHour <= MaxTxPerHour
    /\ win.usdDay + usd <= MaxUsdPerDay

(* guards.check: the amount is capital_usd ?? new_capital ?? value_usd. *)
WithinLimits(usd, win) ==
    /\ usd <= MaxUsdPerTx
    /\ win.txHour < MaxTxPerHour
    /\ win.usdDay + usd <= MaxUsdPerDay

Check(e) ==
    /\ pc[e] = "windowed"
    /\ IF ~halt /\ WithinLimits(row[job[e]].usd, seen[e])
       THEN pc' = [pc EXCEPT ![e] = "building"] /\ UNCHANGED verdict
       ELSE pc' = [pc EXCEPT ![e] = "refused"]
            /\ verdict' = [verdict EXCEPT ![e] = "rejected"]
    /\ UNCHANGED <<row, clock, halt, job, seen, crashes>>

-----------------------------------------------------------------------------
(***************************************************************************)
(* The try block of handle.  The engine never puts position_pubkey in the  *)
(* parameters of a close, so a close that does not throw is rejected.      *)
(***************************************************************************)
Outcome(kind) == IF kind = "close" THEN {"rejected", "failed"} ELSE {"simulated", "failed"}

Build(e) ==
    /\ pc[e] = "building"
    /\ \E v \in Outcome(row[job[e]].kind) : verdict' = [verdict EXCEPT ![e] = v]
    /\ pc' = [pc EXCEPT ![e] = "resolving"]
    /\ UNCHANGED <<row, clock, halt, job, seen, crashes>>

(* handle returns, or the process is gone: its variables go with it. *)
Forget(e) ==
    /\ job' = [job EXCEPT ![e] = NoId]
    /\ seen' = [seen EXCEPT ![e] = NoWindow]
    /\ verdict' = [verdict EXCEPT ![e] = "failed"]

(* Variant: the failed attempt puts the intent back. *)
WrittenRequeues(e) ==
    [row EXCEPT ![job[e]].status = IF verdict[e] = "failed" THEN "pending" ELSE verdict[e],
                ![job[e]].resolved = clock]

(* Variant: a rejection is logged and not written. *)
WrittenUnlessRejected(e) ==
    IF verdict[e] = "rejected" THEN row
    ELSE [row EXCEPT ![job[e]].status = verdict[e], ![job[e]].resolved = clock]

(* resolve: UPDATE intents SET status, resolved_at WHERE id *)
Written(e) ==
    [row EXCEPT ![job[e]].status = verdict[e], ![job[e]].resolved = clock]

Resolve(e) ==
    /\ pc[e] \in {"refused", "resolving", "catching"}
    /\ row' = Written(e)
    /\ pc' = [pc EXCEPT ![e] = "idle"]
    /\ Forget(e)
    /\ UNCHANGED <<clock, halt, crashes>>

(***************************************************************************)
(* The query of a resolve inside the try block throws, whether or not the  *)
(* server has committed it; the catch block resolves again, as failed.     *)
(***************************************************************************)
ResolveThrows(e) ==
    /\ pc[e] = "resolving"
    /\ row' \in {row, Written(e)}
    /\ pc' = [pc EXCEPT ![e] = "catching"]
    /\ verdict' = [verdict EXCEPT ![e] = "failed"]
    /\ UNCHANGED <<clock, halt, job, seen, crashes>>

(***************************************************************************)
(* The process dies, or a query outside the try block throws and main      *)
(* exits.  A row lock goes with its session; a claimed row stays claimed.  *)
(***************************************************************************)
Crash(e) ==
    /\ pc[e] # "stopped"
    /\ crashes < MaxCrash
    /\ crashes' = crashes + 1
    /\ pc' = [pc EXCEPT ![e] = "stopped"]
    /\ Forget(e)
    /\ UNCHANGED <<row, clock, halt>>

(* Nothing supervises an executor: somebody starts it again, or not. *)
Start(e) ==
    /\ pc[e] = "stopped"
    /\ pc' = [pc EXCEPT ![e] = "idle"]
    /\ UNCHANGED <<row, clock, halt, job, seen, verdict, crashes>>

(* One turn of the loop of main, as far as it goes without a fault. *)
Step(e) ==
    \/ Lock(e) \/ Claim(e) \/ Drain(e) \/ ReadWindow(e) \/ Check(e)
    \/ Build(e) \/ Resolve(e)

Next ==
    \/ Tick
    \/ ToggleHalt
    \/ \E i \in Id, k \in Kind, usd \in Usd, lag \in 0..MaxLag : Record(i, k, usd, lag)
    \/ \E e \in Executor : Step(e) \/ ResolveThrows(e) \/ Crash(e) \/ Start(e)

Spec == Init /\ [][Next]_vars

(* The loop of a running executor goes on; every call it awaits returns or *)
(* throws.  Nothing makes an executor start again.                         *)
FairSpec == Spec /\ \A e \in Executor : WF_vars(Step(e))

-----------------------------------------------------------------------------
TypeOK ==
    /\ row \in [Id -> Row]
    /\ clock \in 0..MaxClock
    /\ halt \in BOOLEAN
    /\ pc \in [Executor -> Stage]
    /\ job \in [Executor -> Id \cup {NoId}]
    /\ seen \in [Executor -> [txHour : Nat, usdDay : Nat]]
    /\ verdict \in [Executor -> Resolved]
    /\ crashes \in 0..MaxCrash

(***************************************************************************)
(* An intent has one executor at most ("two executors never pick the same  *)
(* row"), from the row lock to the last result it writes, and a claimed    *)
(* intent without one is there only because its executor died.             *)
(***************************************************************************)
Holding == {e \in Executor : pc[e] \notin {"stopped", "idle"}}

ClaimExclusive ==
    /\ \A e \in Executor : job[e] # NoId <=> e \in Holding
    /\ \A e, f \in Holding : job[e] = job[f] => e = f
    /\ \A e \in Holding :
         row[job[e]].status \in IF pc[e] = "locked" THEN {"pending"}
                                ELSE IF pc[e] = "catching" THEN {"simulating"} \cup Resolved
                                ELSE {"simulating"}
    /\ Cardinality({i \in Id : row[i].status = "simulating"
                               /\ \A e \in Executor : job[e] # i}) <= crashes

(***************************************************************************)
(* The hourly ceiling, for n executors that coordinate through the queue   *)
(* only: of the intents created within any one hour at most n - 1 more     *)
(* than the ceiling ever come out simulated, because each executor can     *)
(* have passed the check on a count that the others have since overtaken.  *)
(***************************************************************************)
HourBound ==
    Cardinality(SimulatedInHour) <= MaxTxPerHour + Cardinality(Executor) - 1

(***************************************************************************)
(* The daily ceiling does not suffer from that race, although its sum is   *)
(* read as early: it counts every intent, whatever became of it, so the    *)
(* last to pass counted all the others.  What was created within one day   *)
(* and opened never exceeds the ceiling.                                   *)
(***************************************************************************)
DayBound ==
    Spent({i \in InDay : row[i].status = "simulated"}) <= MaxUsdPerDay

(***************************************************************************)
(* The queue is an IntentLedger.  An intent is held from the commit of the *)
(* claim until its executor has moved on, so a result that was written but *)
(* whose reply was lost is not settled yet.                                *)
(***************************************************************************)
Holders(i) == {e \in Holding : pc[e] # "locked" /\ job[e] = i}

HolderOf(i) ==
    IF Holders(i) = {} THEN Nobody ELSE CHOOSE e \in Holders(i) : TRUE

StateOf(i) ==
    IF Holders(i) # {} THEN "held"
    ELSE CASE row[i].status = "absent"     -> "absent"
           [] row[i].status = "pending"    -> "queued"
           [] row[i].status = "simulating" -> "orphaned"
           [] OTHER                        -> "settled"

Ledger == INSTANCE IntentLedger
            WITH state <- [i \in Id |-> StateOf(i)],
                 holder <- [i \in Id |-> HolderOf(i)]

LedgerSpec == Ledger!Spec

(***************************************************************************)
(* No intent waits for ever while an executor follows the queue: in the    *)
(* end each one is taken, or every executor has stopped.  And an executor  *)
(* that takes one answers it, or dies.                                     *)
(***************************************************************************)
Taken ==
    \A i \in Id : row[i].status = "pending" ~>
        (row[i].status # "pending" \/ \A e \in Executor : pc[e] = "stopped")

Answered ==
    \A e \in Executor, i \in Id :
        (pc[e] = "claimed" /\ job[e] = i) ~>
            ((row[i].status \in Resolved /\ job[e] # i) \/ pc[e] = "stopped")

=============================================================================
