------------------------------- MODULE Worker -------------------------------
(***************************************************************************)
(* The scheduler: ingest/worker.py, as cmd_worker starts it and pm2 keeps  *)
(* it up.  One thread runs a few tasks on a wall-clock grid, survives      *)
(* their failures, finishes the current run on SIGTERM, and exits non-zero *)
(* when one task has failed too often in a row.                            *)
(*                                                                         *)
(* Abstracted: what a task does, to whether it returns or raises; time, to *)
(* a whole number of ticks, any number of which pass in any state.         *)
(***************************************************************************)
EXTENDS Integers, Sequences

CONSTANTS
    NTask,        \* tasks are 1..NTask, in the order of the list
    Interval,     \* seconds between two slots of each
    MaxFailures,  \* max_failures
    MaxNow        \* bound: the clock stops here

ASSUME WorkerAssumption ==
    /\ NTask \in Nat
    /\ Interval \in [1..NTask -> Nat \ {0}]
    /\ MaxFailures \in Nat \ {0}
    /\ MaxNow \in Nat

Task   == 1..NTask
NoTask == 0

VARIABLES
    now,       \* time.time()
    pc,        \* "down", "loop", "pass", "running" or "exited"
    stopping,  \* a signal came
    nextDue, failures,
    due,       \* tasks of this pass not run yet
    task,      \* the task that runs
    code,      \* how the process exited
    starts,    \* history: runs begun in each slot of each task
    outcomes   \* history: results of each task since the start, newest last

loop == <<pc, stopping, nextDue, failures, due, task, code>>
vars == <<now, loop, starts, outcomes>>

Slot(t, time) == time \div Interval[t]

(* Variant: the slot that has begun counts. *)
AlignHere(t, time) == (time \div Interval[t]) * Interval[t]

Align(t, time) == (time \div Interval[t] + 1) * Interval[t]

(* Variant: a slot is met or missed. *)
DueExactly(t) == now = nextDue[t]

Due(t) == now >= nextDue[t]

Up == pc \in {"loop", "pass", "running"}

Init ==
    /\ now = 0
    /\ pc = "down"
    /\ stopping = FALSE
    /\ nextDue = [t \in Task |-> 0]
    /\ failures = [t \in Task |-> 0]
    /\ due = {}
    /\ task = NoTask
    /\ code = 0
    /\ starts = [t \in Task |-> [k \in 0..MaxNow |-> 0]]
    /\ outcomes = [t \in Task |-> << >>]

Tick ==
    /\ now < MaxNow
    /\ now' = now + 1
    /\ UNCHANGED <<loop, starts, outcomes>>

(* pm2 or an operator starts the process: Task.__init__ for every task. *)
Start ==
    /\ ~Up
    /\ pc' = "loop"
    /\ stopping' = FALSE
    /\ nextDue' = [t \in Task |-> Align(t, now)]
    /\ failures' = [t \in Task |-> 0]
    /\ due' = {} /\ task' = NoTask
    /\ outcomes' = [t \in Task |-> << >>]
    /\ UNCHANGED <<now, code, starts>>

(* SIGTERM or SIGINT, at any point. *)
Signal ==
    /\ Up
    /\ stopping' = TRUE
    /\ UNCHANGED <<now, pc, nextDue, failures, due, task, code, starts, outcomes>>

(* SIGKILL after kill_timeout, or the memory limit. *)
Kill ==
    /\ Up
    /\ pc' = "down"
    /\ UNCHANGED <<now, stopping, nextDue, failures, due, task, code, starts, outcomes>>

(* The head of the while loop; with nothing due it sleeps for a second. *)
Look ==
    /\ pc = "loop" /\ ~stopping
    /\ due' = {t \in Task : Due(t)}
    /\ due' # {}
    /\ pc' = "pass"
    /\ UNCHANGED <<now, stopping, nextDue, failures, task, code, starts, outcomes>>

(* Task t, the first of those left, begins its run. *)
Begin(t) ==
    /\ t \in due
    /\ \A u \in due : t <= u
    /\ task' = t
    /\ due' = due \ {t}
    /\ starts' = [starts EXCEPT ![t][Slot(t, now)] = @ + 1]
    /\ pc' = "running"
    /\ UNCHANGED <<now, stopping, nextDue, failures, code, outcomes>>

(* Variant: a signal is looked at between two passes only. *)
RunNextServesPass ==
    /\ pc = "pass"
    /\ \E t \in due : Begin(t)

(* One round of the for loop: the test of the flag, and the call of run().  *)
(* A signal that comes between the two finds the run begun.                 *)
RunNext ==
    /\ pc = "pass" /\ ~stopping
    /\ \E t \in due : Begin(t)

EndPass ==
    /\ pc = "pass" /\ (due = {} \/ stopping)
    /\ pc' = "loop"
    /\ due' = {}
    /\ UNCHANGED <<now, stopping, nextDue, failures, task, code, starts, outcomes>>

(* The finally clause, and what the run leaves behind. *)
Finished(ok) ==
    /\ pc = "running"
    /\ nextDue' = [nextDue EXCEPT ![task] = Align(task, now)]
    /\ outcomes' = [outcomes EXCEPT ![task] = Append(@, ok)]
    /\ task' = NoTask
    /\ UNCHANGED <<now, stopping, due, starts>>

(* Variant: a success takes one failure back. *)
AfterSuccessDecays(n) == n - 1

(* Variant: the count is of failures, not of failures in a row. *)
AfterSuccessKept(n) == n

AfterSuccess(n) == 0

Succeed ==
    /\ Finished(TRUE)
    /\ failures' = [failures EXCEPT ![task] = AfterSuccess(@)]
    /\ pc' = "pass"
    /\ UNCHANGED code

Fail ==
    /\ Finished(FALSE)
    /\ failures' = [failures EXCEPT ![task] = @ + 1]
    /\ IF failures[task] + 1 >= MaxFailures
       THEN pc' = "exited" /\ code' = 1
       ELSE pc' = "pass" /\ UNCHANGED code

(* return 0 *)
Stop ==
    /\ pc = "loop" /\ stopping
    /\ pc' = "exited" /\ code' = 0
    /\ UNCHANGED <<now, stopping, nextDue, failures, due, task, starts, outcomes>>

Step == Look \/ RunNext \/ EndPass \/ Succeed \/ Fail \/ Stop

Next == Tick \/ Start \/ Signal \/ Kill \/ Step

Spec == Init /\ [][Next]_vars

(* The loop goes on, and every run ends: each call a task makes returns or *)
(* raises.  That the process is started again is not assumed.              *)
FairSpec == Spec /\ WF_vars(Step)

-----------------------------------------------------------------------------
TypeOK ==
    /\ now \in 0..MaxNow
    /\ pc \in {"down", "loop", "pass", "running", "exited"}
    /\ stopping \in BOOLEAN
    /\ nextDue \in [Task -> Nat]
    /\ failures \in [Task -> 0..MaxFailures]
    /\ due \subseteq Task
    /\ task \in Task \cup {NoTask}
    /\ (pc = "running" => task \in Task)
    /\ code \in {0, 1}
    /\ starts \in [Task -> [0..MaxNow -> Nat]]
    /\ outcomes \in [Task -> Seq(BOOLEAN)]

(***************************************************************************)
(* "restarting the worker does not shift the sampling grid": a slot of the *)
(* grid has one run of its task at most, however long the runs before it   *)
(* took, whatever failed, and however often the process was killed and     *)
(* started again within it.  The dedupe key of the intents (one per slot)  *)
(* rests on this.                                                          *)
(***************************************************************************)
OncePerSlot == \A t \in Task, k \in 0..MaxNow : starts[t][k] <= 1

(***************************************************************************)
(* "exits non-zero when it is genuinely broken": the process gives up only *)
(* after MaxFailures runs of one task since the start that all failed, and *)
(* no successful run of that task came between them.                       *)
(***************************************************************************)
GivesUpWhenBroken ==
    pc = "exited" /\ code = 1 =>
        \E t \in Task :
            /\ Len(outcomes[t]) >= MaxFailures
            /\ \A n \in (Len(outcomes[t]) - MaxFailures + 1)..Len(outcomes[t]) :
                 ~outcomes[t][n]

(***************************************************************************)
(* A slot that was missed while another task ran is made up for: a task    *)
(* that is due gets its run, or the process is on its way out.             *)
(***************************************************************************)
DueRuns ==
    \A t \in Task :
        (Up /\ now >= nextDue[t]) ~> ((pc = "running" /\ task = t) \/ stopping \/ ~Up)

(***************************************************************************)
(* "finishing current tick then exiting": once a signal has come the run   *)
(* that goes on is the last.  However many tasks of the pass, or slots     *)
(* that come due while it lasts, wait behind it, none of them begins a run *)
(* before the process is gone; and it does go.                             *)
(***************************************************************************)
Obeys ==
    /\ (Up /\ stopping) ~> ~Up
    /\ [][stopping => starts' = starts]_vars

=============================================================================
