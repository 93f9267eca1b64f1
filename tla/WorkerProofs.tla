---------------------------- MODULE WorkerProofs ----------------------------
(* That the scheduler keeps OncePerSlot and GivesUpWhenBroken, for any     *)
(* tasks, intervals, failures and length of the run.                       *)
EXTENDS Worker, TLAPS

-----------------------------------------------------------------------------
(* The grid.                                                               *)

LEMMA SlotRange ==
    ASSUME NEW t \in Task, NEW a \in Nat
    PROVE  /\ Slot(t, a) \in Nat /\ Slot(t, a) <= a
           /\ Slot(t, a) * Interval[t] <= a /\ a < (Slot(t, a) + 1) * Interval[t]
<1> DEFINE i == Interval[t]  q == a \div i  r == a % i
<1>1. i \in Nat /\ i > 0
  BY WorkerAssumption DEF Task
<1> HIDE DEF i
<1>2. q \in Int /\ r \in 0..(i - 1) /\ a = i * q + r
  BY <1>1, SMT
<1> HIDE DEF q, r
<1>3. q >= 0
  <2>1. q < 0 => i * q <= -i
    BY <1>1, <1>2, SMT
  <2> QED BY <1>1, <1>2, <2>1, SMT
<1>4. q <= i * q
  BY <1>1, <1>2, <1>3, SMT
<1>5. q * i = i * q /\ (q + 1) * i = i * q + i
  BY <1>1, <1>2, SMT
<1>6. q \in Nat /\ q <= a /\ q * i <= a /\ a < (q + 1) * i
  BY <1>1, <1>2, <1>3, <1>4, <1>5, SMT
<1> QED BY <1>6 DEF i, q, Slot

(* Later times are in later slots,                                         *)
LEMMA SlotMonotone ==
    ASSUME NEW t \in Task, NEW a \in Nat, NEW b \in Nat, a <= b
    PROVE  Slot(t, a) <= Slot(t, b)
<1> DEFINE i == Interval[t]  p == Slot(t, a)  q == Slot(t, b)
<1>1. i \in Nat /\ i > 0
  BY WorkerAssumption DEF Task
<1>2. p \in Nat /\ q \in Nat /\ p * i <= a /\ b < (q + 1) * i
  BY SlotRange
<1> HIDE DEF i, p, q
<1>3. p * i < (q + 1) * i
  BY <1>1, <1>2, SMT
<1>4. p >= q + 1 => p * i >= (q + 1) * i
  BY <1>1, <1>2, SMT
<1>5. p <= q
  BY <1>1, <1>2, <1>3, <1>4, SMT
<1> QED BY <1>5 DEF p, q

(* and the next time a task is due is in a later one.                      *)
LEMMA SlotOfAlign ==
    ASSUME NEW t \in Task, NEW a \in Nat
    PROVE  Align(t, a) \in Nat /\ a < Align(t, a) /\ Slot(t, a) < Slot(t, Align(t, a))
<1> DEFINE i == Interval[t]  q == Slot(t, a)  m == Align(t, a)
<1>1. i \in Nat /\ i > 0
  BY WorkerAssumption DEF Task
<1>2. q \in Nat /\ a < (q + 1) * i
  BY SlotRange
<1>3. m = (q + 1) * i
  BY DEF Align, Slot
<1>4. m \in Nat /\ a < m
  BY <1>1, <1>2, <1>3, SMT
<1>5. Slot(t, m) \in Nat /\ m < (Slot(t, m) + 1) * i
  BY <1>4, SlotRange
<1> DEFINE s == Slot(t, m)
<1> HIDE DEF i, q, m, s
<1>6. (q + 1) * i < (s + 1) * i
  BY <1>1, <1>2, <1>3, <1>5, SMT DEF s
<1>7. s + 1 <= q + 1 => (s + 1) * i <= (q + 1) * i
  BY <1>1, <1>2, <1>5, SMT DEF s
<1>8. q < s
  BY <1>1, <1>2, <1>5, <1>6, <1>7, SMT DEF s
<1> QED BY <1>4, <1>8 DEF q, m, s

-----------------------------------------------------------------------------
(* What holds in every state.                                              *)

(* A run begins in the slot of the clock. *)
RunsBehind ==
    \A t \in Task, k \in 0..MaxNow : starts[t][k] # 0 => k <= Slot(t, now)

(* A task that does not run waits for a slot after its last one. *)
DueAhead ==
    Up => \A t \in Task, k \in 0..MaxNow :
            starts[t][k] # 0 /\ ~(pc = "running" /\ task = t) => k < Slot(t, nextDue[t])

(* What was found due when the pass began still is. *)
StillDue ==
    Up => \A t \in due : nextDue[t] <= now /\ ~(pc = "running" /\ task = t)

(* The count is of failures in a row, and the limit ends the process. *)
InARow(n, r) ==
    /\ n <= Len(r)
    /\ \A j \in 1..Len(r) : j > Len(r) - n => ~r[j]

CountsFailures ==
    /\ \A t \in Task : InARow(failures[t], outcomes[t])
    /\ Up => \A t \in Task : failures[t] < MaxFailures
    /\ pc = "exited" /\ code = 1 => \E t \in Task : failures[t] >= MaxFailures

IInv == TypeOK /\ RunsBehind /\ DueAhead /\ StillDue /\ OncePerSlot /\ CountsFailures

-----------------------------------------------------------------------------
(* A success ends the row of failures, a failure lengthens it by one. *)
LEMMA RowGrows ==
    ASSUME NEW n \in Nat, NEW r \in Seq(BOOLEAN), InARow(n, r), NEW ok \in BOOLEAN
    PROVE  /\ Append(r, ok) \in Seq(BOOLEAN)
           /\ InARow(0, Append(r, ok))
           /\ ~ok => InARow(n + 1, Append(r, ok))
<1>1. /\ Append(r, ok) \in Seq(BOOLEAN)
      /\ Len(Append(r, ok)) = Len(r) + 1 /\ Len(r) \in Nat
      /\ \A j \in 1..Len(r) : Append(r, ok)[j] = r[j]
      /\ Append(r, ok)[Len(r) + 1] = ok
  OBVIOUS
<1> DEFINE a == Append(r, ok)
<1> HIDE DEF a
<1>2. InARow(0, a)
  BY <1>1, SMT DEF InARow, a
<1>3. ASSUME ~ok PROVE InARow(n + 1, a)
  <2>1. n + 1 <= Len(a)
    BY <1>1, SMT DEF InARow, a
  <2>2. ASSUME NEW j \in 1..Len(a), j > Len(a) - (n + 1) PROVE ~a[j]
    <3>1. CASE j = Len(r) + 1
      <4>1. a[j] = ok
        BY <1>1, <3>1 DEF a
      <4> QED BY <4>1, <1>3, Zenon
    <3>2. CASE j # Len(r) + 1
      <4>1. j \in 1..Len(r) /\ j > Len(r) - n
        BY <1>1, <2>2, <3>2, SMT DEF a
      <4>2. a[j] = r[j]
        BY <1>1, <4>1 DEF a
      <4>3. ~r[j]
        BY <4>1, Zenon DEF InARow
      <4> QED BY <4>2, <4>3, Zenon
    <3> QED BY <3>1, <3>2
  <2> QED BY <2>1, <2>2, Zenon DEF InARow
<1> QED BY <1>1, <1>2, <1>3, Zenon DEF a

LEMMA EmptyRow == InARow(0, << >>)
BY SMT DEF InARow

LEMMA InitIInv == Init => IInv
<1> SUFFICES ASSUME Init PROVE IInv
  OBVIOUS
<1> USE WorkerAssumption
<1>1. TypeOK
  <2>1. 0 \in 0..MaxNow /\ 0 \in 0..MaxFailures /\ 0 \in Nat /\ << >> \in Seq(BOOLEAN)
    BY SMT
  <2>2. /\ nextDue \in [Task -> Nat] /\ failures \in [Task -> 0..MaxFailures]
        /\ outcomes \in [Task -> Seq(BOOLEAN)] /\ starts \in [Task -> [0..MaxNow -> Nat]]
    BY <2>1, SMT DEF Init
  <2> QED BY <2>1, <2>2, Zenon DEF Init, TypeOK
<1>2. RunsBehind /\ DueAhead /\ StillDue /\ OncePerSlot
  BY SMT DEF Init, RunsBehind, DueAhead, StillDue, OncePerSlot, Up
<1>3. CountsFailures
  <2>1. \A t \in Task : failures[t] = 0 /\ outcomes[t] = << >>
    BY DEF Init
  <2> QED BY <2>1, EmptyRow, SMT DEF Init, CountsFailures, Up
<1> QED BY <1>1, <1>2, <1>3 DEF IInv

LEMMA TypeOKStep == IInv /\ [Next]_vars => TypeOK'
<1> SUFFICES ASSUME IInv, [Next]_vars PROVE TypeOK'
  OBVIOUS
<1> USE WorkerAssumption DEF Task, NoTask
<1>0. TypeOK /\ CountsFailures
  BY DEF IInv
<1>1. CASE Tick
  <2>1. now' \in 0..MaxNow
    BY <1>0, <1>1, SMT DEF Tick, TypeOK
  <2> QED BY <1>0, <1>1, <2>1, Zenon DEF Tick, TypeOK, loop
<1>2. CASE Start
  <2>1. \A t \in Task : Align(t, now) \in Nat
    BY <1>0, SlotOfAlign DEF TypeOK
  <2>2. nextDue' \in [Task -> Nat]
    BY <1>2, <2>1 DEF Start
  <2>3. failures' \in [Task -> 0..MaxFailures] /\ outcomes' \in [Task -> Seq(BOOLEAN)]
    BY <1>2, SMT DEF Start
  <2> QED BY <1>0, <1>2, <2>2, <2>3, Zenon DEF Start, TypeOK
<1>3. CASE Signal
  BY <1>0, <1>3, Zenon DEF Signal, TypeOK
<1>4. CASE Kill
  BY <1>0, <1>4, Zenon DEF Kill, TypeOK
<1>5. CASE Look
  BY <1>0, <1>5, Zenon DEF Look, TypeOK
<1>6. CASE RunNext
  <2>1. PICK t \in due : task' = t /\ due' = due \ {t}
                         /\ starts' = [starts EXCEPT ![t][Slot(t, now)] = @ + 1]
    BY <1>6 DEF RunNext, Begin
  <2>2. t \in Task /\ due' \subseteq Task /\ now \in Nat /\ now <= MaxNow
    BY <1>0, <2>1 DEF TypeOK
  <2>3. Slot(t, now) \in 0..MaxNow
    <3>1. Slot(t, now) \in Nat /\ Slot(t, now) <= now
      BY <2>2, SlotRange
    <3> HIDE DEF Slot
    <3> QED BY <2>2, <3>1, SMT
  <2>4. starts' \in [Task -> [0..MaxNow -> Nat]]
    <3> DEFINE s == Slot(t, now)
    <3> HIDE DEF s
    <3>1. starts \in [Task -> [0..MaxNow -> Nat]] /\ s \in 0..MaxNow
      BY <1>0, <2>3 DEF TypeOK, s
    <3>2. starts' = [starts EXCEPT ![t][s] = @ + 1]
      BY <2>1 DEF s
    <3>3. starts[t] \in [0..MaxNow -> Nat] /\ starts[t][s] + 1 \in Nat
      <4>1. starts[t] \in [0..MaxNow -> Nat]
        BY <2>2, <3>1, Zenon
      <4>2. starts[t][s] \in Nat
        BY <4>1, <3>1, Zenon
      <4> QED BY ONLY <4>1, <4>2, SMT
    <3>4. [starts[t] EXCEPT ![s] = starts[t][s] + 1] \in [0..MaxNow -> Nat]
      BY <3>1, <3>3
    <3>5. starts' = [starts EXCEPT ![t] = [starts[t] EXCEPT ![s] = starts[t][s] + 1]]
      BY <3>2, Zenon
    <3> QED BY <2>2, <3>1, <3>4, <3>5
  <2>5. pc' = "running" /\ UNCHANGED <<now, stopping, nextDue, failures, code, outcomes>>
    BY <1>6 DEF RunNext, Begin
  <2>6. task' \in Task
    BY <2>1, <2>2
  <2> QED BY <1>0, <2>2, <2>4, <2>5, <2>6, Zenon DEF TypeOK
<1>7. CASE EndPass
  <2>1. due' \subseteq Task
    BY <1>7 DEF EndPass
  <2>2. pc' = "loop" /\ UNCHANGED <<now, stopping, nextDue, failures, task, code, starts, outcomes>>
    BY <1>7 DEF EndPass
  <2> QED BY <1>0, <2>1, <2>2, Zenon DEF TypeOK
<1>8. ASSUME NEW ok \in BOOLEAN, Finished(ok)
      PROVE  nextDue' \in [Task -> Nat] /\ outcomes' \in [Task -> Seq(BOOLEAN)]
  <2>1. task \in Task /\ Align(task, now) \in Nat
    BY <1>0, <1>8, SlotOfAlign DEF TypeOK, Finished
  <2>2. Append(outcomes[task], ok) \in Seq(BOOLEAN)
    BY <1>0, <2>1 DEF TypeOK
  <2> QED BY <1>0, <1>8, <2>1, <2>2 DEF TypeOK, Finished
<1>9. CASE Succeed
  <2>1. failures' \in [Task -> 0..MaxFailures]
    BY <1>0, <1>9, SMT DEF TypeOK, Succeed, Finished, AfterSuccess
  <2> QED BY <1>0, <1>8, <1>9, <2>1, Zenon DEF TypeOK, Succeed, Finished
<1>10. CASE Fail
  <2>1. failures[task] + 1 \in 0..MaxFailures
    <3>1. task \in Task /\ failures[task] \in 0..MaxFailures
      BY <1>0, <1>10, Zenon DEF TypeOK, Fail, Finished
    <3>2. failures[task] < MaxFailures
      BY <1>0, <1>10, <3>1, Zenon DEF CountsFailures, Up, Fail, Finished
    <3> QED BY <3>1, <3>2, SMT
  <2>2. failures' \in [Task -> 0..MaxFailures]
    BY <1>0, <1>10, <2>1 DEF TypeOK, Fail
  <2>3. pc' \in {"pass", "exited"} /\ code' \in {0, 1}
    BY <1>0, <1>10 DEF TypeOK, Fail
  <2>4. nextDue' \in [Task -> Nat] /\ outcomes' \in [Task -> Seq(BOOLEAN)]
    BY <1>8, <1>10 DEF Fail
  <2> QED BY <1>0, <1>10, <2>2, <2>3, <2>4, Zenon DEF TypeOK, Fail, Finished
<1>11. CASE Stop
  BY <1>0, <1>11, Zenon DEF Stop, TypeOK
<1>12. CASE UNCHANGED vars
  BY <1>0, <1>12, Zenon DEF TypeOK, vars, loop
<1> QED BY <1>1, <1>2, <1>3, <1>4, <1>5, <1>6, <1>7, <1>9, <1>10, <1>11, <1>12 DEF Next, Step

(* The slot in which a run begins has had none: the task was due. *)
LEMMA RunBegins ==
    ASSUME IInv, RunNext
    PROVE  /\ task' \in due /\ due' = due \ {task'} /\ task' \in Task
           /\ Slot(task', now) \in 0..MaxNow
           /\ starts[task'][Slot(task', now)] = 0
           /\ \A t \in Task, k \in 0..MaxNow :
                starts'[t][k] = IF t = task' /\ k = Slot(task', now)
                                THEN starts[t][k] + 1 ELSE starts[t][k]
<1>1. PICK t \in due : task' = t /\ due' = due \ {t}
                       /\ starts' = [starts EXCEPT ![t][Slot(t, now)] = @ + 1]
  BY DEF RunNext, Begin
<1>2. t \in Task /\ now \in Nat /\ now <= MaxNow /\ MaxNow \in Nat
  BY <1>1, WorkerAssumption DEF IInv, TypeOK
<1> DEFINE s == Slot(t, now)
<1>3. s \in 0..MaxNow
  <2>1. s \in Nat /\ s <= now
    BY <1>2, SlotRange
  <2> HIDE DEF s
  <2> QED BY <1>2, <2>1, SMT
<1>4. starts \in [Task -> [0..MaxNow -> Nat]] /\ nextDue[t] \in Nat
  BY <1>2, Zenon DEF IInv, TypeOK
<1>5. starts[t][s] \in Nat
  <2>1. starts[t] \in [0..MaxNow -> Nat]
    BY <1>2, <1>4, Zenon
  <2> QED BY <2>1, <1>3, Zenon
<1>6. starts[t][s] = 0
  <2> SUFFICES ASSUME starts[t][s] # 0 PROVE FALSE
    OBVIOUS
  <2>1. Up /\ pc # "running"
    BY DEF RunNext, Begin, Up
  <2>2. s < Slot(t, nextDue[t])
    BY <2>1, <1>2, <1>3, Zenon DEF IInv, DueAhead
  <2>3. nextDue[t] <= now
    BY <2>1, <1>1, Zenon DEF IInv, StillDue
  <2>4. Slot(t, nextDue[t]) <= s
    BY <1>2, <1>4, <2>3, SlotMonotone
  <2>5. Slot(t, nextDue[t]) \in Nat
    BY <1>2, <1>4, SlotRange
  <2> HIDE DEF s
  <2> QED BY <1>3, <2>2, <2>4, <2>5, SMT
<1>7. ASSUME NEW u \in Task, NEW k \in 0..MaxNow
      PROVE  starts'[u][k] = IF u = t /\ k = s THEN starts[u][k] + 1 ELSE starts[u][k]
  <2>1. starts' = [starts EXCEPT ![t] = [starts[t] EXCEPT ![s] = starts[t][s] + 1]]
    BY <1>1, Zenon
  <2>2. starts[t] \in [0..MaxNow -> Nat]
    BY <1>2, <1>4, Zenon
  <2> HIDE DEF s
  <2>3. CASE u = t
    <3>1. starts'[u] = [starts[t] EXCEPT ![s] = starts[t][s] + 1]
      BY <1>2, <1>4, <2>1, <2>3, Zenon
    <3> QED BY <1>3, <2>2, <2>3, <3>1, Zenon
  <2>4. CASE u # t
    BY <1>2, <1>4, <2>1, <2>4, Zenon
  <2> QED BY <2>3, <2>4
<1>8. \A u \in Task, k \in 0..MaxNow :
        starts'[u][k] = IF u = t /\ k = Slot(t, now) THEN starts[u][k] + 1 ELSE starts[u][k]
  BY <1>7, Zenon
<1>9. task' = t
  BY <1>1
<1>10. t \in Task /\ Slot(t, now) \in 0..MaxNow /\ starts[t][Slot(t, now)] = 0
  BY <1>2, <1>3, <1>6
<1> HIDE DEF s
<1>11. \A u \in Task, k \in 0..MaxNow :
        starts'[u][k] = IF u = task' /\ k = Slot(task', now) THEN starts[u][k] + 1 ELSE starts[u][k]
  BY ONLY <1>8, <1>9, SMT
<1>12. task' \in due /\ due' = due \ {task'}
  BY ONLY <1>1, <1>9, SMT
<1>13. task' \in Task /\ Slot(task', now) \in 0..MaxNow /\ starts[task'][Slot(task', now)] = 0
  BY ONLY <1>9, <1>10, SMT
<1> QED BY ONLY <1>11, <1>12, <1>13, Zenon

(* Only RunNext writes starts, only Tick the clock. *)
LEMMA Unwritten ==
    ASSUME IInv, [Next]_vars
    PROVE  /\ starts' = starts \/ RunNext
           /\ now' = now \/ (Tick /\ now' = now + 1)
BY Zenon DEF Next, Step, Tick, Start, Signal, Kill, Look, EndPass, Succeed, Fail,
             Finished, Stop, RunNext, Begin, vars

LEMMA RunsBehindStep == IInv /\ [Next]_vars => RunsBehind' /\ OncePerSlot'
<1> SUFFICES ASSUME IInv, [Next]_vars PROVE RunsBehind' /\ OncePerSlot'
  OBVIOUS
<1>1. now \in Nat
  BY SMT DEF IInv, TypeOK
<1>2. ASSUME NEW t \in Task, NEW k \in 0..MaxNow
      PROVE  (starts'[t][k] # 0 => k <= Slot(t, now')) /\ starts'[t][k] <= 1
  <2>1. starts[t][k] <= 1 /\ (starts[t][k] # 0 => k <= Slot(t, now))
    BY Zenon DEF IInv, OncePerSlot, RunsBehind
  <2>2. CASE RunNext
    <3>1. now' = now
      BY <2>2 DEF RunNext, Begin
    <3>2. CASE t = task' /\ k = Slot(task', now)
      <4>1. starts[t][k] = 0 /\ starts'[t][k] = starts[t][k] + 1
        BY <2>2, <3>2, RunBegins, Zenon
      <4>2. k <= Slot(t, now')
        <5>1. k = Slot(t, now')
          BY <3>1, <3>2, Zenon
        <5> HIDE DEF Slot
        <5> QED BY <5>1, SMT
      <4> QED BY <4>1, <4>2, SMT
    <3>3. CASE ~(t = task' /\ k = Slot(task', now))
      <4>1. starts'[t][k] = starts[t][k]
        BY <2>2, <3>3, RunBegins, Zenon
      <4> QED BY <4>1, <3>1, <2>1, Zenon
    <3> QED BY <3>2, <3>3
  <2>3. CASE starts' = starts
    <3>1. CASE now' = now
      BY <2>1, <2>3, <3>1, Zenon
    <3>2. CASE now' = now + 1
      <4>1. Slot(t, now) <= Slot(t, now')
        BY <1>1, <3>2, SlotMonotone, SMT
      <4>2. Slot(t, now) \in Nat /\ Slot(t, now') \in Nat
        <5>1. now' \in Nat
          BY <1>1, <3>2
        <5> QED BY <1>1, <5>1, SlotRange
      <4> HIDE DEF Slot
      <4> QED BY <2>1, <2>3, <4>1, <4>2, SMT
    <3> QED BY <3>1, <3>2, Unwritten
  <2> QED BY <2>2, <2>3, Unwritten
<1> QED BY <1>2, Zenon DEF RunsBehind, OncePerSlot

(* A slot that a finished run has passed is over for its task. *)
LEMMA AheadAfterAlign ==
    ASSUME IInv, NEW t \in Task, NEW k \in 0..MaxNow, starts[t][k] # 0
    PROVE  k < Slot(t, Align(t, now))
<1>1. now \in Nat
  BY SMT DEF IInv, TypeOK
<1>2. k <= Slot(t, now)
  BY Zenon DEF IInv, RunsBehind
<1>3. Slot(t, now) < Slot(t, Align(t, now)) /\ Align(t, now) \in Nat
  BY <1>1, SlotOfAlign
<1>4. Slot(t, now) \in Nat /\ Slot(t, Align(t, now)) \in Nat
  BY <1>1, <1>3, SlotRange
<1> DEFINE a == Slot(t, now)  b == Slot(t, Align(t, now))
<1> HIDE DEF a, b
<1>5. k <= a /\ a < b /\ a \in Nat /\ b \in Nat
  BY <1>2, <1>3, <1>4 DEF a, b
<1>6. k < b
  BY <1>5, SMT
<1> QED BY <1>6 DEF b

(* What the end of a run does to the slots its tasks wait for. *)
LEMMA FinishedDue ==
    ASSUME IInv, NEW ok \in BOOLEAN, Finished(ok)
    PROVE  /\ task \in Task
           /\ \A t \in Task : nextDue'[t] = IF t = task THEN Align(t, now) ELSE nextDue[t]
           /\ Up /\ task \notin due /\ task' = NoTask /\ due' = due
           /\ now' = now /\ starts' = starts
<1>1. task \in Task /\ nextDue \in [Task -> Nat] /\ pc = "running"
  BY Zenon DEF IInv, TypeOK, Finished
<1>2. Up
  BY <1>1 DEF Up
<1>3. task \notin due
  BY <1>1, <1>2, Zenon DEF IInv, StillDue
<1>4. \A t \in Task : nextDue'[t] = IF t = task THEN Align(t, now) ELSE nextDue[t]
  BY <1>1, Zenon DEF Finished
<1> QED BY <1>1, <1>2, <1>3, <1>4, Zenon DEF Finished

LEMMA DueAheadStep == IInv /\ [Next]_vars => DueAhead'
<1> SUFFICES ASSUME IInv, [Next]_vars, Up', NEW t \in Task, NEW k \in 0..MaxNow,
                    starts'[t][k] # 0, ~(pc' = "running" /\ task' = t)
             PROVE  k < Slot(t, nextDue'[t])
  BY Zenon DEF DueAhead
<1>1. ASSUME starts[t][k] # 0, Up, ~(pc = "running" /\ task = t)
      PROVE  k < Slot(t, nextDue[t])
  BY <1>1, Zenon DEF IInv, DueAhead
<1>2. CASE Start
  <2>1. starts[t][k] # 0 /\ nextDue'[t] = Align(t, now)
    BY <1>2, Zenon DEF Start
  <2> QED BY <2>1, AheadAfterAlign
<1>3. CASE Tick
  BY <1>1, <1>3, Zenon DEF Tick, loop, Up
<1>4. CASE Signal
  BY <1>1, <1>4, Zenon DEF Signal, Up
<1>5. CASE Kill
  BY <1>5 DEF Kill, Up
<1>6. CASE Look
  <2>1. starts[t][k] # 0 /\ nextDue' = nextDue /\ Up /\ pc # "running"
    BY <1>6 DEF Look, Up
  <2> QED BY <2>1, <1>1, Zenon
<1>7. CASE RunNext
  <2>1. Up /\ pc # "running" /\ nextDue' = nextDue /\ task' # t
    BY <1>7 DEF RunNext, Begin, Up
  <2>2. starts'[t][k] = starts[t][k]
    BY <1>7, <2>1, RunBegins, Zenon
  <2> QED BY <2>1, <2>2, <1>1, Zenon
<1>8. CASE EndPass
  <2>1. starts[t][k] # 0 /\ nextDue' = nextDue /\ Up /\ pc # "running"
    BY <1>8 DEF EndPass, Up
  <2> QED BY <2>1, <1>1, Zenon
<1>9. ASSUME NEW ok \in BOOLEAN, Finished(ok) PROVE k < Slot(t, nextDue'[t])
  <2>1. starts[t][k] # 0
    BY <1>9, FinishedDue, Zenon
  <2>2. CASE t = task
    <3>1. nextDue'[t] = Align(t, now)
      BY <1>9, <2>2, FinishedDue, Zenon
    <3> QED BY <2>1, <3>1, AheadAfterAlign
  <2>3. CASE t # task
    BY <1>9, <1>1, <2>1, <2>3, FinishedDue, Zenon
  <2> QED BY <2>2, <2>3
<1>10. CASE Succeed
  BY <1>9, <1>10, Zenon DEF Succeed
<1>11. CASE Fail
  BY <1>9, <1>11, Zenon DEF Fail
<1>12. CASE Stop
  BY <1>12 DEF Stop, Up
<1>13. CASE UNCHANGED vars
  BY <1>1, <1>13, Zenon DEF vars, loop, Up
<1> QED BY <1>2, <1>3, <1>4, <1>5, <1>6, <1>7, <1>8, <1>10, <1>11, <1>12, <1>13, Zenon DEF Next, Step

LEMMA StillDueStep == IInv /\ [Next]_vars => StillDue'
<1> SUFFICES ASSUME IInv, [Next]_vars, Up', NEW t \in due'
             PROVE  nextDue'[t] <= now' /\ ~(pc' = "running" /\ task' = t)
  BY Zenon DEF StillDue
<1>0. due \subseteq Task /\ nextDue \in [Task -> Nat] /\ now \in Nat
  BY SMT DEF IInv, TypeOK
<1>1. ASSUME Up, t \in due
      PROVE  nextDue[t] <= now /\ ~(pc = "running" /\ task = t)
  BY <1>1, Zenon DEF IInv, StillDue
<1>2. CASE Start
  BY <1>2 DEF Start
<1>3. CASE Tick
  <2>1. Up /\ t \in due /\ nextDue' = nextDue /\ pc' = pc /\ task' = task /\ now' = now + 1
    BY <1>3, Zenon DEF Tick, loop, Up
  <2>2. nextDue[t] \in Nat
    BY <1>0, <2>1
  <2> QED BY <1>0, <1>1, <2>1, <2>2, SMT
<1>4. CASE Signal
  BY <1>1, <1>4, Zenon DEF Signal, Up
<1>5. CASE Kill
  BY <1>5 DEF Kill, Up
<1>6. CASE Look
  <2>1. now >= nextDue[t] /\ nextDue' = nextDue /\ now' = now /\ pc' = "pass" /\ t \in Task
    BY <1>6 DEF Look, Due
  <2>2. nextDue[t] \in Nat
    BY <1>0, <2>1
  <2> QED BY <1>0, <2>1, <2>2, SMT
<1>7. CASE RunNext
  <2>1. t \in due /\ t # task' /\ Up
    BY <1>7, RunBegins DEF RunNext, Begin, Up
  <2> QED BY <1>1, <1>7, <2>1, Zenon DEF RunNext, Begin
<1>8. CASE EndPass
  BY <1>8 DEF EndPass
<1>9. ASSUME NEW ok \in BOOLEAN, Finished(ok)
      PROVE  nextDue'[t] <= now' /\ ~(task' = t)
  <2>1. t \in Task /\ t \in due /\ t # task /\ Up
    BY <1>0, <1>9, FinishedDue, Zenon
  <2>2. task' = NoTask /\ t # NoTask
    BY <1>9, <2>1, FinishedDue, SMT DEF Task, NoTask
  <2>3. nextDue'[t] = nextDue[t] /\ now' = now
    BY <1>9, <2>1, FinishedDue, Zenon
  <2> QED BY <1>1, <2>1, <2>2, <2>3, Zenon
<1>10. CASE Succeed
  BY <1>9, <1>10, Zenon DEF Succeed
<1>11. CASE Fail
  BY <1>9, <1>11, Zenon DEF Fail
<1>12. CASE Stop
  BY <1>12 DEF Stop, Up
<1>13. CASE UNCHANGED vars
  BY <1>1, <1>13, Zenon DEF vars, loop, Up
<1> QED BY <1>2, <1>3, <1>4, <1>5, <1>6, <1>7, <1>8, <1>10, <1>11, <1>12, <1>13, Zenon DEF Next, Step

LEMMA CountsFailuresStep == IInv /\ [Next]_vars => CountsFailures'
<1> SUFFICES ASSUME IInv, [Next]_vars PROVE CountsFailures'
  OBVIOUS
<1>0. CountsFailures /\ failures \in [Task -> 0..MaxFailures] /\ MaxFailures \in Nat \ {0}
      /\ outcomes \in [Task -> Seq(BOOLEAN)]
  BY WorkerAssumption, Zenon DEF IInv, TypeOK
<1>1. CASE UNCHANGED <<failures, outcomes>> /\ (Up' => Up) /\ (pc' = "exited" /\ code' = 1 => pc = "exited" /\ code = 1)
  BY <1>0, <1>1, Zenon DEF CountsFailures
<1>2. CASE Start
  <2>1. \A t \in Task : failures'[t] = 0 /\ outcomes'[t] = << >>
    BY <1>2 DEF Start
  <2>2. \A t \in Task : InARow(failures'[t], outcomes'[t])
    BY <2>1, EmptyRow, Zenon
  <2>3. pc' # "exited" /\ \A t \in Task : failures'[t] < MaxFailures
    BY <1>0, <1>2, <2>1, SMT DEF Start
  <2> QED BY <2>2, <2>3, Zenon DEF CountsFailures
<1>3. ASSUME NEW ok \in BOOLEAN, Finished(ok), NEW n,
             failures' = [failures EXCEPT ![task] = n],
             (ok /\ n = 0) \/ (~ok /\ n = failures[task] + 1)
      PROVE  /\ \A t \in Task : InARow(failures'[t], outcomes'[t])
             /\ task \in Task /\ failures'[task] = n
             /\ \A t \in Task : t # task => failures'[t] = failures[t]
             /\ \A t \in Task : failures[t] < MaxFailures
  <2>1. task \in Task /\ Up
    BY <1>3, FinishedDue, Zenon
  <2>2. /\ failures'[task] = n /\ outcomes'[task] = Append(outcomes[task], ok)
        /\ \A t \in Task : t # task => failures'[t] = failures[t] /\ outcomes'[t] = outcomes[t]
    BY <1>0, <1>3, <2>1, Zenon DEF Finished
  <2>3. failures[task] \in Nat /\ outcomes[task] \in Seq(BOOLEAN) /\ InARow(failures[task], outcomes[task])
    <3>1. failures[task] \in 0..MaxFailures /\ outcomes[task] \in Seq(BOOLEAN)
      BY <1>0, <2>1, Zenon
    <3>2. InARow(failures[task], outcomes[task])
      BY <1>0, <2>1, Zenon DEF CountsFailures
    <3> QED BY <3>1, <3>2, SMT
  <2>4. InARow(n, Append(outcomes[task], ok))
    BY <1>3, <2>3, RowGrows, Zenon
  <2>5. ASSUME NEW t \in Task PROVE InARow(failures'[t], outcomes'[t])
    <3>1. CASE t = task
      BY <2>2, <2>4, <3>1, Zenon
    <3>2. CASE t # task
      BY <1>0, <2>2, <3>2, Zenon DEF CountsFailures
    <3> QED BY <3>1, <3>2
  <2> QED BY <1>0, <2>1, <2>2, <2>5, Zenon DEF CountsFailures
<1>4. CASE Succeed
  <2>1. Finished(TRUE) /\ failures' = [failures EXCEPT ![task] = 0] /\ pc' = "pass"
    BY <1>4, Zenon DEF Succeed, AfterSuccess
  <2>2. /\ \A t \in Task : InARow(failures'[t], outcomes'[t])
        /\ task \in Task /\ failures'[task] = 0
        /\ \A t \in Task : t # task => failures'[t] = failures[t]
        /\ \A t \in Task : failures[t] < MaxFailures
    BY <2>1, <1>3, Zenon
  <2>3. \A t \in Task : failures'[t] < MaxFailures
    BY <1>0, <2>2, SMT
  <2> QED BY <2>1, <2>2, <2>3, Zenon DEF CountsFailures
<1>5. CASE Fail
  <2>1. Finished(FALSE) /\ failures' = [failures EXCEPT ![task] = failures[task] + 1]
    BY <1>5, Zenon DEF Fail
  <2>2. /\ \A t \in Task : InARow(failures'[t], outcomes'[t])
        /\ task \in Task /\ failures'[task] = failures[task] + 1
        /\ \A t \in Task : t # task => failures'[t] = failures[t]
        /\ \A t \in Task : failures[t] < MaxFailures
    BY <2>1, <1>3, Zenon
  <2>3. CASE failures[task] + 1 >= MaxFailures
    <3>1. pc' = "exited" /\ failures'[task] >= MaxFailures
      BY <1>5, <2>2, <2>3, Zenon DEF Fail
    <3> QED BY <2>2, <3>1 DEF CountsFailures, Up
  <2>4. CASE ~(failures[task] + 1 >= MaxFailures)
    <3>1. pc' = "pass"
      BY <1>5, <2>4, Zenon DEF Fail
    <3>2. failures'[task] < MaxFailures
      <4>1. failures[task] \in 0..MaxFailures
        BY <1>0, <2>2, Zenon
      <4> QED BY <1>0, <2>2, <2>4, <4>1, SMT
    <3>3. \A t \in Task : failures'[t] < MaxFailures
      BY <2>2, <3>2, Zenon
    <3> QED BY <2>2, <3>1, <3>3, Zenon DEF CountsFailures
  <2> QED BY <2>3, <2>4
<1>6. CASE Stop
  <2>1. code' = 0 /\ pc' = "exited" /\ UNCHANGED <<failures, outcomes>>
    BY <1>6 DEF Stop
  <2> QED BY <1>0, <2>1 DEF CountsFailures, Up
<1>7. CASE Tick \/ Signal \/ Kill \/ Look \/ RunNext \/ EndPass \/ UNCHANGED vars
  BY <1>1, <1>7 DEF Tick, Signal, Kill, Look, RunNext, Begin, EndPass, vars, loop, Up
<1> QED BY <1>2, <1>4, <1>5, <1>6, <1>7, Zenon DEF Next, Step

-----------------------------------------------------------------------------
LEMMA Inductive == Spec => []IInv
<1>1. IInv /\ [Next]_vars => IInv'
  BY TypeOKStep, RunsBehindStep, DueAheadStep, StillDueStep, CountsFailuresStep, Zenon DEF IInv
<1> QED BY InitIInv, <1>1, PTL DEF Spec

(***************************************************************************)
(* The state of the scheduler stays well typed: Task and Worker.run of     *)
(* worker.py, whatever the intervals.                                      *)
(***************************************************************************)
THEOREM TypeCorrect == Spec => []TypeOK
<1>1. IInv => TypeOK
  BY DEF IInv
<1> QED BY Inductive, <1>1, PTL

(***************************************************************************)
(* A slot of the grid has one run of its task at most, whatever the runs   *)
(* before it took and however often the process was started again: the     *)
(* alignment of next_due in worker.py, and with it the dedupe key of the   *)
(* intents.                                                                *)
(***************************************************************************)
THEOREM OneRunPerSlot == Spec => []OncePerSlot
<1>1. IInv => OncePerSlot
  BY DEF IInv
<1> QED BY Inductive, <1>1, PTL

(***************************************************************************)
(* The exit with code 1 has MaxFailures failures of one task in a row      *)
(* behind it: failures and its reset in Worker.run.                        *)
(***************************************************************************)
THEOREM GivesUpRightly == Spec => []GivesUpWhenBroken
<1>1. IInv => GivesUpWhenBroken
  <2> SUFFICES ASSUME IInv, pc = "exited", code = 1
               PROVE  \E t \in Task :
                        /\ Len(outcomes[t]) >= MaxFailures
                        /\ \A n \in (Len(outcomes[t]) - MaxFailures + 1)..Len(outcomes[t]) :
                             ~outcomes[t][n]
    BY Zenon DEF GivesUpWhenBroken
  <2>1. PICK t \in Task : failures[t] >= MaxFailures
    BY Zenon DEF IInv, CountsFailures
  <2>2. failures[t] \in 0..MaxFailures /\ outcomes[t] \in Seq(BOOLEAN)
    BY Zenon DEF IInv, TypeOK
  <2>3. MaxFailures \in Nat /\ failures[t] = MaxFailures /\ Len(outcomes[t]) \in Nat
    BY <2>1, <2>2, WorkerAssumption, SMT
  <2>4. InARow(MaxFailures, outcomes[t])
    BY <2>3, Zenon DEF IInv, CountsFailures
  <2>5. Len(outcomes[t]) >= MaxFailures
    BY <2>3, <2>4, SMT DEF InARow
  <2>6. ASSUME NEW n \in (Len(outcomes[t]) - MaxFailures + 1)..Len(outcomes[t])
        PROVE  ~outcomes[t][n]
    <3>1. n \in 1..Len(outcomes[t]) /\ n > Len(outcomes[t]) - MaxFailures
      BY <2>3, <2>5, <2>6, SMT
    <3> QED BY <2>4, <3>1, Zenon DEF InARow
  <2> QED BY <2>5, <2>6, Zenon
<1> QED BY Inductive, <1>1, PTL

=============================================================================
