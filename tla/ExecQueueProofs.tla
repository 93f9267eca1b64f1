--------------------------- MODULE ExecQueueProofs ---------------------------
(***************************************************************************)
(* Theorems about ExecQueue, for any number of executors and intents and   *)
(* any limits: an intent has one executor, the queue implements the        *)
(* ledger, the hourly ceiling is missed by less than the number of         *)
(* executors, and the daily ceiling is kept.                               *)
(***************************************************************************)
EXTENDS ExecQueue, SumTheorems

USE ExecQueueAssumption

(* TypeOK without what a window says, which is a sum. *)
Types ==
    /\ row \in [Id -> Row]
    /\ pc \in [Executor -> Stage]
    /\ job \in [Executor -> Id \cup {NoId}]
    /\ verdict \in [Executor -> Resolved]
    /\ crashes \in Nat

JobHeld == \A e \in Executor : job[e] # NoId <=> e \in Holding

OneHolder == \A e, f \in Holding : job[e] = job[f] => e = f

StatusAt(stage) ==
    IF stage = "locked" THEN {"pending"}
    ELSE IF stage = "catching" THEN {"simulating"} \cup Resolved
    ELSE {"simulating"}

StatusRight == \A e \in Holding : row[job[e]].status \in StatusAt(pc[e])

(* Intents that a dead executor has left behind. *)
Orphans == {i \in Id : row[i].status = "simulating" /\ \A e \in Executor : job[e] # i}

FewOrphans == Cardinality(Orphans) <= crashes

IInv == Types /\ JobHeld /\ OneHolder /\ StatusRight /\ FewOrphans

-----------------------------------------------------------------------------
(* There are finitely many intents, so finitely many are orphaned.         *)
LEMMA OrphansFinite == IsFiniteSet(Orphans)
  <1>1. Orphans \in SUBSET Id
        BY DEF Orphans
  <1>2. IsFiniteSet(Id)
        BY FS_Interval DEF Id
  <1> QED BY <1>1, <1>2, FS_Subset

LEMMA FewerOrphans ==
    ASSUME NEW S \in SUBSET Orphans
    PROVE  Cardinality(S) \in Nat /\ Cardinality(S) <= Cardinality(Orphans)
           /\ Cardinality(Orphans) \in Nat
  BY OrphansFinite, FS_Subset, FS_CardinalityType

(* The invariant holds before any intent is recorded.                      *)
LEMMA InitIInv == Init => IInv
  <1> SUFFICES ASSUME Init PROVE IInv
      OBVIOUS
  <1>1. row \in [Id -> Row]
        BY DEF Init, Absent, Row, Kind
  <1>2. Types
        BY <1>1 DEF Init, Types, Stage, Resolved
  <1>3. Holding = {}
        BY DEF Init, Holding
  <1>4. JobHeld /\ OneHolder /\ StatusRight
        BY <1>3 DEF Init, JobHeld, OneHolder, StatusRight
  <1>5. Orphans = {}
        BY DEF Init, Orphans, Absent
  <1>6. FewOrphans
        BY <1>5, FS_EmptySet DEF FewOrphans, Init
  <1> QED BY <1>2, <1>4, <1>6 DEF IInv

(* What holds of the executor that takes a step. *)
LEMMA HolderFacts ==
    ASSUME IInv, NEW e \in Holding
    PROVE  /\ e \in Executor
           /\ job[e] \in Id
           /\ row[job[e]].status \in StatusAt(pc[e])
           /\ \A f \in Executor \ {e} : job[f] # job[e]
  <1>1. e \in Executor
        BY DEF Holding
  <1>2. job[e] \in Id
        BY <1>1 DEF IInv, JobHeld, Types
  <1>3. ASSUME NEW f \in Executor, f # e, job[f] = job[e]
        PROVE  FALSE
    <2>1. job[f] # NoId
          BY <1>2, <1>3 DEF Id, NoId
    <2>2. f \in Holding
          BY <2>1 DEF IInv, JobHeld
    <2> QED BY <2>2, <1>3 DEF IInv, OneHolder
  <1> QED BY <1>1, <1>2, <1>3 DEF IInv, StatusRight

-----------------------------------------------------------------------------
(* The steps. *)

(* Steps that leave jobs, statuses and who holds something alone. *)
LEMMA QuietStep ==
    ASSUME IInv, job' = job, row' \in [Id -> Row], pc' \in [Executor -> Stage],
           verdict' \in [Executor -> Resolved], crashes' = crashes, Holding' = Holding,
           \A i \in Id : row'[i].status = row[i].status,
           \A e \in Holding : StatusAt(pc[e]) \subseteq StatusAt(pc'[e])
    PROVE  IInv'
  <1>1. Types'
        BY DEF IInv, Types
  <1>2. JobHeld' /\ OneHolder'
        BY DEF IInv, JobHeld, OneHolder
  <1>3. StatusRight'
    <2> SUFFICES ASSUME NEW e \in Holding
                 PROVE  row'[job[e]].status \in StatusAt(pc'[e])
        BY DEF StatusRight, StatusAt
    <2> QED BY HolderFacts
  <1>4. Orphans' = Orphans
        BY DEF Orphans
  <1>5. FewOrphans'
        BY <1>4 DEF IInv, FewOrphans
  <1> QED BY <1>1, <1>2, <1>3, <1>5 DEF IInv

(* Each kind of step keeps it: an intent is recorded,                      *)
LEMMA RecordStep ==
    ASSUME IInv, NEW i \in Id, NEW k \in Kind, NEW usd \in Usd, NEW lag \in 0..MaxLag,
           clock \in Nat, Record(i, k, usd, lag)
    PROVE  IInv'
  <1>1. /\ row[i].status = "absent"
        /\ row' = [row EXCEPT ![i] = [status |-> "pending", kind |-> k, usd |-> usd,
                                      created |-> clock - lag, resolved |-> 0]]
        /\ UNCHANGED <<pc, job, verdict, crashes>>
        BY DEF Record, executors
  <1>2. row' \in [Id -> Row]
    <2>1. usd \in Nat /\ clock - lag \in Int
          OBVIOUS
    <2>2. [status |-> "pending", kind |-> k, usd |-> usd,
           created |-> clock - lag, resolved |-> 0] \in Row
          BY <2>1 DEF Row
    <2> QED BY <1>1, <2>2 DEF IInv, Types
  <1>3. /\ row'[i].status = "pending"
        /\ \A j \in Id \ {i} : row'[j] = row[j]
        BY <1>1 DEF IInv, Types
  <1>4. Holding' = Holding
        BY <1>1 DEF Holding
  <1>5. Types'
        BY <1>1, <1>2 DEF IInv, Types
  <1>6. JobHeld' /\ OneHolder'
        BY <1>1, <1>4 DEF IInv, JobHeld, OneHolder
  <1>7. StatusRight'
    <2> SUFFICES ASSUME NEW e \in Holding
                 PROVE  row'[job[e]].status \in StatusAt(pc[e])
        BY <1>1, <1>4 DEF StatusRight, StatusAt
    <2>1. job[e] \in Id /\ row[job[e]].status \in StatusAt(pc[e])
          BY HolderFacts
    <2>2. job[e] # i
          BY <2>1, <1>1 DEF StatusAt, Resolved
    <2> QED BY <2>1, <2>2, <1>3
  <1>8. Orphans' = Orphans
        BY <1>1, <1>3 DEF Orphans
  <1>9. FewOrphans'
        BY <1>1, <1>8 DEF IInv, FewOrphans
  <1> QED BY <1>5, <1>6, <1>7, <1>9 DEF IInv

(* an executor locks the oldest pending intent,                            *)
LEMMA LockStep ==
    ASSUME IInv, NEW e \in Executor, Lock(e)
    PROVE  IInv'
  <1>1. pc[e] = "idle" /\ UNCHANGED <<row, verdict, crashes>>
        BY DEF Lock
  <1>2. PICK i \in Oldest(Claimable) : job' = [job EXCEPT ![e] = i]
        BY DEF Lock
  <1>3. i \in Id /\ row[i].status = "pending" /\ i \notin Locked
        BY DEF Oldest, Claimable
  <1>4. pc' = [pc EXCEPT ![e] = "locked"]
        BY DEF Lock
  <1>5. /\ job'[e] = i /\ pc'[e] = "locked"
        /\ \A f \in Executor \ {e} : job'[f] = job[f] /\ pc'[f] = pc[f]
        BY <1>2, <1>4 DEF IInv, Types
  <1>6. Holding' = Holding \cup {e}
        BY <1>5 DEF Holding
  <1>7. Types'
        BY <1>1, <1>2, <1>3, <1>4 DEF IInv, Types, Stage
  <1>8. JobHeld'
    <2>1. i # NoId
          BY <1>3 DEF Id, NoId
    <2> QED BY <2>1, <1>5, <1>6 DEF IInv, JobHeld
  <1>9. ASSUME NEW f \in Holding, job[f] = i
        PROVE  FALSE
    <2>1. f \in Executor /\ row[i].status \in StatusAt(pc[f])
          BY <1>9, HolderFacts
    <2>2. pc[f] = "locked"
          BY <2>1, <1>3 DEF StatusAt, Resolved
    <2> QED BY <2>1, <2>2, <1>3, <1>9 DEF Locked
  <1>10. e \notin Holding
         BY <1>1 DEF Holding
  <1>11. \A f \in Holding : f # e /\ f \in Executor /\ job'[f] = job[f] /\ pc'[f] = pc[f]
         BY <1>5, <1>10 DEF Holding
  <1>12. OneHolder'
    <2> SUFFICES ASSUME NEW f \in Holding', NEW g \in Holding', job'[f] = job'[g]
                 PROVE  f = g
        BY DEF OneHolder
    <2>1. CASE f = e
          BY <2>1, <1>5, <1>6, <1>9, <1>11
    <2>2. CASE g = e
          BY <2>2, <1>5, <1>6, <1>9, <1>11
    <2>3. CASE f # e /\ g # e
          BY <2>3, <1>6, <1>11 DEF IInv, OneHolder
    <2> QED BY <2>1, <2>2, <2>3
  <1>13. StatusRight'
    <2> SUFFICES ASSUME NEW f \in Holding'
                 PROVE  row[job'[f]].status \in StatusAt(pc'[f])
        BY <1>1 DEF StatusRight, StatusAt
    <2>1. CASE f = e
          BY <2>1, <1>3, <1>5 DEF StatusAt
    <2>2. CASE f # e
          BY <2>2, <1>6, <1>11 DEF IInv, StatusRight
    <2> QED BY <2>1, <2>2
  <1>14. job[e] = NoId
         BY <1>10 DEF IInv, JobHeld
  <1>15. Orphans' \in SUBSET Orphans
    <2> SUFFICES ASSUME NEW j \in Id, row[j].status = "simulating",
                        \A f \in Executor : job'[f] # j, NEW f \in Executor
                 PROVE  job[f] # j
        BY <1>1 DEF Orphans
    <2>1. CASE f = e
          BY <2>1, <1>14 DEF Id, NoId
    <2>2. CASE f # e
          BY <2>2, <1>5
    <2> QED BY <2>1, <2>2
  <1>16. FewOrphans'
         BY <1>1, <1>15, FewerOrphans DEF IInv, FewOrphans, Types
  <1> QED BY <1>7, <1>8, <1>12, <1>13, <1>16 DEF IInv

(* A holder writes a status to its row and goes on. *)
LEMMA WriteStep ==
    ASSUME IInv, NEW e \in Holding, job' = job, crashes' = crashes,
           row' \in [Id -> Row], pc' \in [Executor -> Stage],
           verdict' \in [Executor -> Resolved],
           pc'[e] \notin {"stopped", "idle"},
           \A f \in Executor \ {e} : pc'[f] = pc[f],
           \A i \in Id \ {job[e]} : row'[i].status = row[i].status,
           row'[job[e]].status \in StatusAt(pc'[e])
    PROVE  IInv'
  <1>1. e \in Executor /\ pc[e] \notin {"stopped", "idle"}
        BY DEF Holding
  <1>2. Holding' = Holding
        BY <1>1 DEF Holding
  <1>3. Types'
        BY DEF IInv, Types
  <1>4. JobHeld' /\ OneHolder'
        BY <1>2 DEF IInv, JobHeld, OneHolder
  <1>5. StatusRight'
    <2> SUFFICES ASSUME NEW f \in Holding
                 PROVE  row'[job[f]].status \in StatusAt(pc'[f])
        BY <1>2 DEF StatusRight, StatusAt
    <2>1. CASE f = e
          BY <2>1
    <2>2. CASE f # e
      <3>1. f \in Executor /\ job[f] \in Id /\ row[job[f]].status \in StatusAt(pc[f])
            BY HolderFacts
      <3>2. job[f] # job[e]
            BY <2>2, <3>1, HolderFacts
      <3> QED BY <2>2, <3>1, <3>2
    <2> QED BY <2>1, <2>2
  <1>6. Orphans' \in SUBSET Orphans
        BY <1>1 DEF Orphans
  <1>7. FewOrphans'
        BY <1>6, FewerOrphans DEF IInv, FewOrphans, Types
  <1> QED BY <1>3, <1>4, <1>5, <1>7 DEF IInv

(* claims it,                                                              *)
LEMMA ClaimStep ==
    ASSUME IInv, NEW e \in Executor, Claim(e)
    PROVE  IInv'
  <1>1. /\ pc[e] = "locked"
        /\ row' = [row EXCEPT ![job[e]].status = "simulating"]
        /\ pc' = [pc EXCEPT ![e] = "claimed"]
        /\ UNCHANGED <<job, verdict, crashes>>
        BY DEF Claim
  <1>2. e \in Holding
        BY <1>1 DEF Holding
  <1>3. job[e] \in Id
        BY <1>2, HolderFacts
  <1>4. /\ row' \in [Id -> Row]
        /\ row'[job[e]].status = "simulating"
        /\ \A i \in Id \ {job[e]} : row'[i] = row[i]
        BY <1>1, <1>3 DEF IInv, Types, Row
  <1>5. /\ pc' \in [Executor -> Stage]
        /\ pc'[e] = "claimed"
        /\ \A f \in Executor \ {e} : pc'[f] = pc[f]
        BY <1>1 DEF IInv, Types, Stage
  <1>6. "simulating" \in StatusAt("claimed")
        BY DEF StatusAt
  <1>7. verdict' \in [Executor -> Resolved]
        BY <1>1 DEF IInv, Types
  <1> QED BY <1>1, <1>2, <1>4, <1>5, <1>6, <1>7, WriteStep

(* What resolve writes. *)
LEMMA WrittenType ==
    ASSUME IInv, NEW e \in Holding, clock \in Nat
    PROVE  /\ Written(e) \in [Id -> Row]
           /\ Written(e)[job[e]].status = verdict[e]
           /\ verdict[e] \in Resolved
           /\ \A i \in Id \ {job[e]} : Written(e)[i] = row[i]
  <1>1. e \in Executor /\ job[e] \in Id
        BY HolderFacts
  <1>2. verdict[e] \in Resolved
        BY <1>1 DEF IInv, Types
  <1>3. row[job[e]] \in Row
        BY <1>1 DEF IInv, Types
  <1>4. Written(e) = [row EXCEPT ![job[e]] =
                        [row[job[e]] EXCEPT !.status = verdict[e], !.resolved = clock]]
        BY <1>1, <1>3 DEF IInv, Types, Written, Row
  <1>5. [row[job[e]] EXCEPT !.status = verdict[e], !.resolved = clock] \in Row
        BY <1>2, <1>3 DEF Row
  <1>6. [row[job[e]] EXCEPT !.status = verdict[e], !.resolved = clock].status = verdict[e]
        BY <1>3 DEF Row
  <1> QED BY <1>1, <1>2, <1>4, <1>5, <1>6 DEF IInv, Types

(* fails to write the outcome,                                             *)
LEMMA ResolveThrowsStep ==
    ASSUME IInv, NEW e \in Executor, clock \in Nat, ResolveThrows(e)
    PROVE  IInv'
  <1>1. /\ pc[e] = "resolving"
        /\ row' \in {row, Written(e)}
        /\ pc' = [pc EXCEPT ![e] = "catching"]
        /\ verdict' = [verdict EXCEPT ![e] = "failed"]
        /\ UNCHANGED <<job, crashes>>
        BY DEF ResolveThrows
  <1>2. e \in Holding
        BY <1>1 DEF Holding
  <1>3. job[e] \in Id /\ row[job[e]].status \in StatusAt(pc[e])
        BY <1>2, HolderFacts
  <1>4. /\ row' \in [Id -> Row]
        /\ row'[job[e]].status \in {"simulating"} \cup Resolved
        /\ \A i \in Id \ {job[e]} : row'[i] = row[i]
        BY <1>1, <1>2, <1>3, WrittenType DEF IInv, Types, StatusAt
  <1>5. /\ pc' \in [Executor -> Stage]
        /\ pc'[e] = "catching"
        /\ \A f \in Executor \ {e} : pc'[f] = pc[f]
        BY <1>1 DEF IInv, Types, Stage
  <1>6. verdict' \in [Executor -> Resolved]
        BY <1>1 DEF IInv, Types, Resolved
  <1>7. row'[job[e]].status \in StatusAt(pc'[e])
        BY <1>4, <1>5 DEF StatusAt
  <1> QED BY <1>1, <1>2, <1>4, <1>5, <1>6, <1>7, WriteStep

(* A holder lets go of its row, which is simulating only if it has died.   *)
LEMMA LetGoStep ==
    ASSUME IInv, NEW e \in Executor, Forget(e),
           row' \in [Id -> Row], crashes' \in Nat, crashes' >= crashes,
           pc' \in [Executor -> Stage], pc'[e] \in {"stopped", "idle"},
           \A f \in Executor \ {e} : pc'[f] = pc[f],
           \A i \in Id \ {job[e]} : row'[i] = row[i],
           \/ crashes' = crashes + 1 /\ row' = row
           \/ job[e] \in Id /\ row'[job[e]].status # "simulating"
    PROVE  IInv'
  <1>1. job' = [job EXCEPT ![e] = NoId] /\ verdict' = [verdict EXCEPT ![e] = "failed"]
        BY DEF Forget
  <1>2. job'[e] = NoId /\ \A f \in Executor \ {e} : job'[f] = job[f]
        BY <1>1 DEF IInv, Types
  <1>3. Holding' = Holding \ {e}
        BY DEF Holding
  <1>4. Types'
        BY <1>1 DEF IInv, Types, Resolved
  <1>5. JobHeld'
        BY <1>2, <1>3 DEF IInv, JobHeld
  <1>6. \A f \in Holding' : f # e /\ f \in Holding /\ f \in Executor
        BY <1>3 DEF Holding
  <1>7. OneHolder'
        BY <1>2, <1>6 DEF IInv, OneHolder
  <1>8. StatusRight'
    <2> SUFFICES ASSUME NEW f \in Holding'
                 PROVE  row'[job[f]].status \in StatusAt(pc[f])
        BY <1>2, <1>6 DEF StatusRight, StatusAt
    <2>1. f \in Holding /\ f # e
          BY <1>6
    <2>2. job[f] \in Id /\ row[job[f]].status \in StatusAt(pc[f]) /\ job[e] # job[f]
          BY <2>1, HolderFacts
    <2> QED BY <2>2
  <1>9. Cardinality(Orphans) \in Nat /\ Cardinality(Orphans) <= crashes
        BY FewerOrphans DEF IInv, FewOrphans
  <1>10. FewOrphans'
    <2>1. CASE crashes' = crashes + 1 /\ row' = row
      <3>1. Orphans' \in SUBSET (Orphans \cup {job[e]})
            BY <2>1, <1>2 DEF Orphans
      <3>2. /\ IsFiniteSet(Orphans \cup {job[e]})
            /\ Cardinality(Orphans \cup {job[e]}) <= Cardinality(Orphans) + 1
            /\ Cardinality(Orphans \cup {job[e]}) \in Nat
        <4>1. /\ IsFiniteSet(Orphans \cup {job[e]})
              /\ Cardinality(Orphans \cup {job[e]}) =
                   IF job[e] \in Orphans THEN Cardinality(Orphans) ELSE Cardinality(Orphans) + 1
              BY OrphansFinite, FS_AddElement
        <4> QED BY <4>1, <1>9
      <3>3. /\ Cardinality(Orphans') <= Cardinality(Orphans \cup {job[e]})
            /\ Cardinality(Orphans') \in Nat
            BY <3>1, <3>2, FS_Subset, FS_CardinalityType
      <3> QED BY <2>1, <1>9, <3>2, <3>3 DEF FewOrphans, IInv, Types
    <2>2. CASE job[e] \in Id /\ row'[job[e]].status # "simulating"
      <3>1. Orphans' \in SUBSET Orphans
        <4> SUFFICES ASSUME NEW j \in Orphans'
                     PROVE  j \in Orphans
            OBVIOUS
        <4>1. j \in Id /\ row'[j].status = "simulating" /\ \A f \in Executor : job'[f] # j
              BY DEF Orphans
        <4>2. j # job[e]
              BY <2>2, <4>1
        <4>3. \A f \in Executor : job[f] # j
              BY <1>2, <4>1, <4>2
        <4> QED BY <4>1, <4>2, <4>3 DEF Orphans
      <3>2. Cardinality(Orphans') \in Nat /\ Cardinality(Orphans') <= Cardinality(Orphans)
            BY <3>1, FewerOrphans
      <3> QED BY <1>9, <3>2 DEF FewOrphans, IInv, Types
    <2> QED BY <2>1, <2>2
  <1> QED BY <1>4, <1>5, <1>7, <1>8, <1>10 DEF IInv

(* writes it,                                                              *)
LEMMA ResolveStep ==
    ASSUME IInv, NEW e \in Executor, clock \in Nat, Resolve(e)
    PROVE  IInv'
  <1>1. /\ pc[e] \in {"refused", "resolving", "catching"}
        /\ row' = Written(e)
        /\ pc' = [pc EXCEPT ![e] = "idle"]
        /\ Forget(e)
        /\ crashes' = crashes
        BY DEF Resolve
  <1>2. e \in Holding
        BY <1>1 DEF Holding
  <1>3. /\ row' \in [Id -> Row]
        /\ job[e] \in Id
        /\ row'[job[e]].status # "simulating"
        /\ \A i \in Id \ {job[e]} : row'[i] = row[i]
        BY <1>1, <1>2, WrittenType, HolderFacts DEF Resolved
  <1>4. /\ pc' \in [Executor -> Stage]
        /\ pc'[e] = "idle"
        /\ \A f \in Executor \ {e} : pc'[f] = pc[f]
        BY <1>1 DEF IInv, Types, Stage
  <1>5. crashes' \in Nat /\ crashes' >= crashes
        BY <1>1 DEF IInv, Types
  <1> QED BY <1>1, <1>3, <1>4, <1>5, LetGoStep

(* or dies with an intent in hand.                                         *)
LEMMA CrashStep ==
    ASSUME IInv, NEW e \in Executor, Crash(e)
    PROVE  IInv'
  <1>1. /\ crashes' = crashes + 1
        /\ pc' = [pc EXCEPT ![e] = "stopped"]
        /\ Forget(e)
        /\ row' = row
        BY DEF Crash
  <1>2. /\ pc' \in [Executor -> Stage]
        /\ pc'[e] = "stopped"
        /\ \A f \in Executor \ {e} : pc'[f] = pc[f]
        BY <1>1 DEF IInv, Types, Stage
  <1>3. crashes' \in Nat /\ crashes' >= crashes /\ row' \in [Id -> Row]
        BY <1>1 DEF IInv, Types
  <1> QED BY <1>1, <1>2, <1>3, LetGoStep

(* Drain, Start, and the steps of a holder that write no row. *)
LEMMA MoveStep ==
    ASSUME IInv, NEW e \in Executor,
           \/ Drain(e) \/ Start(e) \/ ReadWindow(e) \/ Check(e) \/ Build(e)
    PROVE  IInv'
  <1>1. row' = row /\ job' = job /\ crashes' = crashes
        BY DEF Drain, Start, ReadWindow, Check, Build
  <1>2. /\ pc' \in [Executor -> Stage]
        /\ \A f \in Executor \ {e} : pc'[f] = pc[f]
        /\ pc[e] \in {"stopped", "idle"} <=> pc'[e] \in {"stopped", "idle"}
        /\ pc[e] \notin {"locked", "catching"} /\ pc'[e] \notin {"locked", "catching"}
        BY DEF IInv, Types, Stage, Drain, Start, ReadWindow, Check, Build
  <1>3. verdict' \in [Executor -> Resolved]
        BY DEF IInv, Types, Outcome, Resolved, Drain, Start, ReadWindow, Check, Build
  <1>4. Holding' = Holding
        BY <1>2 DEF Holding
  <1>5. \A f \in Holding : StatusAt(pc[f]) \subseteq StatusAt(pc'[f])
        BY <1>2 DEF StatusAt, Holding
  <1> QED BY <1>1, <1>2, <1>3, <1>4, <1>5, QuietStep DEF IInv, Types

ClockType == clock \in Nat

(* The clock is a number of ticks.                                         *)
LEMMA ClockCorrect == Spec => []ClockType
  <1>1. Init => ClockType
        BY DEF Init, ClockType
  <1>2. ClockType /\ [Next]_vars => ClockType'
    <2> SUFFICES ASSUME ClockType, [Next]_vars PROVE clock' \in Nat
        BY DEF ClockType
    <2>1. CASE Tick
          BY <2>1 DEF Tick, ClockType
    <2>2. CASE ToggleHalt \/ UNCHANGED vars
          BY <2>2 DEF ToggleHalt, vars, ClockType
    <2>3. ASSUME NEW i \in Id, NEW k \in Kind, NEW usd \in Usd, NEW lag \in 0..MaxLag,
                 Record(i, k, usd, lag)
          PROVE  clock' \in Nat
          BY <2>3 DEF Record, ClockType
    <2>4. ASSUME NEW e \in Executor, Step(e) \/ ResolveThrows(e) \/ Crash(e) \/ Start(e)
          PROVE  clock' \in Nat
      <3>1. clock' = clock
            BY <2>4 DEF Step, Lock, Claim, Drain, ReadWindow, Check, Build, Resolve,
                        ResolveThrows, Crash, Start
      <3> QED BY <3>1 DEF ClockType
    <2> QED BY <2>1, <2>2, <2>3, <2>4 DEF Next
  <1> QED BY <1>1, <1>2, PTL DEF Spec

(* The inductive invariant: jobs, stages and statuses of the queue agree.  *)
THEOREM Invariance == Spec => []IInv
  <1>1. IInv /\ ClockType /\ [Next]_vars => IInv'
    <2> SUFFICES ASSUME IInv, clock \in Nat, [Next]_vars PROVE IInv'
        BY DEF ClockType
    <2>1. CASE Tick \/ ToggleHalt \/ UNCHANGED vars
      <3>1. UNCHANGED <<row, pc, job, verdict, crashes>>
            BY <2>1 DEF Tick, ToggleHalt, vars, executors
      <3>2. Holding' = Holding
            BY <3>1 DEF Holding
      <3> QED BY <3>1, <3>2, QuietStep DEF IInv, Types
    <2>2. ASSUME NEW i \in Id, NEW k \in Kind, NEW usd \in Usd, NEW lag \in 0..MaxLag,
                 Record(i, k, usd, lag)
          PROVE  IInv'
          BY <2>2, RecordStep
    <2>3. ASSUME NEW e \in Executor, Step(e) \/ ResolveThrows(e) \/ Crash(e) \/ Start(e)
          PROVE  IInv'
          BY <2>3, LockStep, ClaimStep, MoveStep, ResolveStep, ResolveThrowsStep, CrashStep
          DEF Step
    <2> QED BY <2>1, <2>2, <2>3 DEF Next
  <1> QED BY InitIInv, ClockCorrect, <1>1, PTL DEF Spec

(***************************************************************************)
(* An intent has one executor at most, and a claimed intent without one is *)
(* there only because its executor died.                                   *)
(***************************************************************************)
THEOREM OneExecutorEach == Spec => []ClaimExclusive
  <1>1. IInv => ClaimExclusive
    <2> SUFFICES ASSUME IInv PROVE ClaimExclusive
        OBVIOUS
    <2>1. /\ \A e \in Executor : job[e] # NoId <=> e \in Holding
          /\ \A e, f \in Holding : job[e] = job[f] => e = f
          BY DEF IInv, JobHeld, OneHolder
    <2>2. \A e \in Holding :
            row[job[e]].status \in IF pc[e] = "locked" THEN {"pending"}
                                   ELSE IF pc[e] = "catching" THEN {"simulating"} \cup Resolved
                                   ELSE {"simulating"}
          BY DEF IInv, StatusRight, StatusAt
    <2>3. Cardinality({i \in Id : row[i].status = "simulating"
                                  /\ \A e \in Executor : job[e] # i}) <= crashes
          BY DEF IInv, FewOrphans, Orphans
    <2> QED BY <2>1, <2>2, <2>3 DEF ClaimExclusive
  <1> QED BY Invariance, <1>1, PTL

-----------------------------------------------------------------------------
(***************************************************************************)
(* Refinement.  The ledger sees an intent's holder and, where there is     *)
(* none, its status; a step that leaves those alone is a stutter, and no   *)
(* step of ExecQueue changes them for two intents.                         *)
(***************************************************************************)

LEMMA SameIntent ==
    ASSUME NEW i \in Id, Holders(i)' = Holders(i),
           Holders(i) # {} \/ row'[i].status = row[i].status
    PROVE  StateOf(i)' = StateOf(i) /\ HolderOf(i)' = HolderOf(i)
  <1>1. HolderOf(i)' = HolderOf(i)
        BY DEF HolderOf
  <1>2. CASE Holders(i) # {}
        BY <1>1, <1>2 DEF StateOf
  <1>3. CASE Holders(i) = {}
        BY <1>1, <1>3 DEF StateOf
  <1> QED BY <1>2, <1>3

(* An intent with the same holders and status is the same in the ledger.   *)
LEMMA Stutter ==
    ASSUME \A i \in Id : /\ Holders(i)' = Holders(i)
                         /\ Holders(i) # {} \/ row'[i].status = row[i].status
    PROVE  UNCHANGED <<[i \in Id |-> StateOf(i)], [i \in Id |-> HolderOf(i)]>>
  <1>1. \A i \in Id : StateOf(i)' = StateOf(i) /\ HolderOf(i)' = HolderOf(i)
        BY SameIntent
  <1> QED BY <1>1

(* Every other intent is the same. *)
LEMMA OneMoves ==
    ASSUME NEW i \in Id,
           \A j \in Id \ {i} : Holders(j)' = Holders(j) /\ row'[j].status = row[j].status
    PROVE  /\ [j \in Id |-> StateOf(j)]' = [[j \in Id |-> StateOf(j)] EXCEPT ![i] = StateOf(i)']
           /\ [j \in Id |-> HolderOf(j)]' = [[j \in Id |-> HolderOf(j)] EXCEPT ![i] = HolderOf(i)']
  <1>1. \A j \in Id \ {i} : StateOf(j)' = StateOf(j) /\ HolderOf(j)' = HolderOf(j)
        BY SameIntent
  <1> QED BY <1>1

(* Who holds an intent, by what it does to it. *)
LEMMA SoleHolder ==
    ASSUME IInv, NEW e \in Holding, pc[e] # "locked"
    PROVE  Holders(job[e]) = {e} /\ HolderOf(job[e]) = e /\ StateOf(job[e]) = "held"
  <1>1. Holders(job[e]) = {e}
        BY HolderFacts DEF Holders, Holding
  <1> QED BY <1>1 DEF HolderOf, StateOf

(* Who the ledger says has an intent holds it.                             *)
LEMMA HolderHolds ==
    ASSUME NEW i \in Id, NEW e \in Executor, HolderOf(i) = e
    PROVE  e \in Holders(i)
  <1>1. Nobody # e
        OBVIOUS
  <1>2. Holders(i) # {}
        BY <1>1 DEF HolderOf
  <1> QED BY <1>2 DEF HolderOf

(* An empty queue is an empty ledger.                                      *)
LEMMA InitMaps == Init => Ledger!Init
  <1> SUFFICES ASSUME Init PROVE Ledger!Init
      OBVIOUS
  <1>1. \A i \in Id : Holders(i) = {}
        BY DEF Init, Holders, Holding
  <1>2. \A i \in Id : HolderOf(i) = Nobody /\ StateOf(i) = "absent"
        BY <1>1 DEF HolderOf, StateOf, Init, Absent
  <1> QED BY <1>2 DEF Ledger!Init

(* Recording, claiming, resolving and dying are steps of the ledger.       *)
LEMMA RecordMaps ==
    ASSUME IInv, NEW i \in Id, NEW k \in Kind, NEW usd \in Usd, NEW lag \in 0..MaxLag,
           Record(i, k, usd, lag)
    PROVE  Ledger!Submit(i)
  <1>1. /\ row[i].status = "absent"
        /\ row'[i].status = "pending"
        /\ \A j \in Id \ {i} : row'[j] = row[j]
        BY DEF Record, IInv, Types
  <1>2. UNCHANGED <<pc, job>>
        BY DEF Record, executors
  <1>3. \A j \in Id : Holders(j)' = Holders(j)
        BY <1>2 DEF Holders, Holding
  <1>4. Holders(i) = {}
    <2> SUFFICES ASSUME NEW e \in Holding, job[e] = i PROVE FALSE
        BY DEF Holders
    <2>1. row[i].status \in StatusAt(pc[e])
          BY HolderFacts
    <2> QED BY <2>1, <1>1 DEF StatusAt, Resolved
  <1>5. StateOf(i) = "absent" /\ StateOf(i)' = "queued"
        BY <1>1, <1>3, <1>4 DEF StateOf
  <1>6. HolderOf(i)' = HolderOf(i)
        BY <1>3, <1>4 DEF HolderOf
  <1>7. UNCHANGED [j \in Id |-> HolderOf(j)]
        BY <1>1, <1>3, <1>6, SameIntent
  <1> QED BY <1>1, <1>3, <1>5, <1>7, OneMoves DEF Ledger!Submit

LEMMA ClaimMaps ==
    ASSUME IInv, NEW e \in Executor, NEW i \in Id, job[e] = i, Claim(e)
    PROVE  Ledger!Take(e, i)
  <1>1. /\ pc[e] = "locked"
        /\ row' = [row EXCEPT ![job[e]].status = "simulating"]
        /\ pc' = [pc EXCEPT ![e] = "claimed"]
        /\ job' = job
        BY DEF Claim
  <1>2. e \in Holding
        BY <1>1 DEF Holding
  <1>3. /\ row[i].status \in StatusAt(pc[e])
        /\ \A f \in Executor \ {e} : job[f] # i
        BY <1>2, HolderFacts
  <1>4. row[i].status = "pending"
        BY <1>1, <1>3 DEF StatusAt
  <1>5. \A j \in Id \ {i} : row'[j] = row[j]
        BY <1>1, <1>3 DEF IInv, Types
  <1>6. pc'[e] = "claimed" /\ \A f \in Executor \ {e} : pc'[f] = pc[f]
        BY <1>1 DEF IInv, Types
  <1>7. Holders(i) = {}
        BY <1>1, <1>3 DEF Holders, Holding
  <1>8. Holders(i)' = {e}
        BY <1>1, <1>3, <1>6 DEF Holders, Holding
  <1>9. ASSUME NEW j \in Id \ {i}
        PROVE  Holders(j)' = Holders(j)
        BY <1>1, <1>6, <1>9 DEF Holders, Holding
  <1>10. StateOf(i) = "queued"
         BY <1>4, <1>7 DEF StateOf
  <1>11. StateOf(i)' = "held" /\ HolderOf(i)' = e
         BY <1>8 DEF StateOf, HolderOf
  <1>12. \A j \in Id : HolderOf(j) # e
    <2> SUFFICES ASSUME NEW j \in Id, HolderOf(j) = e PROVE FALSE
        OBVIOUS
    <2>1. e \in Holders(j)
          BY HolderHolds
    <2> QED BY <2>1, <1>1 DEF Holders
  <1>13. /\ [j \in Id |-> StateOf(j)]' = [[j \in Id |-> StateOf(j)] EXCEPT ![i] = "held"]
         /\ [j \in Id |-> HolderOf(j)]' = [[j \in Id |-> HolderOf(j)] EXCEPT ![i] = e]
         BY <1>3, <1>5, <1>9, <1>11, OneMoves
  <1> QED BY <1>3, <1>10, <1>12, <1>13 DEF Ledger!Take

(* A holder stops or goes back to the head of the loop. *)
LEMMA LetGoMaps ==
    ASSUME IInv, NEW e \in Holding, NEW i \in Id, job[e] = i, pc[e] # "locked",
           pc'[e] \in {"stopped", "idle"},
           \A f \in Executor \ {e} : pc'[f] = pc[f] /\ job'[f] = job[f],
           \A j \in Id \ {i} : row'[j] = row[j],
           row'[i].status \in {"simulating"} \cup Resolved
    PROVE  Ledger!Settle(e, i) \/ Ledger!Abandon(e, i)
  <1>1. /\ e \in Executor
        /\ \A f \in Executor \ {e} : job[f] # i
        BY HolderFacts
  <1>2. HolderOf(i) = e
        BY SoleHolder
  <1>3. Holders(i)' = {}
        BY <1>1 DEF Holders, Holding
  <1>4. ASSUME NEW j \in Id \ {i}
        PROVE  Holders(j)' = Holders(j)
        BY <1>1, <1>4 DEF Holders, Holding
  <1>5. HolderOf(i)' = Nobody
        BY <1>3 DEF HolderOf
  <1>6. StateOf(i)' \in {"settled", "orphaned"}
        BY <1>3 DEF StateOf, Resolved
  <1>7. /\ [j \in Id |-> StateOf(j)]'
             = [[j \in Id |-> StateOf(j)] EXCEPT ![i] = StateOf(i)']
        /\ [j \in Id |-> HolderOf(j)]' = [[j \in Id |-> HolderOf(j)] EXCEPT ![i] = Nobody]
        BY <1>1, <1>4, <1>5, OneMoves
  <1> QED BY <1>1, <1>2, <1>6, <1>7 DEF Ledger!Settle, Ledger!Abandon, Ledger!Release

LEMMA ResolveMaps ==
    ASSUME IInv, clock \in Nat, NEW e \in Executor, Resolve(e)
    PROVE  \E i \in Id : Ledger!Settle(e, i) \/ Ledger!Abandon(e, i)
  <1>1. /\ pc[e] \in {"refused", "resolving", "catching"}
        /\ row' = Written(e)
        /\ pc' = [pc EXCEPT ![e] = "idle"]
        /\ job' = [job EXCEPT ![e] = NoId]
        BY DEF Resolve, Forget
  <1>2. e \in Holding /\ pc[e] # "locked"
        BY <1>1 DEF Holding
  <1>3. /\ row'[job[e]].status \in Resolved
        /\ \A j \in Id \ {job[e]} : row'[j] = row[j]
        BY <1>1, <1>2, WrittenType
  <1>4. pc'[e] = "idle" /\ \A f \in Executor \ {e} : pc'[f] = pc[f] /\ job'[f] = job[f]
        BY <1>1 DEF IInv, Types
  <1>5. PICK i \in Id : i = job[e]
        BY <1>2, HolderFacts
  <1> QED BY <1>2, <1>3, <1>4, <1>5, LetGoMaps

LEMMA CrashMaps ==
    ASSUME IInv, NEW e \in Executor, Crash(e)
    PROVE  \/ \A i \in Id : Holders(i)' = Holders(i) /\ row'[i].status = row[i].status
           \/ \E i \in Id : Ledger!Settle(e, i) \/ Ledger!Abandon(e, i)
  <1>1. /\ row' = row
        /\ pc' = [pc EXCEPT ![e] = "stopped"]
        /\ job' = [job EXCEPT ![e] = NoId]
        BY DEF Crash, Forget
  <1>2. pc'[e] = "stopped" /\ \A f \in Executor \ {e} : pc'[f] = pc[f] /\ job'[f] = job[f]
        BY <1>1 DEF IInv, Types
  <1>3. CASE pc[e] \in {"stopped", "idle", "locked"}
        BY <1>1, <1>2, <1>3 DEF Holders, Holding
  <1>4. CASE pc[e] \notin {"stopped", "idle", "locked"}
    <2>1. e \in Holding /\ pc[e] # "locked"
          BY <1>4 DEF Holding
    <2>2. row'[job[e]].status \in {"simulating"} \cup Resolved
          BY <1>1, <2>1, HolderFacts DEF StatusAt
    <2>3. PICK i \in Id : i = job[e]
          BY <2>1, HolderFacts
    <2> QED BY <1>1, <1>2, <2>1, <2>2, <2>3, LetGoMaps
  <1> QED BY <1>3, <1>4

(* The other steps of an executor show the ledger nothing. *)
LEMMA HiddenStep ==
    ASSUME IInv, clock \in Nat, NEW e \in Executor,
           \/ Lock(e) \/ Drain(e) \/ Start(e) \/ ReadWindow(e) \/ Check(e) \/ Build(e)
           \/ ResolveThrows(e)
    PROVE  \A i \in Id : /\ Holders(i)' = Holders(i)
                         /\ Holders(i) # {} \/ row'[i].status = row[i].status
  <1>1. CASE Lock(e)
    <2>1. pc[e] = "idle" /\ pc' = [pc EXCEPT ![e] = "locked"] /\ row' = row
          BY <1>1 DEF Lock
    <2>2. PICK i \in Oldest(Claimable) : job' = [job EXCEPT ![e] = i]
          BY <1>1 DEF Lock
    <2>3. pc'[e] = "locked" /\ \A f \in Executor \ {e} : pc'[f] = pc[f] /\ job'[f] = job[f]
          BY <2>1, <2>2 DEF IInv, Types
    <2> QED BY <2>1, <2>3 DEF Holders, Holding
  <1>2. CASE \/ Drain(e) \/ Start(e) \/ ReadWindow(e) \/ Check(e) \/ Build(e)
    <2>1. row' = row /\ job' = job
          BY <1>2 DEF Drain, Start, ReadWindow, Check, Build
    <2>2. /\ \A f \in Executor \ {e} : pc'[f] = pc[f]
          /\ pc[e] \in {"stopped", "idle"} <=> pc'[e] \in {"stopped", "idle"}
          /\ pc[e] # "locked" /\ pc'[e] # "locked"
          BY <1>2 DEF IInv, Types, Stage, Drain, Start, ReadWindow, Check, Build
    <2> QED BY <2>1, <2>2 DEF Holders, Holding
  <1>3. CASE ResolveThrows(e)
    <2>1. /\ pc[e] = "resolving" /\ pc' = [pc EXCEPT ![e] = "catching"]
          /\ job' = job /\ row' \in {row, Written(e)}
          BY <1>3 DEF ResolveThrows
    <2>2. e \in Holding /\ pc[e] # "locked"
          BY <2>1 DEF Holding
    <2>3. pc'[e] = "catching" /\ \A f \in Executor \ {e} : pc'[f] = pc[f]
          BY <2>1 DEF IInv, Types
    <2>4. \A i \in Id : Holders(i)' = Holders(i)
          BY <2>1, <2>3 DEF Holders, Holding
    <2>5. Holders(job[e]) # {} /\ \A i \in Id \ {job[e]} : row'[i] = row[i]
          BY <2>1, <2>2, SoleHolder, WrittenType
    <2> QED BY <2>4, <2>5
  <1> QED BY <1>1, <1>2, <1>3

(* The queue implements the ledger: every intent is submitted once, taken  *)
(* by one executor at most, and settled or orphaned by that one.           *)
THEOREM LedgerCorrect == Spec => LedgerSpec
  <1> DEFINE hidden == <<[i \in Id |-> StateOf(i)], [i \in Id |-> HolderOf(i)]>>
  <1>1. IInv /\ ClockType /\ [Next]_vars => [Ledger!Next]_hidden
    <2> SUFFICES ASSUME IInv, clock \in Nat, [Next]_vars
                 PROVE  Ledger!Next \/ UNCHANGED hidden
        BY DEF ClockType
    <2> HIDE DEF hidden
    <2>1. ASSUME \A i \in Id : /\ Holders(i)' = Holders(i)
                               /\ Holders(i) # {} \/ row'[i].status = row[i].status
          PROVE  UNCHANGED hidden
          BY <2>1, Stutter DEF hidden
    <2>2. CASE Tick \/ ToggleHalt \/ UNCHANGED vars
      <3>1. UNCHANGED <<row, pc, job>>
            BY <2>2 DEF Tick, ToggleHalt, vars, executors
      <3>2. \A i \in Id : Holders(i)' = Holders(i) /\ row'[i].status = row[i].status
            BY <3>1 DEF Holders, Holding
      <3> QED BY <2>1, <3>2
    <2>3. ASSUME NEW i \in Id, NEW k \in Kind, NEW usd \in Usd, NEW lag \in 0..MaxLag,
                 Record(i, k, usd, lag)
          PROVE  Ledger!Next
          BY <2>3, RecordMaps DEF Ledger!Next
    <2>4. ASSUME NEW e \in Executor, Claim(e)
          PROVE  Ledger!Next
      <3>1. PICK i \in Id : i = job[e]
            BY <2>4, HolderFacts DEF Claim, Holding
      <3> QED BY <2>4, <3>1, ClaimMaps DEF Ledger!Next
    <2>5. ASSUME NEW e \in Executor, Resolve(e)
          PROVE  Ledger!Next
          BY <2>5, ResolveMaps DEF Ledger!Next
    <2>6. ASSUME NEW e \in Executor, Crash(e)
          PROVE  Ledger!Next \/ UNCHANGED hidden
          BY <2>1, <2>6, CrashMaps DEF Ledger!Next
    <2>7. ASSUME NEW e \in Executor,
                 \/ Lock(e) \/ Drain(e) \/ Start(e) \/ ReadWindow(e) \/ Check(e) \/ Build(e)
                 \/ ResolveThrows(e)
          PROVE  UNCHANGED hidden
          BY <2>1, <2>7, HiddenStep
    <2> QED BY <2>2, <2>3, <2>4, <2>5, <2>6, <2>7 DEF Next, Step
  <1> QED BY InitMaps, Invariance, ClockCorrect, <1>1, PTL DEF Spec, LedgerSpec, Ledger!Spec

-----------------------------------------------------------------------------
(***************************************************************************)
(* The hourly ceiling.  An executor that may still write a simulated       *)
(* intent counts like one: when a window is read and found below the       *)
(* ceiling, all executors together are what can come on top, and nothing   *)
(* else makes the sum grow.                                                *)
(***************************************************************************)
Passing ==
    {e \in Executor :
        \/ pc[e] = "windowed" /\ seen[e].txHour < MaxTxPerHour
        \/ pc[e] = "building"
        \/ pc[e] = "resolving" /\ verdict[e] = "simulated"}

SeenType == seen = [e \in Executor |-> seen[e]]

Counted ==
    Cardinality(SimulatedInHour) + Cardinality(Passing)
        <= MaxTxPerHour + Cardinality(Executor) - 1

RefusedRight ==
    \A e \in Executor : pc[e] \in {"refused", "catching"} => verdict[e] # "simulated"

HInv == SeenType /\ RefusedRight /\ Counted

(* The sets that are counted are finite.                                   *)
LEMMA Cardinalities ==
    /\ IsFiniteSet(SimulatedInHour) /\ Cardinality(SimulatedInHour) \in Nat
    /\ IsFiniteSet(Passing) /\ Cardinality(Passing) \in Nat
    /\ Cardinality(Executor) \in Nat /\ Cardinality(Executor) >= 1
  <1>1. IsFiniteSet(Id)
        BY FS_Interval DEF Id
  <1>2. SimulatedInHour \in SUBSET Id
        BY DEF SimulatedInHour, InHour, Present
  <1>3. Passing \in SUBSET Executor
        BY DEF Passing
  <1>4. IsFiniteSet(SimulatedInHour) /\ IsFiniteSet(Passing)
        BY <1>1, <1>2, <1>3, FS_Subset
  <1>5. Cardinality(Executor) \in Nat /\ Cardinality(Executor) # 0
        BY FS_CardinalityType, FS_EmptySet
  <1> QED BY <1>4, <1>5, FS_CardinalityType

(* Nothing was counted before anything was simulated.                      *)
LEMMA InitHInv == Init => HInv
  <1> SUFFICES ASSUME Init PROVE HInv
      OBVIOUS
  <1>1. SeenType /\ RefusedRight
        BY DEF Init, SeenType, RefusedRight
  <1>2. SimulatedInHour = {}
        BY DEF Init, Absent, SimulatedInHour, InHour, Present
  <1>3. Passing = {}
        BY DEF Init, Passing
  <1>4. Counted
        BY <1>2, <1>3, Cardinalities, FS_EmptySet DEF Counted
  <1> QED BY <1>1, <1>4 DEF HInv

(* Neither the simulated nor the passing become more. *)
LEMMA NoMore ==
    ASSUME Counted, SimulatedInHour' \in SUBSET SimulatedInHour, Passing' \in SUBSET Passing
    PROVE  Counted'
  <1>1. /\ Cardinality(SimulatedInHour') <= Cardinality(SimulatedInHour)
        /\ Cardinality(SimulatedInHour') \in Nat
        BY Cardinalities, FS_Subset, FS_CardinalityType
  <1>2. /\ Cardinality(Passing') <= Cardinality(Passing)
        /\ Cardinality(Passing') \in Nat
        BY Cardinalities, FS_Subset, FS_CardinalityType
  <1>3. Cardinality(SimulatedInHour)' = Cardinality(SimulatedInHour')
        OBVIOUS
  <1>4. Cardinality(Passing)' = Cardinality(Passing')
        OBVIOUS
  <1> QED BY <1>1, <1>2, <1>3, <1>4, Cardinalities DEF Counted

(* One that passed has written its result. *)
LEMMA OnePassed ==
    ASSUME Counted, NEW i, NEW e \in Passing,
           SimulatedInHour' \in SUBSET (SimulatedInHour \cup {i}),
           Passing' \in SUBSET (Passing \ {e})
    PROVE  Counted'
  <1>1. /\ IsFiniteSet(SimulatedInHour \cup {i})
        /\ Cardinality(SimulatedInHour \cup {i}) =
             IF i \in SimulatedInHour THEN Cardinality(SimulatedInHour)
             ELSE Cardinality(SimulatedInHour) + 1
        BY Cardinalities, FS_AddElement
  <1>2. /\ Cardinality(SimulatedInHour') <= Cardinality(SimulatedInHour) + 1
        /\ Cardinality(SimulatedInHour') \in Nat
    <2>1. /\ Cardinality(SimulatedInHour') <= Cardinality(SimulatedInHour \cup {i})
          /\ Cardinality(SimulatedInHour') \in Nat
          BY <1>1, FS_Subset, FS_CardinalityType
    <2> QED BY <1>1, <2>1, Cardinalities
  <1>3. /\ IsFiniteSet(Passing \ {e})
        /\ Cardinality(Passing \ {e}) = Cardinality(Passing) - 1
        BY Cardinalities, FS_RemoveElement
  <1>4. /\ Cardinality(Passing') <= Cardinality(Passing) - 1
        /\ Cardinality(Passing') \in Nat
        BY <1>3, FS_Subset, FS_CardinalityType
  <1> QED BY <1>2, <1>4, Cardinalities DEF Counted

(* A window was read. *)
LEMMA WindowRead ==
    ASSUME Counted, SimulatedInHour' = SimulatedInHour,
           Cardinality(SimulatedInHour) < MaxTxPerHour \/ Passing' \in SUBSET Passing
    PROVE  Counted'
  <1>1. CASE Passing' \in SUBSET Passing
        BY <1>1, NoMore
  <1>2. CASE Cardinality(SimulatedInHour) < MaxTxPerHour
    <2>1. Passing' \in SUBSET Executor
          BY DEF Passing
    <2>2. /\ Cardinality(Passing') <= Cardinality(Executor)
          /\ Cardinality(Passing') \in Nat
          BY <2>1, FS_Subset, FS_CardinalityType
    <2> QED BY <1>2, <2>2, Cardinalities DEF Counted
  <1> QED BY <1>1, <1>2

(* A row that a step leaves alone, or gives a status other than simulated, *)
(* is not counted anew.                                                    *)
LEMMA NotCounted ==
    ASSUME IInv, clock' = clock, NEW i,
           \A j \in Id \ {i} : row'[j] = row[j]
    PROVE  /\ SimulatedInHour' \in SUBSET (SimulatedInHour \cup {i})
           /\ (i \in Id => row'[i].status # "simulated" \/ row'[i] = row[i])
                => SimulatedInHour' \in SUBSET SimulatedInHour
  BY DEF SimulatedInHour, InHour, Present

(* A step of one executor adds nobody else to those past the check.        *)
LEMMA MovedOn ==
    ASSUME NEW e \in Executor,
           \A f \in Executor \ {e} : pc'[f] = pc[f] /\ seen'[f] = seen[f] /\ verdict'[f] = verdict[f]
    PROVE  /\ e \in Passing => Passing' \in SUBSET Passing
           /\ e \notin Passing' => Passing' \in SUBSET (Passing \ {e})
  BY DEF Passing

(* A step of an executor keeps the count of the hour.                      *)
LEMMA ExecutorHInv ==
    ASSUME IInv, HInv, clock \in Nat, NEW e \in Executor,
           Step(e) \/ ResolveThrows(e) \/ Crash(e) \/ Start(e)
    PROVE  HInv'
  <1>1. SeenType'
    <2>1. seen' = seen \/ \E w : seen' = [seen EXCEPT ![e] = w]
          BY DEF Step, Lock, Claim, Drain, ReadWindow, Check, Build, Resolve, Forget,
                 ResolveThrows, Crash, Start
    <2> QED BY <2>1 DEF HInv, SeenType
  <1>2. clock' = clock
        BY DEF Step, Lock, Claim, Drain, ReadWindow, Check, Build, Resolve,
               ResolveThrows, Crash, Start
  <1>3. \A f \in Executor \ {e} :
           pc'[f] = pc[f] /\ seen'[f] = seen[f] /\ verdict'[f] = verdict[f]
        BY DEF HInv, SeenType, IInv, Types, Step, Lock, Claim, Drain, ReadWindow, Check, Build,
               Resolve, Forget, ResolveThrows, Crash, Start
  <1>4. RefusedRight'
    <2>1. pc'[e] \in {"refused", "catching"} => verdict'[e] # "simulated"
          BY DEF HInv, RefusedRight, IInv, Types, Step, Lock, Claim, Drain, ReadWindow, Check,
                 Build, Resolve, Forget, ResolveThrows, Crash, Start
    <2> QED BY <1>3, <2>1 DEF HInv, RefusedRight
  <1>5. SeenType' /\ RefusedRight'
        BY <1>1, <1>4
  <1>6. CASE row' = row
    <2>1. SimulatedInHour' = SimulatedInHour
          BY <1>2, <1>6 DEF SimulatedInHour, InHour, Present
    <2>2. CASE ReadWindow(e)
      <3>1. /\ pc'[e] = "windowed"
            /\ seen'[e].txHour = Cardinality(SimulatedInHour)
            BY <2>2 DEF ReadWindow, HInv, SeenType, IInv, Types
      <3>2. CASE Cardinality(SimulatedInHour) < MaxTxPerHour
            BY <1>5, <2>1, <3>2, WindowRead DEF HInv
      <3>3. CASE ~(Cardinality(SimulatedInHour) < MaxTxPerHour)
        <4>1. e \notin Passing'
              BY <3>1, <3>3 DEF Passing
        <4>2. Passing' \in SUBSET Passing
              BY <1>3, <4>1, MovedOn
        <4> QED BY <1>5, <2>1, <4>2, WindowRead DEF HInv
      <3> QED BY <3>2, <3>3
    <2>3. CASE ~ReadWindow(e)
      <3>1. e \in Passing' => e \in Passing
            BY <2>3 DEF Passing, WithinLimits, HInv, SeenType, IInv, Types, Step, Lock, Claim, Drain,
                        Check, Build, Resolve, Forget, ResolveThrows, Crash, Start
      <3>2. Passing' \in SUBSET Passing
            BY <1>3, <3>1, MovedOn
      <3> QED BY <1>5, <2>1, <3>2, NoMore DEF HInv
    <2> QED BY <2>2, <2>3
  <1>7. CASE Claim(e)
    <2>1. pc[e] = "locked" /\ row' = [row EXCEPT ![job[e]].status = "simulating"]
          BY <1>7 DEF Claim
    <2>2. e \in Holding
          BY <2>1 DEF Holding
    <2>3. job[e] \in Id
          BY <2>2, HolderFacts
    <2>4. /\ row'[job[e]].status = "simulating"
          /\ \A j \in Id \ {job[e]} : row'[j] = row[j]
          BY <2>1, <2>3 DEF IInv, Types, Row
    <2>5. SimulatedInHour' \in SUBSET SimulatedInHour
          BY <1>2, <2>4, NotCounted
    <2>6. e \notin Passing'
          BY <1>7 DEF Claim, Passing, IInv, Types
    <2>7. Passing' \in SUBSET Passing
          BY <1>3, <2>6, MovedOn
    <2> QED BY <1>5, <2>5, <2>7, NoMore DEF HInv
  <1>8. CASE (Resolve(e) \/ ResolveThrows(e)) /\ row' # row
    <2>1. /\ pc[e] \in {"refused", "resolving", "catching"}
          /\ row' = Written(e)
          /\ pc'[e] \in {"idle", "catching"}
          BY <1>8 DEF Resolve, ResolveThrows, IInv, Types
    <2>2. e \in Holding
          BY <2>1 DEF Holding
    <2>3. /\ job[e] \in Id
          /\ row'[job[e]].status = verdict[e]
          /\ \A j \in Id \ {job[e]} : row'[j] = row[j]
          BY <2>1, <2>2, HolderFacts, WrittenType
    <2>4. e \notin Passing'
          BY <2>1 DEF Passing
    <2>5. Passing' \in SUBSET (Passing \ {e})
          BY <1>3, <2>4, MovedOn
    <2>6. CASE e \in Passing
      <3>1. PICK i : i = job[e]
            OBVIOUS
      <3>2. SimulatedInHour' \in SUBSET (SimulatedInHour \cup {i})
            BY <1>2, <2>3, <3>1, NotCounted
      <3> QED BY <1>5, <2>5, <2>6, <3>2, OnePassed DEF HInv
    <2>7. CASE verdict[e] # "simulated"
      <3>1. SimulatedInHour' \in SUBSET SimulatedInHour
            BY <1>2, <2>3, <2>7, NotCounted
      <3> QED BY <1>5, <2>5, <3>1, NoMore DEF HInv
    <2>8. CASE e \notin Passing /\ verdict[e] = "simulated"
      <3>1. pc[e] = "resolving"
            BY <2>1, <2>8 DEF HInv, RefusedRight
      <3> QED BY <2>8, <3>1 DEF Passing
    <2> QED BY <2>6, <2>7, <2>8
  <1>9. row' = row \/ Claim(e) \/ ((Resolve(e) \/ ResolveThrows(e)) /\ row' # row)
        BY DEF Step, Lock, Drain, ReadWindow, Check, Build, Crash, Start
  <1> QED BY <1>6, <1>7, <1>8, <1>9

(* The inductive invariant behind the hourly ceiling.                      *)
LEMMA HourInvariance == Spec => []HInv
  <1>1. IInv /\ ClockType /\ HInv /\ [Next]_vars => HInv'
    <2> SUFFICES ASSUME IInv, clock \in Nat, HInv, [Next]_vars PROVE HInv'
        BY DEF ClockType
    <2>1. CASE Tick \/ ToggleHalt \/ UNCHANGED vars
      <3>1. /\ UNCHANGED <<row, pc, seen, verdict>>
            /\ clock' \in Nat /\ clock' >= clock
            BY <2>1 DEF Tick, ToggleHalt, vars, executors
      <3>2. SeenType' /\ RefusedRight' /\ Passing' = Passing
            BY <3>1 DEF HInv, SeenType, RefusedRight, Passing
      <3>3. SimulatedInHour' \in SUBSET SimulatedInHour
        <4> SUFFICES ASSUME NEW i \in Id, row[i].created > clock' - Hour
                     PROVE  row[i].created > clock - Hour
            BY <3>1 DEF SimulatedInHour, InHour, Present
        <4>1. row[i].created \in Int
              BY DEF IInv, Types, Row
        <4> QED BY <3>1, <4>1
      <3> QED BY <3>2, <3>3, NoMore DEF HInv
    <2>2. ASSUME NEW i \in Id, NEW k \in Kind, NEW usd \in Usd, NEW lag \in 0..MaxLag,
                 Record(i, k, usd, lag)
          PROVE  HInv'
      <3>1. /\ UNCHANGED <<pc, seen, verdict, clock>>
            /\ row'[i].status = "pending"
            /\ \A j \in Id \ {i} : row'[j] = row[j]
            BY <2>2 DEF Record, executors, IInv, Types
      <3>2. SeenType' /\ RefusedRight' /\ Passing' = Passing
            BY <3>1 DEF HInv, SeenType, RefusedRight, Passing
      <3>3. SimulatedInHour' \in SUBSET SimulatedInHour
            BY <3>1, NotCounted
      <3> QED BY <3>2, <3>3, NoMore DEF HInv
    <2> QED BY <2>1, <2>2, ExecutorHInv DEF Next
  <1> QED BY InitHInv, Invariance, ClockCorrect, <1>1, PTL DEF Spec

(***************************************************************************)
(* Of the intents created within any one hour, n executors get at most     *)
(* n - 1 more than the ceiling through.                                    *)
(***************************************************************************)
THEOREM HourCorrect == Spec => []HourBound
  <1>1. HInv => HourBound
        BY Cardinalities DEF HInv, Counted, HourBound
  <1> QED BY HourInvariance, <1>1, PTL

-----------------------------------------------------------------------------
(***************************************************************************)
(* The daily ceiling.  An intent has passed when it is simulated or can    *)
(* still come out so.  Only the reading of a window lets one pass, and     *)
(* that window counts everything of the day, the passed ones among it.     *)
(***************************************************************************)
Cleared ==
    {e \in Executor :
        \/ pc[e] = "windowed" /\ WithinLimits(row[job[e]].usd, seen[e])
        \/ pc[e] = "building"
        \/ pc[e] = "resolving" /\ verdict[e] = "simulated"}

Passed == {i \in InDay : row[i].status = "simulated" \/ \E e \in Cleared : job[e] = i}

DayKept == Spent(Passed) <= MaxUsdPerDay

SeenNumbers == seen \in [Executor -> [txHour : Nat, usdDay : Nat]]

DInv == SeenNumbers /\ DayKept

(* The intents of the day, and those past the check, are finitely many.    *)
LEMMA DaySets ==
    /\ IsFiniteSet(InDay) /\ InDay \subseteq Id
    /\ IsFiniteSet(Passed) /\ Passed \subseteq InDay
  <1>1. IsFiniteSet(Id)
        BY FS_Interval DEF Id
  <1>2. InDay \in SUBSET Id /\ Passed \in SUBSET InDay
        BY DEF InDay, Present, Passed
  <1> QED BY <1>1, <1>2, FS_Subset

(* An intent moves no negative amount.                                     *)
LEMMA CapitalType ==
    ASSUME IInv, NEW i \in Id
    PROVE  Capital(i) \in Nat
  <1>1. row[i].usd \in Nat
        BY DEF IInv, Types, Row
  <1> QED BY <1>1 DEF Capital

(* What a set of intents moves is a number,                                *)
LEMMA SpentType ==
    ASSUME IInv, NEW S \in SUBSET Id
    PROVE  Spent(S) \in Nat /\ IsFiniteSet(S)
  <1>1. IsFiniteSet(S)
    <2>1. IsFiniteSet(Id)
          BY FS_Interval DEF Id
    <2> QED BY <2>1, FS_Subset
  <1>2. \A i \in S : [j \in Id |-> Capital(j)][i] \in Nat
        BY CapitalType
  <1> QED BY <1>1, <1>2, SumNat DEF Spent

(* and a larger set does not move less.                                    *)
LEMMA SpentMonotone ==
    ASSUME IInv, NEW T \in SUBSET Id, NEW S \in SUBSET T
    PROVE  Spent(S) <= Spent(T)
  <1>1. IsFiniteSet(T)
        BY SpentType
  <1> DEFINE f == [j \in Id |-> Capital(j)]
  <1>2. \A i \in T : f[i] \in Nat
        BY CapitalType
  <1> HIDE DEF f
  <1>3. SumFunctionOnSet(f, S) <= SumFunctionOnSet(f, T)
        BY <1>1, <1>2, SumMonotone
  <1> QED BY <1>3 DEF Spent, f

(* Fewer have passed, and those ask for what they asked for. *)
LEMMA FewerPassed ==
    ASSUME IInv, IInv', DayKept, Passed' \in SUBSET Passed,
           \A i \in Passed : row'[i].kind = row[i].kind /\ row'[i].usd = row[i].usd
    PROVE  DayKept'
  <1> DEFINE f == [j \in Id |-> Capital(j)]
             g == [j \in Id |-> IF row'[j].kind = "open" THEN row'[j].usd ELSE 0]
  <1>1. IsFiniteSet(Passed) /\ Passed \subseteq Id /\ Passed' \subseteq Id
        BY DaySets
  <1>2. \A i \in Passed : f[i] \in Nat
        BY <1>1, CapitalType
  <1>3. \A i \in Passed' : g[i] = f[i]
        BY <1>1 DEF Capital
  <1>4. SumFunctionOnSet(g, Passed') <= SumFunctionOnSet(f, Passed)
    <2> HIDE DEF f, g
    <2>1. \A i \in Passed' : g[i] \in Int /\ g[i] <= f[i]
          BY <1>2, <1>3
    <2> QED BY <1>1, <1>2, <2>1, SumMonotone
  <1>5. Spent(Passed) = SumFunctionOnSet(f, Passed)
        BY DEF Spent
  <1>6. Spent(Passed)' = SumFunctionOnSet(g, Passed')
        BY DEF Spent, Capital
  <1>7. Spent(Passed)' \in Nat
    <2>1. \A i \in Passed' : g[i] \in Nat
          BY <1>1, <1>2, <1>3
    <2>2. IsFiniteSet(Passed')
          BY <1>1, FS_Subset
    <2> HIDE DEF g
    <2> QED BY <1>6, <2>1, <2>2, SumNat
  <1>8. Spent(Passed) \in Nat
        BY <1>1, SpentType
  <1> HIDE DEF f, g
  <1> QED BY <1>4, <1>5, <1>6, <1>7, <1>8 DEF DayKept

(* Nothing was spent before anything was simulated.                        *)
LEMMA InitDInv == Init => DInv
  <1> SUFFICES ASSUME Init PROVE DInv
      OBVIOUS
  <1>1. SeenNumbers
        BY DEF Init, SeenNumbers, NoWindow
  <1>2. Passed = {}
        BY DEF Init, Absent, Passed, InDay, Present
  <1>3. DayKept
        BY <1>2, SumEmpty DEF DayKept, Spent
  <1> QED BY <1>1, <1>3 DEF DInv

(* Who else has passed is no concern of the step of an executor. *)
LEMMA OthersCleared ==
    ASSUME IInv, NEW e \in Executor,
           \A f \in Executor \ {e} :
              /\ pc'[f] = pc[f] /\ seen'[f] = seen[f] /\ verdict'[f] = verdict[f]
              /\ job'[f] = job[f]
              /\ job[f] \in Id => row'[job[f]].usd = row[job[f]].usd
    PROVE  \A f \in Cleared' : f # e => f \in Cleared /\ job'[f] = job[f]
  <1> SUFFICES ASSUME NEW f \in Cleared', f # e
               PROVE  f \in Cleared /\ job'[f] = job[f]
      OBVIOUS
  <1>1. f \in Executor \ {e} /\ pc[f] \in {"windowed", "building", "resolving"}
        BY DEF Cleared
  <1>2. f \in Holding
        BY <1>1 DEF Holding
  <1>3. job[f] \in Id
        BY <1>2, HolderFacts
  <1> QED BY <1>1, <1>3 DEF Cleared

(* A window with room for one more has room for all of the day. *)
LEMMA ReadDInv ==
    ASSUME IInv, IInv', DInv, NEW e \in Executor, ReadWindow(e)
    PROVE  DInv'
  <1>1. /\ pc[e] = "claimed" /\ pc' = [pc EXCEPT ![e] = "windowed"]
        /\ seen' = [seen EXCEPT ![e] = [txHour |-> Cardinality(SimulatedInHour),
                                        usdDay |-> Spent(InDay)]]
        /\ UNCHANGED <<row, clock, job, verdict>>
        BY DEF ReadWindow, UsdDay
  <1>2. Spent(InDay) \in Nat
        BY DaySets, SpentType
  <1>3. SeenNumbers'
        BY <1>1, <1>2, Cardinalities DEF DInv, SeenNumbers
  <1>4. InDay' = InDay
        BY <1>1 DEF InDay, Present
  <1>5. /\ pc'[e] = "windowed" /\ seen'[e].usdDay = Spent(InDay)
        /\ \A f \in Executor \ {e} : pc'[f] = pc[f] /\ seen'[f] = seen[f]
        BY <1>1 DEF IInv, Types, DInv, SeenNumbers
  <1>6. e \in Holding
        BY <1>1 DEF Holding
  <1>7. job[e] \in Id /\ row[job[e]].usd \in Nat
        BY <1>6, HolderFacts DEF IInv, Types, Row
  <1>8. CASE e \in Cleared'
    <2>1. Spent(InDay) + row[job[e]].usd <= MaxUsdPerDay
          BY <1>1, <1>5, <1>8 DEF Cleared, WithinLimits
    <2>2. Passed' \in SUBSET InDay
          BY <1>4 DEF Passed
    <2>3. Spent(Passed') <= Spent(InDay) /\ Spent(Passed') \in Nat
          BY <2>2, DaySets, SpentMonotone, SpentType
    <2>4. Spent(Passed)' = Spent(Passed')
          BY <1>1 DEF Spent, Capital
    <2>5. DayKept'
          BY <1>2, <1>7, <2>1, <2>3, <2>4 DEF DayKept
    <2> QED BY <1>3, <2>5 DEF DInv
  <1>9. CASE e \notin Cleared'
    <2>1. Cleared' \subseteq Cleared
          BY <1>1, <1>5, <1>9 DEF Cleared
    <2>2. Passed' \in SUBSET Passed
          BY <1>1, <1>4, <2>1 DEF Passed
    <2>3. DayKept'
          BY <1>1, <2>2, FewerPassed DEF DInv
    <2> QED BY <1>3, <2>3 DEF DInv
  <1> QED BY <1>8, <1>9

(* Every other step of an executor. *)
LEMMA ExecutorDInv ==
    ASSUME IInv, IInv', HInv, DInv, clock \in Nat, NEW e \in Executor, ~ReadWindow(e),
           Step(e) \/ ResolveThrows(e) \/ Crash(e) \/ Start(e)
    PROVE  DInv'
  <1>1. SeenNumbers'
    <2>1. seen' = seen \/ seen' = [seen EXCEPT ![e] = NoWindow]
          BY DEF Step, Lock, Claim, Drain, Check, Build, Resolve, Forget,
                 ResolveThrows, Crash, Start
    <2> QED BY <2>1 DEF DInv, SeenNumbers, NoWindow
  <1>2. clock' = clock
        BY DEF Step, Lock, Claim, Drain, Check, Build, Resolve, ResolveThrows, Crash, Start
  <1>3. \A f \in Executor \ {e} :
           /\ pc'[f] = pc[f] /\ seen'[f] = seen[f] /\ verdict'[f] = verdict[f]
           /\ job'[f] = job[f]
        BY DEF DInv, SeenNumbers, IInv, Types, Step, Lock, Claim, Drain, Check, Build,
               Resolve, Forget, ResolveThrows, Crash, Start
  <1>4. CASE row' = row
    <2>1. InDay' = InDay
          BY <1>2, <1>4 DEF InDay, Present
    <2>2. e \in Cleared' => e \in Cleared /\ job'[e] = job[e]
          BY <1>4 DEF Cleared, WithinLimits, DInv, SeenNumbers, IInv, Types, Step, Lock, Claim,
                      Drain, Check, Build, Resolve, Forget, ResolveThrows, Crash, Start
    <2>3. \A f \in Cleared' : f \in Cleared /\ job'[f] = job[f]
          BY <1>3, <1>4, <2>2, OthersCleared
    <2>4. Passed' \in SUBSET Passed
          BY <1>4, <2>1, <2>3 DEF Passed
    <2>5. DayKept'
          BY <1>4, <2>4, FewerPassed DEF DInv
    <2> QED BY <1>1, <2>5 DEF DInv
  <1>5. CASE Claim(e) \/ ((Resolve(e) \/ ResolveThrows(e)) /\ row' # row)
    <2>1. /\ pc[e] \in {"locked", "refused", "resolving", "catching"}
          /\ pc'[e] \in {"claimed", "idle", "catching"}
          BY <1>5 DEF Claim, Resolve, ResolveThrows, IInv, Types
    <2>2. e \in Holding /\ e \notin Cleared'
          BY <2>1 DEF Holding, Cleared
    <2>3. job[e] \in Id
          BY <2>2, HolderFacts
    <2>4. \/ Claim(e) /\ row' = [row EXCEPT ![job[e]].status = "simulating"]
          \/ ~Claim(e) /\ row' = Written(e)
          BY <1>5 DEF Claim, Resolve, ResolveThrows
    <2>5. /\ \A i \in Id : /\ row'[i].usd = row[i].usd /\ row'[i].kind = row[i].kind
                           /\ row'[i].created = row[i].created
          /\ \A i \in Id \ {job[e]} : row'[i] = row[i]
          /\ row'[job[e]].status = "simulating" \/ row'[job[e]].status = verdict[e]
          /\ Claim(e) => row'[job[e]].status = "simulating"
          BY <2>3, <2>4 DEF Written, IInv, Types, Row
    <2>6. \A f \in Cleared' : f \in Cleared /\ job'[f] = job[f]
          BY <1>3, <2>2, <2>5, OthersCleared
    <2>7. row'[job[e]].status = "simulated" => e \in Cleared
      <3> SUFFICES ASSUME row'[job[e]].status = "simulated" PROVE e \in Cleared
          OBVIOUS
      <3>1. verdict[e] = "simulated" /\ ~Claim(e)
            BY <2>5
      <3>2. pc[e] \in {"refused", "resolving", "catching"}
            BY <1>5, <3>1 DEF Resolve, ResolveThrows
      <3>3. pc[e] = "resolving"
            BY <3>1, <3>2 DEF HInv, RefusedRight
      <3> QED BY <3>1, <3>3 DEF Cleared
    <2>8. job[e] \notin InDay => row[job[e]].created <= clock - Day
      <3>1. row[job[e]].status # "absent" /\ row[job[e]].created \in Int
            BY <2>2, <2>3, HolderFacts DEF StatusAt, Resolved, IInv, Types, Row
      <3> QED BY <2>3, <3>1 DEF InDay, Present
    <2>9. Passed' \in SUBSET Passed
      <3> SUFFICES ASSUME NEW i \in Passed' PROVE i \in Passed
          OBVIOUS
      <3>1. /\ i \in Id /\ row'[i].created > clock - Day /\ row'[i].status # "absent"
            /\ row'[i].status = "simulated" \/ \E f \in Cleared' : job'[f] = i
            BY <1>2 DEF Passed, InDay, Present
      <3>2. row[i].created \in Int /\ row[i].created > clock - Day
            BY <2>5, <3>1 DEF IInv, Types, Row
      <3>3. i \in InDay
        <4>1. CASE i = job[e]
              BY <2>8, <3>2, <4>1
        <4>2. CASE i # job[e]
              BY <2>5, <3>1, <3>2, <4>2 DEF InDay, Present
        <4> QED BY <4>1, <4>2
      <3>4. CASE row'[i].status = "simulated"
            BY <2>5, <2>7, <3>1, <3>3, <3>4 DEF Passed
      <3>5. CASE \E f \in Cleared' : job'[f] = i
            BY <2>6, <3>3, <3>5 DEF Passed
      <3> QED BY <3>1, <3>4, <3>5
    <2>10. DayKept'
      <3>1. Passed \subseteq Id
            BY DaySets
      <3> QED BY <2>5, <2>9, <3>1, FewerPassed DEF DInv
    <2> QED BY <1>1, <2>10 DEF DInv
  <1>6. row' = row \/ Claim(e) \/ ((Resolve(e) \/ ResolveThrows(e)) /\ row' # row)
        BY DEF Step, Lock, Drain, Check, Build, Crash, Start
  <1> QED BY <1>4, <1>5, <1>6

(* The inductive invariant behind the daily ceiling.                       *)
LEMMA DayInvariance == Spec => []DInv
  <1>1. IInv /\ IInv' /\ ClockType /\ HInv /\ DInv /\ [Next]_vars => DInv'
    <2> SUFFICES ASSUME IInv, IInv', clock \in Nat, HInv, DInv, [Next]_vars PROVE DInv'
        BY DEF ClockType
    <2>1. CASE Tick \/ ToggleHalt \/ UNCHANGED vars
      <3>1. /\ UNCHANGED <<row, pc, job, seen, verdict>>
            /\ clock' \in Nat /\ clock' >= clock
            BY <2>1 DEF Tick, ToggleHalt, vars, executors
      <3>2. SeenNumbers' /\ Cleared' = Cleared
            BY <3>1 DEF DInv, SeenNumbers, Cleared
      <3>3. Passed' \in SUBSET Passed
        <4> SUFFICES ASSUME NEW i \in Id, row[i].created > clock' - Day
                     PROVE  row[i].created > clock - Day
            BY <3>1, <3>2 DEF Passed, InDay, Present
        <4>1. row[i].created \in Int
              BY DEF IInv, Types, Row
        <4> QED BY <3>1, <4>1
      <3>4. DayKept'
            BY <3>1, <3>3, FewerPassed DEF DInv
      <3> QED BY <3>2, <3>4 DEF DInv
    <2>2. ASSUME NEW i \in Id, NEW k \in Kind, NEW usd \in Usd, NEW lag \in 0..MaxLag,
                 Record(i, k, usd, lag)
          PROVE  DInv'
      <3>1. /\ UNCHANGED <<pc, job, seen, verdict, clock>>
            /\ row[i].status = "absent" /\ row'[i].status = "pending"
            /\ \A j \in Id \ {i} : row'[j] = row[j]
            BY <2>2 DEF Record, executors, IInv, Types
      <3>2. SeenNumbers'
            BY <3>1 DEF DInv, SeenNumbers
      <3>3. \A e \in Holding : job[e] \in Id \ {i}
        <4> SUFFICES ASSUME NEW e \in Holding, job[e] = i PROVE FALSE
            BY HolderFacts
        <4> QED BY <3>1, HolderFacts DEF StatusAt, Resolved
      <3>4. \A e \in Cleared' : e \in Cleared /\ job[e] # i
        <4> SUFFICES ASSUME NEW e \in Cleared' PROVE e \in Cleared /\ job[e] # i
            OBVIOUS
        <4>1. e \in Executor /\ pc[e] \in {"windowed", "building", "resolving"}
              BY <3>1 DEF Cleared
        <4>2. e \in Holding
              BY <4>1 DEF Holding
        <4> QED BY <3>1, <3>3, <4>1, <4>2 DEF Cleared
      <3>5. Passed' \in SUBSET Passed
            BY <3>1, <3>4 DEF Passed, InDay, Present
      <3>6. i \notin Passed
            BY <3>1 DEF Passed, InDay, Present
      <3>7. DayKept'
            BY <3>1, <3>5, <3>6, DaySets, FewerPassed DEF DInv
      <3> QED BY <3>2, <3>7 DEF DInv
    <2>3. ASSUME NEW e \in Executor, Step(e) \/ ResolveThrows(e) \/ Crash(e) \/ Start(e)
          PROVE  DInv'
          BY <2>3, ReadDInv, ExecutorDInv
    <2> QED BY <2>1, <2>2, <2>3 DEF Next
  <1> QED BY InitDInv, Invariance, ClockCorrect, HourInvariance, <1>1, PTL DEF Spec

(***************************************************************************)
(* What was created within one day, opened and simulated stays below the   *)
(* daily ceiling, however many executors read it at the same time.         *)
(***************************************************************************)
THEOREM DayCorrect == Spec => []DayBound
  <1>1. IInv /\ DInv => DayBound
    <2> SUFFICES ASSUME IInv, DInv PROVE DayBound
        OBVIOUS
    <2> DEFINE S == {i \in InDay : row[i].status = "simulated"}
    <2>1. S \in SUBSET Passed /\ Passed \in SUBSET Id
          BY DaySets DEF Passed
    <2>2. Spent(S) <= Spent(Passed) /\ Spent(S) \in Nat /\ Spent(Passed) \in Nat
          BY <2>1, SpentMonotone, SpentType
    <2> QED BY <2>2 DEF DInv, DayKept, DayBound
  <1> QED BY Invariance, DayInvariance, <1>1, PTL

-----------------------------------------------------------------------------
(* The counters, and with them the type invariant. *)
Bounds == clock \in 0..MaxClock /\ halt \in BOOLEAN /\ crashes \in 0..MaxCrash

(* Dates of creation and resolution are dates the clock has shown.         *)
LEMMA BoundsCorrect == Spec => []Bounds
  <1>1. Init => Bounds
        BY DEF Init, Bounds
  <1>2. Bounds /\ [Next]_vars => Bounds'
    <2> SUFFICES ASSUME Bounds, [Next]_vars PROVE Bounds'
        OBVIOUS
    <2>1. CASE Tick \/ ToggleHalt \/ UNCHANGED vars
      <3>1. halt' = halt \/ halt' = ~halt
            BY <2>1 DEF Tick, ToggleHalt, vars
      <3>2. halt' \in BOOLEAN
            BY <3>1, Zenon DEF Bounds
      <3>3. clock' \in 0..MaxClock
            BY <2>1 DEF Tick, ToggleHalt, vars, Bounds
      <3>4. crashes' = crashes
            BY <2>1 DEF Tick, ToggleHalt, vars
      <3> QED BY <3>2, <3>3, <3>4 DEF Bounds
    <2>2. ASSUME NEW i \in Id, NEW k \in Kind, NEW usd \in Usd, NEW lag \in 0..MaxLag,
                 Record(i, k, usd, lag)
          PROVE  Bounds'
          BY <2>2 DEF Record, Bounds
    <2>3. ASSUME NEW e \in Executor, Step(e) \/ ResolveThrows(e) \/ Crash(e) \/ Start(e)
          PROVE  Bounds'
          BY <2>3 DEF Bounds, Step, Lock, Claim, Drain, ReadWindow, Check, Build, Resolve,
                      ResolveThrows, Crash, Start
    <2> QED BY <2>1, <2>2, <2>3 DEF Next
  <1> QED BY <1>1, <1>2, PTL DEF Spec

(* The type invariant; that a window holds numbers is that sums are.        *)
THEOREM TypeCorrect == Spec => []TypeOK
  <1>1. IInv /\ DInv /\ Bounds => TypeOK
        BY DEF IInv, Types, DInv, SeenNumbers, Bounds, TypeOK
  <1> QED BY Invariance, DayInvariance, BoundsCorrect, <1>1, PTL

=============================================================================
