-------------------------- MODULE PaperBookProofs --------------------------
(***************************************************************************)
(* Proofs about PaperBook, for every set of pools, budget and bound: the   *)
(* type invariant, the lineage of re-centred positions, the audit trail    *)
(* and the intent queue, all three of the committed tables AND of what the *)
(* open session sees of them, so that a commit and a rollback both keep    *)
(* them; that a transaction becomes public whole; and that what it adds    *)
(* is in tokens that were not held and fits the budget.                    *)
(***************************************************************************)
EXTENDS PaperBook, SumTheorems

(* Identity values not handed out yet belong to no row. *)
FreshIn(table, next) == \A p \in Pid : p >= next => table[p].status = "none"

(* An addition is about no older position. *)
AddsAlone(entries) == \A e \in entries : e.kind = "add" => e.pid = NoPid

BookIn(table, entries, queue, next) ==
    /\ FreshIn(table, next)
    /\ LineageIn(table)
    /\ AuditIn(table, entries)
    /\ AddsAlone(entries)
    /\ IntentsMatch(table, entries, queue)

(* What the cursor still lists has not been decided. *)
TodoOpen == todo \subseteq OpenIn(wpos)

(* Between two transactions there is one set of tables. *)
IdleSynced == phase = "idle" => wpos = pos /\ wlog = log /\ wintents = intents

IInv ==
    /\ TypeOK
    /\ IdleSynced
    /\ BookIn(pos, log, intents, nextId)
    /\ BookIn(wpos, wlog, wintents, nextId)
    /\ TodoOpen

-----------------------------------------------------------------------------
(* Lineage: what one statement does to it.                                 *)

LEMMA LineageSame ==
    ASSUME NEW t \in [Pid -> Row], NEW u \in [Pid -> Row], LineageIn(t),
           \A p \in Pid : /\ u[p].status = t[p].status /\ u[p].pool = t[p].pool
                          /\ u[p].gen = t[p].gen /\ u[p].parent = t[p].parent
    PROVE  LineageIn(u)
BY SMT DEF LineageIn, Used, Row, Pid, NoPid

LEMMA LineageClose ==
    ASSUME NEW t \in [Pid -> Row], NEW u \in [Pid -> Row], LineageIn(t),
           NEW c \in Pid, t[c].status = "open", u[c].status = "closed",
           \A p \in Pid : p # c => u[p].status = t[p].status,
           \A p \in Pid : /\ u[p].pool = t[p].pool
                          /\ u[p].gen = t[p].gen /\ u[p].parent = t[p].parent
    PROVE  LineageIn(u)
<1>1. Used(u) = Used(t)
  BY SMT DEF Used, Row
<1>2. \A p \in Used(u) : u[p].gen <= MaxGen
  BY <1>1, SMT DEF LineageIn, Used, Row
<1>3. \A p \in Used(u) : u[p].parent = NoPid => u[p].gen = 0
  BY <1>1, SMT DEF LineageIn, Used, Row, Pid, NoPid
<1>4. ASSUME NEW p \in Used(u), u[p].parent # NoPid
      PROVE  LET q == u[p].parent
             IN  /\ q < p
                 /\ u[q].status = "closed"
                 /\ u[q].pool = u[p].pool
                 /\ u[p].gen = u[q].gen + 1
  <2>1. u[p].parent \in Pid
    BY <1>4, SMT DEF Used, Row
  <2> QED BY <1>1, <1>4, <2>1, SMT DEF LineageIn, Used, Row, Pid, NoPid
<1>5. \A p, r \in Used(u) :
        u[p].parent # NoPid /\ u[p].parent = u[r].parent => p = r
  BY <1>1, SMT DEF LineageIn, Used, Row, Pid, NoPid
<1> QED BY <1>2, <1>3, <1>4, <1>5, Zenon DEF LineageIn

LEMMA LineageInsert ==
    ASSUME NEW t \in [Pid -> Row], NEW u \in [Pid -> Row], LineageIn(t),
           NEW n \in Pid, t[n].status = "none",
           \A p \in Pid : p # n => u[p] = t[p],
           u[n].status = "open", u[n].parent = NoPid, u[n].gen = 0
    PROVE  LineageIn(u)
<1>1. Used(u) = Used(t) \cup {n}
  BY SMT DEF Used, Row
<1>2. \A p \in Used(u) : u[p].gen <= MaxGen
  BY <1>1, PaperBookAssumption, SMT DEF LineageIn, Used, Row, PaperBookAssumption
<1>3. \A p \in Used(u) : u[p].parent = NoPid => u[p].gen = 0
  BY <1>1, SMT DEF LineageIn, Used, Row, Pid, NoPid
<1>4. ASSUME NEW p \in Used(u), u[p].parent # NoPid
      PROVE  LET q == u[p].parent
             IN  /\ q < p
                 /\ u[q].status = "closed"
                 /\ u[q].pool = u[p].pool
                 /\ u[p].gen = u[q].gen + 1
  <2>1. u[p].parent \in Pid
    BY <1>4, SMT DEF Used, Row
  <2> QED BY <1>1, <1>4, <2>1, SMT DEF LineageIn, Used, Row, Pid, NoPid
<1>5. \A p, r \in Used(u) :
        u[p].parent # NoPid /\ u[p].parent = u[r].parent => p = r
  BY <1>1, SMT DEF LineageIn, Used, Row, Pid, NoPid
<1> QED BY <1>2, <1>3, <1>4, <1>5, Zenon DEF LineageIn

LEMMA LineageHeir ==
    ASSUME NEW t \in [Pid -> Row], NEW u \in [Pid -> Row], LineageIn(t),
           NEW n \in Pid, t[n].status = "none",
           \A p \in Pid : p # n => u[p] = t[p],
           NEW c \in Pid, t[c].status = "closed", c < n,
           \A p \in Used(t) : t[p].parent # c,
           t[c].gen < MaxGen,
           u[n].status = "open", u[n].parent = c, u[n].pool = t[c].pool,
           u[n].gen = t[c].gen + 1
    PROVE  LineageIn(u)
<1>1. Used(u) = Used(t) \cup {n}
  BY SMT DEF Used, Row
<1>2. \A p \in Used(u) : u[p].gen <= MaxGen
  BY <1>1, PaperBookAssumption, SMT DEF LineageIn, Used, Row, PaperBookAssumption
<1>3. \A p \in Used(u) : u[p].parent = NoPid => u[p].gen = 0
  BY <1>1, SMT DEF LineageIn, Used, Row, Pid, NoPid
<1>4. ASSUME NEW p \in Used(u), u[p].parent # NoPid
      PROVE  LET q == u[p].parent
             IN  /\ q < p
                 /\ u[q].status = "closed"
                 /\ u[q].pool = u[p].pool
                 /\ u[p].gen = u[q].gen + 1
  <2>1. u[p].parent \in Pid
    BY <1>4, SMT DEF Used, Row
  <2>2. CASE p = n
    <3>1. c # n /\ u[c] = t[c]
      BY SMT DEF Pid
    <3> QED BY <2>2, <3>1, SMT
  <2>3. CASE p # n
    <3>1. p \in Used(t) /\ u[p] = t[p]
      BY <1>1, <2>3, SMT DEF Used
    <3>2. t[p].parent # n /\ u[t[p].parent] = t[t[p].parent]
      BY <1>4, <2>1, <3>1, SMT DEF LineageIn
    <3> QED BY <1>4, <3>1, <3>2, SMT DEF LineageIn
  <2> QED BY <2>2, <2>3
<1>5. \A p, r \in Used(u) :
        u[p].parent # NoPid /\ u[p].parent = u[r].parent => p = r
  BY <1>1, SMT DEF LineageIn, Used, Row, Pid, NoPid
<1> QED BY <1>2, <1>3, <1>4, <1>5, Zenon DEF LineageIn

(* An open position has no heir. *)
LEMMA NoHeirYet ==
    ASSUME NEW t \in [Pid -> Row], LineageIn(t), NEW c \in Pid, t[c].status = "open"
    PROVE  \A p \in Used(t) : t[p].parent # c
BY SMT DEF LineageIn, Used, Row, Pid, NoPid

-----------------------------------------------------------------------------
(* The audit trail.                                                        *)

LEMMA AuditSame ==
    ASSUME NEW t \in [Pid -> Row], NEW u \in [Pid -> Row], NEW e \in SUBSET LogEntry,
           AuditIn(t, e),
           \A p \in Pid : u[p].status = t[p].status,
           AutoIn(u) = AutoIn(t)
    PROVE  AuditIn(u, e)
<1>1. \A p \in Pid : u[p].status = "closed" <=>
        \E r \in e : r.kind \in {"close", "rebalance"} /\ r.pid = p
  BY Zenon DEF AuditIn
<1>2. \A p \in Pid : p \in AutoIn(u) <=> \E r \in e : r.new = p
  BY Zenon DEF AuditIn
<1> QED BY <1>1, <1>2, Zenon DEF AuditIn

LEMMA AuditManual ==
    ASSUME NEW t \in [Pid -> Row], NEW u \in [Pid -> Row], NEW e \in SUBSET LogEntry,
           AuditIn(t, e),
           NEW n \in Pid, t[n].status = "none",
           \A p \in Pid : p # n => u[p] = t[p],
           u[n].status = "open", AutoIn(u) = AutoIn(t)
    PROVE  AuditIn(u, e)
BY SMT DEF AuditIn

LEMMA AuditClose ==
    ASSUME NEW t \in [Pid -> Row], NEW u \in [Pid -> Row], NEW e \in SUBSET LogEntry,
           AuditIn(t, e), AddsAlone(e),
           NEW c \in Pid, t[c].status = "open", u[c].status = "closed",
           \A p \in Pid : p # c => u[p].status = t[p].status,
           AutoIn(u) = AutoIn(t),
           NEW r \in LogEntry, r.kind \in {"close", "rebalance"}, r.pid = c, r.new = NoPid
    PROVE  AuditIn(u, e \cup {r}) /\ AddsAlone(e \cup {r})
BY SMT DEF AuditIn, AddsAlone, LogEntry, Pid, NoPid

LEMMA AuditAdd ==
    ASSUME NEW t \in [Pid -> Row], NEW u \in [Pid -> Row], NEW e \in SUBSET LogEntry,
           AuditIn(t, e), AddsAlone(e),
           NEW n \in Pid, t[n].status = "none",
           \A p \in Pid : p # n => u[p] = t[p],
           u[n].status = "open", AutoIn(u) = AutoIn(t) \cup {n},
           NEW r \in LogEntry, r.kind = "add", r.pid = NoPid, r.new = n
    PROVE  AuditIn(u, e \cup {r}) /\ AddsAlone(e \cup {r})
<1>1. n \notin AutoIn(t)
  BY Zenon DEF AutoIn
<1> QED BY <1>1, SMT DEF AuditIn, AddsAlone, LogEntry, Pid, NoPid

(* What AuditHeir asks of the table before and after. *)
HeirStep(t, u, e, c, n, r) ==
    /\ AuditIn(t, e) /\ AddsAlone(e)
    /\ t[c].status = "open" /\ u[c].status = "closed"
    /\ t[n].status = "none" /\ u[n].status = "open"
    /\ AutoIn(u) = AutoIn(t) \cup {n}
    /\ \A p \in Pid : p # n /\ p # c => u[p] = t[p]
    /\ r.kind = "rebalance" /\ r.pid = c /\ r.new = n

LEMMA AuditHeir ==
    ASSUME NEW t \in [Pid -> Row], NEW u \in [Pid -> Row], NEW e \in SUBSET LogEntry,
           NEW c \in Pid, NEW n \in Pid, NEW r \in LogEntry, HeirStep(t, u, e, c, n, r)
    PROVE  AuditIn(u, e \cup {r}) /\ AddsAlone(e \cup {r})
<1>1. n \notin AutoIn(t)
  BY Zenon DEF AutoIn, HeirStep
<1> QED BY <1>1, SMT DEF HeirStep, AuditIn, AddsAlone, LogEntry, Pid, NoPid

-----------------------------------------------------------------------------
(* The intents.                                                            *)

LEMMA IntentsKept ==
    ASSUME NEW t \in [Pid -> Row], NEW u \in [Pid -> Row],
           NEW e \in SUBSET LogEntry, NEW f \in SUBSET LogEntry, e \subseteq f,
           NEW q \in SUBSET Intent, IntentsMatch(t, e, q),
           \A p \in Pid : t[p].status # "none" =>
                            u[p].status # "none" /\ u[p].pool = t[p].pool
    PROVE  IntentsMatch(u, f, q)
BY SMT DEF IntentsMatch, Intent

(* A position that is not closed yet has no closing intent. *)
LEMMA NoClosingIntent ==
    ASSUME NEW t \in [Pid -> Row], NEW e \in SUBSET LogEntry, AuditIn(t, e),
           NEW q \in SUBSET Intent, IntentsMatch(t, e, q),
           NEW c \in Pid, t[c].status # "closed"
    PROVE  \A j \in q : j.kind # "open" => j.position # c
BY SMT DEF IntentsMatch, AuditIn, Intent, LogEntry

LEMMA IntentsAdded ==
    ASSUME NEW u \in [Pid -> Row], NEW f \in SUBSET LogEntry,
           NEW q \in SUBSET Intent, IntentsMatch(u, f, q),
           NEW i \in Intent, u[i.position].status # "none", u[i.position].pool = i.pool,
           \/ i.kind = "open" /\ \E e \in f : e.kind = "add" /\ e.new = i.position
           \/ /\ i.kind # "open"
              /\ \E e \in f : e.kind = i.kind /\ e.pid = i.position
              /\ \A j \in q : j.kind # "open" => j.position # i.position
    PROVE  IntentsMatch(u, f, q \cup {i})
BY SMT DEF IntentsMatch, Intent

-----------------------------------------------------------------------------
(* Rows and entries.                                                       *)

LEMMA PutRow ==
    ASSUME NEW S, NEW s \in [Pid -> S], NEW n \in Pid, NEW h \in S,
           NEW u, u = [s EXCEPT ![n] = h]
    PROVE  /\ u \in [Pid -> S] /\ u[n] = h
           /\ \A p \in Pid : p # n => u[p] = s[p]
OBVIOUS

LEMMA AutoPutManual ==
    ASSUME NEW t \in [Pid -> Row], NEW n \in Pid, t[n].status = "none",
           NEW u, \A p \in Pid : p # n => u[p] = t[p], ~u[n].auto
    PROVE  AutoIn(u) = AutoIn(t)
BY SMT DEF AutoIn


LEMMA PidIsNat == \A p \in Pid : p \in Nat /\ p >= 1 /\ p # NoPid
BY PaperBookAssumption, SMT DEF Pid, NoPid, PaperBookAssumption

LEMMA AbsentIsRow == Absent \in Row /\ Absent.status = "none"
<1>1. (CHOOSE p \in Pool : TRUE) \in Pool
  BY PaperBookAssumption DEF PaperBookAssumption
<1> QED BY <1>1, SMT DEF Absent, Row, NoPid

(* Closing a row changes its status alone.                                 *)
LEMMA ClosedFields ==
    ASSUME NEW t \in [Pid -> Row], NEW c \in Pid, t[c].status = "open"
    PROVE  LET u == Closed(t, c)
           IN  /\ u \in [Pid -> Row]
               /\ u[c].status = "closed"
               /\ \A p \in Pid : p # c => u[p] = t[p]
               /\ \A p \in Pid : /\ u[p].pool = t[p].pool /\ u[p].gen = t[p].gen
                                 /\ u[p].parent = t[p].parent
               /\ AutoIn(u) = AutoIn(t)
<1>1. ASSUME NEW r \in Row
      PROVE  LET r2 == [r EXCEPT !.status = "closed"]
             IN  /\ r2 \in Row /\ r2.status = "closed"
                 /\ r2.pool = r.pool /\ r2.gen = r.gen
                 /\ r2.parent = r.parent /\ r2.auto = r.auto
  BY SMT DEF Row
<1>2. Closed(t, c) = [t EXCEPT ![c] = [t[c] EXCEPT !.status = "closed"]]
  BY SMT DEF Closed
<1>3. t[c] \in Row
  OBVIOUS
<1> DEFINE r2 == [t[c] EXCEPT !.status = "closed"]
<1>4. /\ r2 \in Row /\ r2.status = "closed"
      /\ r2.pool = t[c].pool /\ r2.gen = t[c].gen
      /\ r2.parent = t[c].parent /\ r2.auto = t[c].auto
  BY <1>1, <1>3
<1> DEFINE u == Closed(t, c)
<1>5. u = [t EXCEPT ![c] = r2]
  BY <1>2
<1> HIDE DEF r2, u
<1>6. u \in [Pid -> Row] /\ u[c] = r2 /\ \A p \in Pid : p # c => u[p] = t[p]
  BY <1>4, <1>5, PutRow, Zenon
<1>7. \A p \in Pid : /\ u[p].pool = t[p].pool /\ u[p].gen = t[p].gen
                     /\ u[p].parent = t[p].parent
  BY <1>4, <1>6
<1>8. AutoIn(u) = AutoIn(t)
  <2>1. \A p \in Pid : p \in AutoIn(u) <=> p \in AutoIn(t)
    BY <1>4, <1>6, SMT DEF AutoIn
  <2> QED BY <2>1 DEF AutoIn
<1> QED BY <1>4, <1>6, <1>7, <1>8, Zenon DEF u

(* Queueing an intent. *)
LEMMA QueueKeeps ==
    ASSUME TypeOK, NEW u \in [Pid -> Row], NEW f \in SUBSET LogEntry,
           IntentsMatch(u, f, wintents),
           NEW i \in Intent, Queue(i), u[i.position].status # "none", u[i.position].pool = i.pool,
           \/ i.kind = "open" /\ \E e \in f : e.kind = "add" /\ e.new = i.position
           \/ /\ i.kind # "open"
              /\ \E e \in f : e.kind = i.kind /\ e.pid = i.position
              /\ \A j \in wintents : j.kind # "open" => j.position # i.position
    PROVE  wintents' \subseteq Intent /\ IntentsMatch(u, f, wintents')
<1>1. wintents \in SUBSET Intent
  BY DEF TypeOK
<1>2. IntentsMatch(u, f, wintents \cup {i})
  BY <1>1, IntentsAdded
<1>3. wintents' = wintents \/ wintents' = wintents \cup {i}
  BY DEF Queue
<1> QED BY <1>1, <1>2, <1>3

-----------------------------------------------------------------------------
(* The statements, on whichever of the two tables.                         *)


LEMMA ManualStatement ==
    ASSUME NEW t \in [Pid -> Row], NEW e \in SUBSET LogEntry, NEW q \in SUBSET Intent,
           NEW n \in Pid, BookIn(t, e, q, n),
           NEW h \in Row, h.status = "open", h.parent = NoPid, h.gen = 0, ~h.auto,
           NEW u, u = [t EXCEPT ![n] = h]
    PROVE  u \in [Pid -> Row] /\ BookIn(u, e, q, n + 1)
<1>3. u \in [Pid -> Row] /\ u[n] = h /\ \A p \in Pid : p # n => u[p] = t[p]
  OBVIOUS
<1>4. t[n].status = "none"
  BY PidIsNat, SMT DEF BookIn, FreshIn
<1>5. FreshIn(u, n + 1)
  BY <1>3, PidIsNat, SMT DEF BookIn, FreshIn
<1>6. LineageIn(u)
  BY <1>3, <1>4, LineageInsert DEF BookIn
<1>7. AuditIn(u, e)
  <2>1. u[n].status = "open" /\ ~u[n].auto
    BY <1>3, Zenon
  <2>2. AutoIn(u) = AutoIn(t)
    BY <1>3, <1>4, <2>1, AutoPutManual, Zenon
  <2>3. AuditIn(t, e)
    BY DEF BookIn
  <2>4. u \in [Pid -> Row]
    BY <1>3
  <2>5. \A p \in Pid : p # n => u[p] = t[p]
    BY <1>3
  <2>6. u[n].status = "open"
    BY <2>1
  <2> QED BY ONLY <2>2, <2>3, <2>4, <2>5, <2>6, <1>4, AuditManual,
             t \in [Pid -> Row], e \in SUBSET LogEntry, n \in Pid
<1>8. IntentsMatch(u, e, q)
  <2>1. \A p \in Pid : t[p].status # "none" => u[p].status # "none" /\ u[p].pool = t[p].pool
    BY <1>3, <1>4
  <2> QED BY <1>3, <2>1, IntentsKept DEF BookIn
<1> QED BY <1>3, <1>5, <1>6, <1>7, <1>8 DEF BookIn

(* r is the entry of the action that closes c without an heir. *)
LEMMA CloseStatement ==
    ASSUME NEW t \in [Pid -> Row], NEW e \in SUBSET LogEntry, NEW q \in SUBSET Intent,
           NEW n \in Nat, BookIn(t, e, q, n),
           NEW c \in Pid, t[c].status = "open",
           NEW r \in LogEntry, r.kind \in {"close", "rebalance"}, r.pid = c, r.new = NoPid,
           NEW u, u = Closed(t, c)
    PROVE  u \in [Pid -> Row] /\ u[c].status = "closed" /\ BookIn(u, e \cup {r}, q, n)
<1>1. /\ u \in [Pid -> Row]
      /\ u[c].status = "closed"
      /\ \A p \in Pid : p # c => u[p] = t[p]
      /\ \A p \in Pid : /\ u[p].pool = t[p].pool /\ u[p].gen = t[p].gen
                        /\ u[p].parent = t[p].parent
      /\ AutoIn(u) = AutoIn(t)
  BY ClosedFields, Zenon
<1>2. \A p \in Pid : p # c => u[p].status = t[p].status
  BY <1>1
<1>3. FreshIn(u, n)
  BY <1>1, PidIsNat, SMT DEF BookIn, FreshIn
<1>4. LineageIn(u)
  BY <1>1, <1>2, LineageClose, Zenon DEF BookIn
<1>5. AuditIn(u, e \cup {r}) /\ AddsAlone(e \cup {r})
  <2>2. AuditIn(t, e) /\ AddsAlone(e)
    BY DEF BookIn
  <2>3. u \in [Pid -> Row] /\ u[c].status = "closed"
    BY <1>1
  <2> QED BY <1>1, <1>2, <2>2, <2>3, AuditClose
<1>6. IntentsMatch(u, e \cup {r}, q)
  <2>1. \A p \in Pid : t[p].status # "none" => u[p].status # "none" /\ u[p].pool = t[p].pool
    BY <1>1, SMT
  <2>2. e \cup {r} \in SUBSET LogEntry /\ e \subseteq e \cup {r}
    OBVIOUS
  <2> QED BY <1>1, <2>1, <2>2, IntentsKept DEF BookIn
<1> QED BY <1>1, <1>3, <1>4, <1>5, <1>6 DEF BookIn

(* s is the table t with c closed, u is s with the heir of c in row n, and *)
(* r is the entry of the action that did it.                               *)
ClosedCopy(t, s, c) ==
    /\ s[c].status = "closed"
    /\ \A p \in Pid : p # c => s[p] = t[p]
    /\ \A p \in Pid : /\ s[p].pool = t[p].pool /\ s[p].gen = t[p].gen
                      /\ s[p].parent = t[p].parent
    /\ AutoIn(s) = AutoIn(t)

HeirPut(t, s, u, n, c) ==
    /\ u \in [Pid -> Row]
    /\ \A p \in Pid : p # n => u[p] = s[p]
    /\ u[n].status = "open" /\ u[n].pool = t[c].pool /\ u[n].parent = c
    /\ u[n].gen = t[c].gen + 1
    /\ u[n].auto

HeirEntry(r, n, c) ==
    r \in LogEntry /\ r.kind = "rebalance" /\ r.pid = c /\ r.new = n

(* The same with an heir in row n. *)
LEMMA HeirStatement ==
    ASSUME NEW t \in [Pid -> Row], NEW e \in SUBSET LogEntry, NEW q \in SUBSET Intent,
           NEW n \in Pid, BookIn(t, e, q, n),
           NEW c \in Pid, t[c].status = "open", t[c].gen < MaxGen,
           NEW s \in [Pid -> Row], ClosedCopy(t, s, c),
           NEW u, HeirPut(t, s, u, n, c),
           NEW r, HeirEntry(r, n, c)
    PROVE  u[c].status = "closed" /\ u[c].pool = t[c].pool
           /\ BookIn(u, e \cup {r}, q, n + 1)
<1>1. s[c].status = "closed" /\ AutoIn(s) = AutoIn(t)
  BY Zenon DEF ClosedCopy
<1>2. \A p \in Pid : p # c => s[p] = t[p]
  BY Zenon DEF ClosedCopy
<1>3. \A p \in Pid : /\ s[p].pool = t[p].pool /\ s[p].gen = t[p].gen
                     /\ s[p].parent = t[p].parent
  BY Zenon DEF ClosedCopy
<1>4. u[n].status = "open" /\ u[n].pool = t[c].pool /\ u[n].parent = c
      /\ u[n].gen = t[c].gen + 1
  BY Zenon DEF HeirPut
<1>12. u[n].auto
  BY Zenon DEF HeirPut
<1>13. r \in LogEntry /\ r.kind = "rebalance" /\ r.pid = c /\ r.new = n
  BY Zenon DEF HeirEntry
<1>5. t[n].status = "none" /\ c < n /\ s[n].status = "none"
  BY <1>1, <1>2, PidIsNat, SMT DEF BookIn, FreshIn
<1>6. u \in [Pid -> Row] /\ \A p \in Pid : p # n => u[p] = s[p]
  BY Zenon DEF HeirPut
<1>7. u[c].status = "closed" /\ u[c].pool = t[c].pool /\ u[n].status = "open"
  BY <1>1, <1>3, <1>4, <1>5, <1>6, PidIsNat, SMT
<1>8. FreshIn(u, n + 1)
  BY <1>2, <1>5, <1>6, PidIsNat, SMT DEF BookIn, FreshIn
<1>9. LineageIn(u)
  <2>1. \A p \in Pid : p # c => s[p].status = t[p].status
    BY <1>2
  <2>2. LineageIn(s)
    BY <1>1, <1>3, <2>1, LineageClose DEF BookIn
  <2>3. \A p \in Used(s) : s[p].parent # c
    <3>1. \A p \in Used(t) : t[p].parent # c
      BY NoHeirYet DEF BookIn
    <3>2. Used(s) = Used(t)
      BY <1>1, <2>1, SMT DEF Used
    <3> QED BY <1>3, <3>1, <3>2 DEF Used
  <2>4. /\ s[c].gen < MaxGen /\ u[n].status = "open" /\ u[n].parent = c
        /\ u[n].pool = s[c].pool /\ u[n].gen = s[c].gen + 1
    BY <1>3, <1>4, <1>6
  <2> QED BY <1>1, <1>5, <1>6, <2>2, <2>3, <2>4, LineageHeir
<1>10. AuditIn(u, e \cup {r}) /\ AddsAlone(e \cup {r})
  <2>1. \A p \in Pid : p # n /\ p # c => u[p] = t[p]
    BY <1>2, <1>6
  <2>2. AutoIn(u) = AutoIn(t) \cup {n}
    <3>2. AutoIn(u) = AutoIn(s) \cup {n}
      <4>1. s[n].status = "none" /\ u[n].status = "open"
        BY <1>5, <1>7
      <4>2. \A p \in Pid : p # n => u[p] = s[p]
        BY <1>6
      <4> QED BY <1>12, <4>1, <4>2, SMT DEF AutoIn
    <3> QED BY <1>1, <3>2, Zenon
  <2>3. AuditIn(t, e)
    BY DEF BookIn
  <2>4. AddsAlone(e)
    BY DEF BookIn
  <2>5. u \in [Pid -> Row]
    BY <1>6
  <2>6. u[c].status = "closed" /\ u[n].status = "open"
    BY <1>7
  <2>7. t[c].status = "open" /\ t[n].status = "none"
    BY <1>5
  <2>8. r \in LogEntry
    BY <1>13
  <2>9. r.kind = "rebalance" /\ r.pid = c /\ r.new = n
    BY <1>13
  <2>10. HeirStep(t, u, e, c, n, r)
    BY <2>1, <2>2, <2>3, <2>4, <2>6, <2>7, <2>9, Zenon DEF HeirStep
  <2> QED BY <2>5, <2>8, <2>10, AuditHeir, Zenon
<1>11. IntentsMatch(u, e \cup {r}, q)
  <2>1. \A p \in Pid : t[p].status # "none" => u[p].status # "none" /\ u[p].pool = t[p].pool
    BY <1>2, <1>5, <1>6, <1>7, SMT
  <2>2. e \cup {r} \in SUBSET LogEntry /\ e \subseteq e \cup {r}
    BY <1>13
  <2> QED BY <1>6, <2>1, <2>2, IntentsKept DEF BookIn
<1> QED BY <1>6, <1>7, <1>8, <1>9, <1>10, <1>11 DEF BookIn

(* The statements of an addition keep log and book in step.                *)
LEMMA AddStatement ==
    ASSUME NEW t \in [Pid -> Row], NEW e \in SUBSET LogEntry, NEW q \in SUBSET Intent,
           NEW n \in Pid, BookIn(t, e, q, n),
           NEW h \in Row, h.status = "open", h.parent = NoPid, h.gen = 0, h.auto,
           NEW r \in LogEntry, r.kind = "add", r.pid = NoPid, r.new = n,
           NEW u, u = [t EXCEPT ![n] = h]
    PROVE  u \in [Pid -> Row] /\ u[n] = h /\ BookIn(u, e \cup {r}, q, n + 1)
<1>3. u \in [Pid -> Row] /\ u[n] = h /\ \A p \in Pid : p # n => u[p] = t[p]
  OBVIOUS
<1>4. t[n].status = "none"
  BY PidIsNat, SMT DEF BookIn, FreshIn
<1>5. FreshIn(u, n + 1)
  BY <1>3, PidIsNat, SMT DEF BookIn, FreshIn
<1>6. LineageIn(u)
  BY <1>3, <1>4, LineageInsert DEF BookIn
<1>7. AuditIn(u, e \cup {r}) /\ AddsAlone(e \cup {r})
  <2>1. u[n].status = "open" /\ u[n].auto
    BY <1>3, Zenon
  <2>2. AutoIn(u) = AutoIn(t) \cup {n}
    <3>1. \A p \in Pid : p # n => u[p] = t[p]
      BY <1>3
    <3> QED BY <1>4, <2>1, <3>1, SMT DEF AutoIn
  <2> QED BY <1>3, <1>4, <2>1, <2>2, AuditAdd DEF BookIn
<1>8. IntentsMatch(u, e \cup {r}, q)
  <2>1. \A p \in Pid : t[p].status # "none" => u[p].status # "none" /\ u[p].pool = t[p].pool
    BY <1>3, <1>4
  <2>2. e \cup {r} \in SUBSET LogEntry /\ e \subseteq e \cup {r}
    OBVIOUS
  <2> QED BY <1>3, <2>1, <2>2, IntentsKept DEF BookIn
<1> QED BY <1>3, <1>5, <1>6, <1>7, <1>8 DEF BookIn

-----------------------------------------------------------------------------
(* The actions.                                                            *)

LEMMA InitIInv == Init => IInv
<1> SUFFICES ASSUME Init PROVE IInv
  OBVIOUS
<1>1. pos \in [Pid -> Row] /\ wpos = pos /\ \A p \in Pid : pos[p].status = "none"
  BY AbsentIsRow DEF Init
<1>2. TypeOK
  BY <1>1, PaperBookAssumption, SMT DEF Init, TypeOK, PaperBookAssumption
<1>3. FreshIn(pos, nextId) /\ AddsAlone(log) /\ IntentsMatch(pos, log, intents)
  BY <1>1 DEF Init, FreshIn, AddsAlone, IntentsMatch
<1>4. LineageIn(pos)
  BY <1>1, SMT DEF LineageIn, Used
<1>5. AuditIn(pos, log)
  <2>1. AutoIn(pos) = {} /\ log = {}
    BY <1>1, SMT DEF AutoIn, Init
  <2> QED BY <1>1, <2>1, SMT DEF AuditIn
<1>6. BookIn(pos, log, intents, nextId)
  BY <1>3, <1>4, <1>5 DEF BookIn
<1>7. BookIn(wpos, wlog, wintents, nextId) /\ TodoOpen /\ IdleSynced
  BY <1>6, Zenon DEF Init, TodoOpen, IdleSynced
<1> QED BY <1>2, <1>6, <1>7 DEF IInv

LEMMA ManualKeepsIInv ==
    ASSUME IInv, NEW c \in Pool, NEW usd \in Sizes, ManualOpen(c, usd)
    PROVE  IInv'
<1> DEFINE h == NewRow(c, usd, NoPid, 0, FALSE)
<1>1. usd \in Nat /\ 0 \in Nat /\ NoPid \in Pid \cup {NoPid} /\ FALSE \in BOOLEAN
  BY PaperBookAssumption DEF PaperBookAssumption
<1>2. h \in Row /\ h.status = "open" /\ h.parent = NoPid /\ h.gen = 0
  <2>1. h \in Row
    BY <1>1 DEF NewRow, Row
  <2> QED BY <2>1 DEF NewRow
<1>3. ~h.auto
  BY DEF NewRow
<1>4. /\ nextId \in Pid /\ nextId' = nextId + 1
      /\ pos' = [pos EXCEPT ![nextId] = h] /\ wpos' = [wpos EXCEPT ![nextId] = h]
      /\ UNCHANGED <<log, wlog, intents, wintents, phase, todo, funded, plan, free, cycle>>
  BY DEF ManualOpen
<1> HIDE DEF h
<1>5. pos' \in [Pid -> Row] /\ BookIn(pos', log, intents, nextId + 1)
  BY <1>2, <1>3, <1>4, ManualStatement DEF IInv, TypeOK
<1>6. wpos' \in [Pid -> Row] /\ BookIn(wpos', wlog, wintents, nextId + 1)
  BY <1>2, <1>3, <1>4, ManualStatement DEF IInv, TypeOK
<1>7. nextId + 1 \in 1..(MaxPid + 1)
  BY <1>4, PaperBookAssumption, SMT DEF Pid, PaperBookAssumption
<1>8. late' \subseteq Pid
  BY <1>4 DEF ManualOpen, IInv, TypeOK
<1>9. TypeOK'
  BY <1>4, <1>5, <1>6, <1>7, <1>8 DEF TypeOK, IInv
<1>10. TodoOpen'
  <2>1. \A p \in Pid : p # nextId => wpos'[p] = wpos[p]
    BY <1>4 DEF IInv, TypeOK
  <2>2. wpos[nextId].status = "none"
    BY <1>4, PidIsNat, SMT DEF IInv, BookIn, FreshIn
  <2> QED BY <1>4, <2>1, <2>2, SMT DEF IInv, TodoOpen, OpenIn
<1>11. IdleSynced'
  BY <1>4, Zenon DEF IInv, IdleSynced
<1> QED BY <1>4, <1>5, <1>6, <1>9, <1>10, <1>11, Zenon DEF IInv

MarkOf(r, x, b) == [r EXCEPT !.side = x, !.ever = b]

LEMMA MarkedFields ==
    \A r \in Row, x \in Side, b \in BOOLEAN :
        /\ MarkOf(r, x, b) \in Row
        /\ MarkOf(r, x, b).status = r.status /\ MarkOf(r, x, b).pool = r.pool
        /\ MarkOf(r, x, b).gen = r.gen /\ MarkOf(r, x, b).parent = r.parent
        /\ MarkOf(r, x, b).auto = r.auto
<1> SUFFICES ASSUME NEW r \in Row, NEW x \in Side, NEW b \in BOOLEAN
             PROVE  /\ MarkOf(r, x, b) \in Row
                    /\ MarkOf(r, x, b).status = r.status /\ MarkOf(r, x, b).pool = r.pool
                    /\ MarkOf(r, x, b).gen = r.gen /\ MarkOf(r, x, b).parent = r.parent
                    /\ MarkOf(r, x, b).auto = r.auto
  BY Zenon
<1> QED BY DEF MarkOf, Row

(* Marking the book changes no status, pool or lineage.                    *)
LEMMA MarkRows ==
    ASSUME IInv, MarkBook, NEW p \in Pid
    PROVE  /\ pos'[p] \in Row /\ pos'[p].status = pos[p].status
           /\ pos'[p].pool = pos[p].pool /\ pos'[p].gen = pos[p].gen
           /\ pos'[p].parent = pos[p].parent /\ pos'[p].auto = pos[p].auto
<1>1. PICK side \in [OpenIn(pos) -> Side] :
        pos' = [x \in Pid |->
                  IF x \in OpenIn(pos)
                  THEN [pos[x] EXCEPT !.side = side[x], !.ever = @ \/ side[x] = "in"]
                  ELSE pos[x]]
  BY DEF MarkBook
<1>2. pos \in [Pid -> Row]
  BY DEF IInv, TypeOK
<1>3. CASE p \in OpenIn(pos)
  <2> DEFINE b == pos[p].ever \/ side[p] = "in"
  <2>1. b \in BOOLEAN /\ side[p] \in Side /\ pos[p] \in Row
    BY <1>2, <1>3
  <2>2. pos'[p] = MarkOf(pos[p], side[p], b)
    BY <1>1, <1>3 DEF MarkOf
  <2> HIDE DEF b
  <2>3. /\ MarkOf(pos[p], side[p], b) \in Row
        /\ MarkOf(pos[p], side[p], b).status = pos[p].status
        /\ MarkOf(pos[p], side[p], b).pool = pos[p].pool
        /\ MarkOf(pos[p], side[p], b).gen = pos[p].gen
        /\ MarkOf(pos[p], side[p], b).parent = pos[p].parent
        /\ MarkOf(pos[p], side[p], b).auto = pos[p].auto
    BY <2>1, MarkedFields, Zenon
  <2> QED BY <2>2, <2>3, Zenon
<1>4. CASE p \notin OpenIn(pos)
  BY <1>1, <1>2, <1>4, Zenon
<1> QED BY <1>3, <1>4

LEMMA MarkKeepsIInv ==
    ASSUME IInv, MarkBook
    PROVE  IInv'
<1>1. PICK side \in [OpenIn(pos) -> Side] :
        pos' = [p \in Pid |->
                  IF p \in OpenIn(pos)
                  THEN [pos[p] EXCEPT !.side = side[p], !.ever = @ \/ side[p] = "in"]
                  ELSE pos[p]]
  BY DEF MarkBook
<1>2. /\ phase = "idle" /\ wpos' = pos'
      /\ UNCHANGED <<log, wlog, intents, wintents, phase, todo, funded, plan, free,
                     late, nextId, cycle>>
  BY DEF MarkBook, control
<1>3. pos \in [Pid -> Row] /\ log \subseteq LogEntry /\ intents \subseteq Intent
  BY DEF IInv, TypeOK
<1>4. ASSUME NEW p \in Pid
      PROVE  /\ pos'[p] \in Row /\ pos'[p].status = pos[p].status
             /\ pos'[p].pool = pos[p].pool /\ pos'[p].gen = pos[p].gen
             /\ pos'[p].parent = pos[p].parent /\ pos'[p].auto = pos[p].auto
  BY MarkRows
<1>5. pos' \in [Pid -> Row]
  <2>1. pos' = [p \in Pid |-> pos'[p]]
    BY <1>1, Zenon
  <2> QED BY <1>4, <2>1, Zenon
<1>6. AutoIn(pos') = AutoIn(pos) /\ OpenIn(pos') = OpenIn(pos)
  BY <1>4, Zenon DEF AutoIn, OpenIn
<1>7. BookIn(pos', log, intents, nextId)
  <2>1. BookIn(pos, log, intents, nextId)
    BY DEF IInv
  <2>2. FreshIn(pos', nextId)
    BY <1>4, <2>1, Zenon DEF BookIn, FreshIn
  <2>3. LineageIn(pos')
    BY <1>3, <1>4, <1>5, <2>1, LineageSame DEF BookIn
  <2>4. AuditIn(pos', log)
    BY <1>3, <1>4, <1>5, <1>6, <2>1, AuditSame DEF BookIn
  <2>5. IntentsMatch(pos', log, intents)
    BY <1>3, <1>4, <1>5, <2>1, IntentsKept DEF BookIn
  <2> QED BY <2>1, <2>2, <2>3, <2>4, <2>5 DEF BookIn
<1>8. wpos = pos /\ wlog = log /\ wintents = intents
  BY <1>2, Zenon DEF IInv, IdleSynced
<1>9. TypeOK'
  BY <1>2, <1>5 DEF TypeOK, IInv
<1>10. TodoOpen' /\ IdleSynced'
  BY <1>2, <1>6, <1>8, Zenon DEF IInv, TodoOpen, IdleSynced
<1>11. BookIn(pos, log, intents, nextId)' /\ BookIn(wpos, wlog, wintents, nextId)'
  BY <1>2, <1>7, <1>8, Zenon
<1> QED BY <1>9, <1>10, <1>11, Zenon DEF IInv

(* Steps that leave both sets of tables alone. *)
LEMMA TablesUnchanged ==
    ASSUME IInv, UNCHANGED <<committed, view, nextId>>, TypeOK', TodoOpen',
           phase = "idle" \/ phase' # "idle"
    PROVE  IInv'
<1>1. UNCHANGED <<pos, log, intents, wpos, wlog, wintents, nextId>>
  BY DEF committed, view
<1>2. BookIn(pos, log, intents, nextId)' /\ BookIn(wpos, wlog, wintents, nextId)'
  BY <1>1, Zenon DEF IInv
<1>3. IdleSynced'
  BY <1>1, Zenon DEF IInv, IdleSynced
<1> QED BY <1>2, <1>3 DEF IInv

LEMMA ReadersKeepIInv ==
    ASSUME IInv,
           \/ NextCycle \/ (\E fund \in SUBSET Pool : Begin(fund))
           \/ (\E p \in Pid : Hold(p)) \/ (\E c \in Pool : Skip(c))
    PROVE  IInv'
<1>1. CASE NextCycle
  <2>1. TypeOK' /\ TodoOpen'
    BY <1>1, PaperBookAssumption, SMT
       DEF NextCycle, IInv, TypeOK, TodoOpen, committed, view, control, PaperBookAssumption
  <2> QED BY <1>1, <2>1, TablesUnchanged, SMT DEF NextCycle, control
<1>2. ASSUME NEW fund \in SUBSET Pool, Begin(fund) PROVE IInv'
  <2>1. TypeOK' /\ TodoOpen'
    BY <1>2, SMT DEF Begin, IInv, TypeOK, TodoOpen, OpenIn, committed, view
  <2> QED BY <1>2, <2>1, TablesUnchanged, SMT DEF Begin
<1>3. ASSUME NEW p \in Pid, Hold(p) PROVE IInv'
  <2>1. TypeOK' /\ TodoOpen'
    BY <1>3, SMT DEF Hold, Decided, IInv, TypeOK, TodoOpen, OpenIn, committed, view
  <2> QED BY <1>3, <2>1, TablesUnchanged, SMT DEF Hold, Decided
<1>4. ASSUME NEW c \in Pool, Skip(c) PROVE IInv'
  <2>1. TypeOK' /\ TodoOpen'
    BY <1>4, SMT DEF Skip, IInv, TypeOK, TodoOpen, OpenIn, committed, view
  <2> QED BY <1>4, <2>1, TablesUnchanged, SMT DEF Skip
<1> QED BY <1>1, <1>2, <1>3, <1>4

LEMMA SizeBookKeepsIInv ==
    ASSUME IInv, SizeBook
    PROVE  IInv'
<1>1. FreeCapital \in Nat
  <2>1. Cardinality(OpenIn(wpos)) \in Nat
    <3>1. IsFiniteSet(Pid)
      BY PaperBookAssumption, FS_Interval, SMT DEF Pid, PaperBookAssumption
    <3>2. IsFiniteSet(OpenIn(wpos))
      BY <3>1, FS_Subset DEF OpenIn
    <3> QED BY <3>2, FS_CardinalityType
  <2>2. Deployed(wpos) \in Int
    BY PaperBookAssumption, SMT DEF SizeBook, PaperBookAssumption
  <2>3. Cardinality(OpenIn(wpos)) * Rent \in Nat
    BY <2>1, PaperBookAssumption, SMT DEF PaperBookAssumption
  <2> DEFINE locked == Cardinality(OpenIn(wpos)) * Rent
             used   == Deployed(wpos)
  <2>4. FreeCapital = MaxOf(0, Budget - used - GasBuffer - locked)
    BY DEF FreeCapital
  <2> HIDE DEF locked, used
  <2> QED BY <2>2, <2>3, <2>4, PaperBookAssumption, SMT DEF MaxOf, PaperBookAssumption, locked, used
<1>2. TypeOK' /\ TodoOpen'
  BY <1>1, SMT DEF SizeBook, Plans, Candidates, IInv, TypeOK, TodoOpen, OpenIn, committed, view
<1> QED BY <1>2, TablesUnchanged, SMT DEF SizeBook

LEMMA EndsKeepIInv ==
    ASSUME IInv, Commit \/ Rollback
    PROVE  IInv'
<1>1. CASE Commit
  <2>1. /\ pos' = wpos /\ log' = wlog /\ intents' = wintents
        /\ UNCHANGED <<wpos, wlog, wintents, nextId, cycle>>
        /\ phase' = "idle" /\ todo' = {} /\ plan' = {} /\ funded' = {} /\ free' = 0 /\ late' = {}
    BY <1>1 DEF Commit, EndPhase, view
  <2>2. TypeOK' /\ TodoOpen' /\ IdleSynced'
    BY <2>1 DEF IInv, TypeOK, TodoOpen, IdleSynced
  <2>3. BookIn(pos, log, intents, nextId)' /\ BookIn(wpos, wlog, wintents, nextId)'
    BY <2>1, Zenon DEF IInv
  <2> QED BY <2>2, <2>3 DEF IInv
<1>2. CASE Rollback
  <2>1. /\ wpos' = pos /\ wlog' = log /\ wintents' = intents
        /\ UNCHANGED <<pos, log, intents, nextId, cycle>>
        /\ phase' = "idle" /\ todo' = {} /\ plan' = {} /\ funded' = {} /\ free' = 0 /\ late' = {}
    BY <1>2 DEF Rollback, EndPhase, committed
  <2>2. TypeOK' /\ TodoOpen' /\ IdleSynced'
    BY <2>1 DEF IInv, TypeOK, TodoOpen, IdleSynced
  <2>3. BookIn(pos, log, intents, nextId)' /\ BookIn(wpos, wlog, wintents, nextId)'
    BY <2>1, Zenon DEF IInv
  <2> QED BY <2>2, <2>3 DEF IInv
<1> QED BY <1>1, <1>2

(* The writers of a transaction leave the committed tables alone. *)
LEMMA CommittedKept ==
    ASSUME IInv, UNCHANGED committed, NEW n \in Nat, nextId \in Nat, n >= nextId
    PROVE  BookIn(pos', log', intents', n)
<1>1. UNCHANGED <<pos, log, intents>>
  BY DEF committed
<1>2. FreshIn(pos, n)
  BY PidIsNat, SMT DEF IInv, BookIn, FreshIn
<1> QED BY <1>1, <1>2 DEF IInv, BookIn

LEMMA CloseKeepsIInv ==
    ASSUME IInv, NEW c \in Pid, Close(c)
    PROVE  IInv'
<1> DEFINE r == [kind |-> "close", pid |-> c, new |-> NoPid]
           i == NewIntent("close", wpos[c].pool, c, c)
<1>1. /\ UNCHANGED <<committed, phase, funded, plan, free, late, nextId, cycle>>
      /\ phase = "decide" /\ c \in todo /\ todo' = todo \ {c}
      /\ wpos' = Closed(wpos, c) /\ wlog' = wlog \cup {r} /\ Queue(i)
  BY DEF Close, Decided
<1>2. wpos \in [Pid -> Row] /\ wlog \in SUBSET LogEntry /\ wintents \in SUBSET Intent
      /\ nextId \in Nat /\ cycle \in Nat
  BY PaperBookAssumption, SMT DEF IInv, TypeOK, PaperBookAssumption
<1>3. wpos[c].status = "open"
  BY <1>1, SMT DEF IInv, TodoOpen, OpenIn
<1>4. r \in LogEntry /\ r.kind = "close" /\ r.pid = c /\ r.new = NoPid
  BY SMT DEF LogEntry
<1>5. wpos' \in [Pid -> Row] /\ wpos'[c].status = "closed"
      /\ BookIn(wpos', wlog', wintents, nextId)
  <2>1. BookIn(wpos, wlog, wintents, nextId)
    BY DEF IInv
  <2>2. r.kind \in {"close", "rebalance"}
    BY <1>4
  <2> HIDE DEF r
  <2> QED BY <1>1, <1>2, <1>3, <1>4, <2>1, <2>2, CloseStatement
<1>6. wpos'[c].pool = wpos[c].pool
  BY <1>1, <1>2, <1>3, ClosedFields, Zenon
<1>7. i \in Intent /\ i.kind = "close" /\ i.position = c /\ i.pool = wpos[c].pool
  <2>1. wpos[c].pool \in Pool
    BY <1>2, SMT DEF Row
  <2> QED BY <1>2, <2>1 DEF NewIntent, Intent
<1>8. \A j \in wintents : j.kind # "open" => j.position # c
  BY <1>2, <1>3, NoClosingIntent DEF IInv, BookIn
<1>9. wlog' \in SUBSET LogEntry /\ \E e \in wlog' : e.kind = "close" /\ e.pid = c
  BY <1>1, <1>2, <1>4
<1> HIDE DEF r, i
<1>10. wintents' \subseteq Intent /\ IntentsMatch(wpos', wlog', wintents')
  <2>1. TypeOK /\ IntentsMatch(wpos', wlog', wintents) /\ Queue(i)
    BY <1>1, <1>5 DEF IInv, BookIn
  <2>2. wpos'[i.position].status # "none" /\ wpos'[i.position].pool = i.pool
    BY <1>5, <1>6, <1>7
  <2>3. /\ i.kind # "open" /\ \E e \in wlog' : e.kind = i.kind /\ e.pid = i.position
        /\ \A j \in wintents : j.kind # "open" => j.position # i.position
    BY <1>7, <1>8, <1>9
  <2> QED BY <1>5, <1>7, <1>9, <2>1, <2>2, <2>3, QueueKeeps
<1>11. BookIn(wpos', wlog', wintents', nextId)
  BY <1>5, <1>10 DEF BookIn
<1>12. BookIn(pos', log', intents', nextId)
  BY <1>1, <1>2, CommittedKept, SMT
<1>13. TypeOK'
  BY <1>1, <1>5, <1>9, <1>10, SMT DEF IInv, TypeOK, committed
<1>14. TodoOpen'
  <2>1. \A p \in Pid : p # c => wpos'[p] = wpos[p]
    BY <1>1, <1>2, <1>3, ClosedFields, Zenon
  <2> QED BY <1>1, <2>1, SMT DEF IInv, TodoOpen, OpenIn
<1>15. IdleSynced'
  BY <1>1 DEF IdleSynced
<1> QED BY <1>1, <1>11, <1>12, <1>13, <1>14, <1>15, Zenon DEF IInv

LEMMA AddKeepsIInv ==
    ASSUME IInv, NEW c \in Pool, Add(c)
    PROVE  IInv'
<1> DEFINE r == [kind |-> "add", pid |-> NoPid, new |-> nextId]
           i == NewIntent("open", c, NoPid, nextId)
<1>1. PICK usd \in Sizes :
        /\ Affordable(usd) >= Floor
        /\ wpos' = [wpos EXCEPT ![nextId] = NewRow(c, Affordable(usd), NoPid, 0, TRUE)]
        /\ free' = free - (Affordable(usd) + Rent)
  BY DEF Add
<1>2. /\ UNCHANGED <<committed, phase, todo, funded, late, cycle>>
      /\ phase = "add" /\ free >= Floor + Rent
      /\ nextId \in Pid /\ nextId' = nextId + 1 /\ plan' = plan \ {c}
      /\ wlog' = wlog \cup {r} /\ Queue(i)
  BY DEF Add
<1>3. wpos \in [Pid -> Row] /\ wlog \in SUBSET LogEntry /\ wintents \in SUBSET Intent
      /\ nextId \in Nat /\ cycle \in Nat /\ free \in Nat
  BY PaperBookAssumption, SMT DEF IInv, TypeOK, PaperBookAssumption
<1>4. Affordable(usd) \in Nat /\ free' \in Nat
  <2>1. usd \in Nat /\ Floor \in Nat /\ Rent \in Nat
    BY PaperBookAssumption DEF PaperBookAssumption
  <2> QED BY <1>1, <1>2, <1>3, <2>1, SMT DEF Affordable
<1> DEFINE h == NewRow(c, Affordable(usd), NoPid, 0, TRUE)
<1>5. h \in Row /\ h.status = "open" /\ h.pool = c /\ h.parent = NoPid /\ h.gen = 0 /\ h.auto
  <2>1. 0 \in Nat /\ NoPid \in Pid \cup {NoPid} /\ TRUE \in BOOLEAN
    OBVIOUS
  <2>2. h \in Row
    BY <1>4, <2>1 DEF NewRow, Row
  <2>3. h.status = "open" /\ h.pool = c /\ h.parent = NoPid /\ h.gen = 0
    BY DEF NewRow
  <2>4. h.auto
    BY DEF NewRow
  <2> QED BY <2>2, <2>3, <2>4
<1>6. wpos' = [wpos EXCEPT ![nextId] = h]
  BY <1>1
<1>7. r \in LogEntry /\ r.kind = "add" /\ r.pid = NoPid /\ r.new = nextId
  BY <1>2, SMT DEF LogEntry
<1> HIDE DEF h, r
<1>8. wpos' \in [Pid -> Row] /\ wpos'[nextId] = h
      /\ BookIn(wpos', wlog', wintents, nextId + 1)
  <2>1. BookIn(wpos, wlog, wintents, nextId)
    BY DEF IInv
  <2> QED BY <1>2, <1>3, <1>5, <1>6, <1>7, <2>1, AddStatement
<1>9. i \in Intent /\ i.kind = "open" /\ i.position = nextId /\ i.pool = c
  BY <1>2, <1>3 DEF NewIntent, Intent
<1>10. wlog' \in SUBSET LogEntry /\ \E e \in wlog' : e.kind = "add" /\ e.new = nextId
  BY <1>2, <1>3, <1>7
<1> HIDE DEF i
<1>11. wintents' \subseteq Intent /\ IntentsMatch(wpos', wlog', wintents')
  <2>1. TypeOK /\ IntentsMatch(wpos', wlog', wintents) /\ Queue(i)
    BY <1>2, <1>8 DEF IInv, BookIn
  <2>2. wpos'[i.position].status # "none" /\ wpos'[i.position].pool = i.pool
    BY <1>5, <1>8, <1>9
  <2>3. i.kind = "open" /\ \E e \in wlog' : e.kind = "add" /\ e.new = i.position
    BY <1>9, <1>10
  <2> QED BY <1>8, <1>9, <1>10, <2>1, <2>2, <2>3, QueueKeeps
<1>12. BookIn(wpos', wlog', wintents', nextId')
  BY <1>2, <1>8, <1>11 DEF BookIn
<1>13. BookIn(pos', log', intents', nextId')
  BY <1>2, <1>3, CommittedKept, SMT
<1>14. TypeOK'
  <2>1. nextId' \in 1..(MaxPid + 1)
    BY <1>2, PaperBookAssumption, SMT DEF Pid, PaperBookAssumption
  <2> QED BY <1>2, <1>4, <1>8, <1>10, <1>11, <2>1, SMT DEF IInv, TypeOK, committed
<1>15. TodoOpen'
  <2>1. \A p \in Pid : p # nextId => wpos'[p] = wpos[p]
    BY <1>2, <1>3, <1>6
  <2>2. wpos'[nextId].status = "open"
    BY <1>5, <1>8
  <2> QED BY <1>2, <2>1, <2>2, SMT DEF IInv, TodoOpen, OpenIn
<1>16. IdleSynced'
  BY <1>2 DEF IdleSynced
<1> QED BY <1>12, <1>13, <1>14, <1>15, <1>16, Zenon DEF IInv

(* What both ways of re-centring end with: the intent, and the invariant.  *)
LEMMA RebalanceQueues ==
    ASSUME IInv, NEW c \in Pid, Rebalance(c),
           nextId' \in 1..(MaxPid + 1), nextId' >= nextId,
           wlog' \in SUBSET LogEntry,
           \E e \in wlog' : e.kind = "rebalance" /\ e.pid = c,
           wpos' \in [Pid -> Row], wpos'[c].status = "closed", wpos'[c].pool = wpos[c].pool,
           \A p \in todo \ {c} : wpos'[p].status = "open",
           BookIn(wpos', wlog', wintents, nextId')
    PROVE  IInv'
<1> DEFINE i == NewIntent("rebalance", wpos[c].pool, c, c)
<1>1. /\ UNCHANGED <<committed, phase, funded, plan, free, late, cycle>>
      /\ phase = "decide" /\ c \in todo /\ todo' = todo \ {c} /\ Queue(i)
  BY DEF Rebalance, Decided
<1>2. wpos \in [Pid -> Row] /\ wlog \in SUBSET LogEntry /\ wintents \in SUBSET Intent
      /\ nextId \in Nat /\ nextId' \in Nat /\ cycle \in Nat
  BY PaperBookAssumption, SMT DEF IInv, TypeOK, PaperBookAssumption
<1>3. wpos[c].status # "closed"
  BY <1>1, SMT DEF IInv, TodoOpen, OpenIn
<1>4. i \in Intent /\ i.kind = "rebalance" /\ i.position = c /\ i.pool = wpos[c].pool
  <2>1. wpos[c].pool \in Pool
    BY <1>2, SMT DEF Row
  <2> QED BY <1>2, <2>1 DEF NewIntent, Intent
<1>5. \A j \in wintents : j.kind # "open" => j.position # c
  BY <1>2, <1>3, NoClosingIntent DEF IInv, BookIn
<1> HIDE DEF i
<1>6. wintents' \subseteq Intent /\ IntentsMatch(wpos', wlog', wintents')
  <2>1. TypeOK /\ IntentsMatch(wpos', wlog', wintents) /\ Queue(i)
    BY <1>1 DEF IInv, BookIn
  <2>2. wpos'[i.position].status # "none" /\ wpos'[i.position].pool = i.pool
    BY <1>4
  <2>3. /\ i.kind # "open" /\ \E e \in wlog' : e.kind = i.kind /\ e.pid = i.position
        /\ \A j \in wintents : j.kind # "open" => j.position # i.position
    BY <1>4, <1>5
  <2> QED BY <1>4, <2>1, <2>2, <2>3, QueueKeeps
<1>7. BookIn(wpos', wlog', wintents', nextId')
  BY <1>6 DEF BookIn
<1>8. BookIn(pos', log', intents', nextId')
  BY <1>1, <1>2, CommittedKept, SMT
<1>9. TypeOK'
  BY <1>1, <1>6, SMT DEF IInv, TypeOK, committed
<1>10. TodoOpen'
  BY <1>1, SMT DEF IInv, TodoOpen, OpenIn
<1>11. IdleSynced'
  BY <1>1 DEF IdleSynced
<1> QED BY <1>7, <1>8, <1>9, <1>10, <1>11, Zenon DEF IInv

LEMMA RebalanceKeepsIInv ==
    ASSUME IInv, NEW c \in Pid, Rebalance(c)
    PROVE  IInv'
<1>1. /\ phase = "decide" /\ c \in todo
      /\ \E spent, worth \in BOOLEAN : Decide(wpos[c], spent, worth) = "rebalance"
  BY DEF Rebalance, Decided
<1>2. wpos \in [Pid -> Row] /\ wlog \in SUBSET LogEntry /\ wintents \in SUBSET Intent
      /\ nextId \in Nat /\ nextId \in 1..(MaxPid + 1)
  BY PaperBookAssumption, SMT DEF IInv, TypeOK, PaperBookAssumption
<1>3. wpos[c].status = "open" /\ wpos[c] \in Row
  BY <1>1, <1>2, SMT DEF IInv, TodoOpen, OpenIn
<1>4. wpos[c].gen < MaxGen
  <2>1. ~(wpos[c].gen >= MaxGen)
    BY <1>1, SMT DEF Decide
  <2>2. wpos[c].gen \in Nat
    BY <1>3, SMT DEF Row
  <2> QED BY <2>1, <2>2, PaperBookAssumption, SMT DEF PaperBookAssumption
<1>5. BookIn(wpos, wlog, wintents, nextId)
  BY DEF IInv
<1> DEFINE s == Closed(wpos, c)
<1>6. /\ s \in [Pid -> Row] /\ s[c].status = "closed"
      /\ \A p \in Pid : p # c => s[p] = wpos[p]
      /\ \A p \in Pid : /\ s[p].pool = wpos[p].pool /\ s[p].gen = wpos[p].gen
                        /\ s[p].parent = wpos[p].parent
      /\ AutoIn(s) = AutoIn(wpos)
  BY <1>2, <1>3, ClosedFields, Zenon
<1>7. todo \subseteq Pid /\ \A p \in todo \ {c} : s[p].status = "open"
  BY <1>6, SMT DEF IInv, TodoOpen, OpenIn
<1>8. CASE /\ wpos' = s
           /\ wlog' = wlog \cup {[kind |-> "rebalance", pid |-> c, new |-> NoPid]}
           /\ UNCHANGED nextId
  <2> DEFINE r == [kind |-> "rebalance", pid |-> c, new |-> NoPid]
  <2>1. r \in LogEntry /\ r.kind = "rebalance" /\ r.pid = c /\ r.new = NoPid
        /\ r.kind \in {"close", "rebalance"}
    BY SMT DEF LogEntry
  <2>2. wpos' = Closed(wpos, c) /\ wlog' = wlog \cup {r}
    BY <1>8
  <2> HIDE DEF r, s
  <2>3. wpos' \in [Pid -> Row] /\ wpos'[c].status = "closed"
        /\ BookIn(wpos', wlog', wintents, nextId)
    <3>1. wpos \in [Pid -> Row] /\ wlog \in SUBSET LogEntry /\ wintents \in SUBSET Intent
          /\ nextId \in Nat
      BY <1>2
    <3>2. wpos[c].status = "open"
      BY <1>3
    <3> QED BY ONLY <3>1, <3>2, <1>5, <2>1, <2>2, CloseStatement, c \in Pid
  <2>4. wlog' \in SUBSET LogEntry /\ \E e \in wlog' : e.kind = "rebalance" /\ e.pid = c
    BY <1>2, <2>1, <2>2
  <2>5. wpos'[c].pool = wpos[c].pool /\ \A p \in todo \ {c} : wpos'[p].status = "open"
    BY <1>6, <1>7, <1>8
  <2>6. nextId' \in 1..(MaxPid + 1) /\ nextId' >= nextId /\ nextId' = nextId
    BY <1>2, <1>8, SMT
  <2> QED BY <2>3, <2>4, <2>5, <2>6, RebalanceQueues
<1>9. ASSUME NEW redeploy \in Values, nextId \in Pid,
             wpos' = [s EXCEPT ![nextId] =
                        NewRow(wpos[c].pool, redeploy, c, wpos[c].gen + 1, TRUE)],
             wlog' = wlog \cup {[kind |-> "rebalance", pid |-> c, new |-> nextId]},
             nextId' = nextId + 1
      PROVE  IInv'
  <2> DEFINE r == [kind |-> "rebalance", pid |-> c, new |-> nextId]
             h == NewRow(wpos[c].pool, redeploy, c, wpos[c].gen + 1, TRUE)
  <2>1. r \in LogEntry /\ r.kind = "rebalance" /\ r.pid = c /\ r.new = nextId
    BY <1>9, SMT DEF LogEntry
  <2>2. h \in Row /\ h.status = "open" /\ h.pool = wpos[c].pool /\ h.parent = c
        /\ h.gen = wpos[c].gen + 1 /\ h.auto
    <3>1. redeploy \in Nat /\ wpos[c].pool \in Pool /\ wpos[c].gen + 1 \in Nat
      BY <1>3, PaperBookAssumption, SMT DEF Row, PaperBookAssumption
    <3>2. h \in Row
      BY <3>1 DEF NewRow, Row
    <3>3. h.status = "open" /\ h.pool = wpos[c].pool /\ h.parent = c
          /\ h.gen = wpos[c].gen + 1
      BY DEF NewRow
    <3>4. h.auto
      BY DEF NewRow
    <3> QED BY <3>2, <3>3, <3>4
  <2>3. wpos' = [s EXCEPT ![nextId] = h] /\ wlog' = wlog \cup {r}
    BY <1>9
  <2> HIDE DEF r, h, s
  <2>4. wpos' \in [Pid -> Row] /\ wpos'[c].status = "closed" /\ wpos'[c].pool = wpos[c].pool
        /\ BookIn(wpos', wlog', wintents, nextId + 1)
    <3>1. wpos \in [Pid -> Row] /\ wlog \in SUBSET LogEntry /\ wintents \in SUBSET Intent
          /\ nextId \in Pid
      BY <1>2, <1>9
    <3>2. wpos[c].status = "open"
      BY <1>3
    <3>3. s \in [Pid -> Row] /\ ClosedCopy(wpos, s, c)
      BY <1>6 DEF ClosedCopy
    <3>4. /\ wpos' \in [Pid -> Row] /\ wpos'[nextId] = h
          /\ \A p \in Pid : p # nextId => wpos'[p] = s[p]
      <4>1. h \in Row
        BY <2>2
      <4> QED BY <2>3, <3>1, <3>3, <4>1
    <3>5. HeirPut(wpos, s, wpos', nextId, c)
      BY <2>2, <3>4, Zenon DEF HeirPut
    <3>6. HeirEntry(r, nextId, c) /\ wlog' = wlog \cup {r}
      BY <2>1, <2>3 DEF HeirEntry
    <3>7. wpos \in [Pid -> Row]
      BY <3>1
    <3>8. wlog \in SUBSET LogEntry
      BY <3>1
    <3>9. wintents \in SUBSET Intent
      BY <3>1
    <3>10. nextId \in Pid
      BY <3>1
    <3>11. s \in [Pid -> Row]
      BY <3>3
    <3>12. ClosedCopy(wpos, s, c)
      BY <3>3
    <3>13. HeirEntry(r, nextId, c)
      BY <3>6
    <3>14. wpos'[c].status = "closed" /\ wpos'[c].pool = wpos[c].pool
           /\ BookIn(wpos', wlog \cup {r}, wintents, nextId + 1)
      BY ONLY <3>7, <3>8, <3>9, <3>10, <3>11, <3>12, <3>13, <3>2, <3>5, <1>4, <1>5,
              HeirStatement, c \in Pid, Zenon
    <3> QED BY <3>4, <3>6, <3>14
  <2>5. wlog' \in SUBSET LogEntry /\ \E e \in wlog' : e.kind = "rebalance" /\ e.pid = c
    BY <1>2, <2>1, <2>3
  <2>6. \A p \in todo \ {c} : wpos'[p].status = "open"
    <3>1. \A p \in Pid : p # nextId => wpos'[p] = s[p]
      BY <1>6, <2>3
    <3>2. wpos[nextId].status = "none"
      BY <1>5, <1>9, PidIsNat, SMT DEF BookIn, FreshIn
    <3>3. nextId \notin todo
      BY <3>2, SMT DEF IInv, TodoOpen, OpenIn
    <3> QED BY <1>7, <3>1, <3>3
  <2>7. nextId' \in 1..(MaxPid + 1) /\ nextId' >= nextId
    BY <1>9, PaperBookAssumption, SMT DEF Pid, PaperBookAssumption
  <2> QED BY <1>9, <2>4, <2>5, <2>6, <2>7, RebalanceQueues
<1> QED BY <1>8, <1>9 DEF Rebalance

-----------------------------------------------------------------------------
(* The theorems.                                                           *)

LEMMA NextIInv == IInv /\ [Next]_vars => IInv'
<1> SUFFICES ASSUME IInv, [Next]_vars PROVE IInv'
  OBVIOUS
<1>1. CASE NextCycle
  BY <1>1, ReadersKeepIInv
<1>2. ASSUME NEW c \in Pool, NEW usd \in Sizes, ManualOpen(c, usd) PROVE IInv'
  BY <1>2, ManualKeepsIInv
<1>3. CASE MarkBook
  BY <1>3, MarkKeepsIInv
<1>4. ASSUME NEW fund \in SUBSET Pool, Begin(fund) PROVE IInv'
  BY <1>4, ReadersKeepIInv
<1>5. ASSUME NEW p \in Pid, Hold(p) \/ Close(p) \/ Rebalance(p) PROVE IInv'
  BY <1>5, ReadersKeepIInv, CloseKeepsIInv, RebalanceKeepsIInv
<1>6. CASE SizeBook
  BY <1>6, SizeBookKeepsIInv
<1>7. ASSUME NEW c \in Pool, Skip(c) \/ Add(c) PROVE IInv'
  BY <1>7, ReadersKeepIInv, AddKeepsIInv
<1>8. CASE Commit \/ Rollback
  BY <1>8, EndsKeepIInv
<1>9. CASE UNCHANGED vars
  BY <1>9, Zenon DEF vars, committed, view, control, IInv, TypeOK, IdleSynced, TodoOpen
<1> QED BY <1>1, <1>2, <1>3, <1>4, <1>5, <1>6, <1>7, <1>8, <1>9 DEF Next

(* The inductive invariant over the committed tables and the transaction.  *)
THEOREM Invariance == Spec => []IInv
BY InitIInv, NextIInv, PTL DEF Spec

(* The tables, the session's view of them and its local variables have     *)
(* their types, for every number of pools and positions.                   *)
THEOREM TypeCorrect == Spec => []TypeOK
<1>1. IInv => TypeOK
  BY DEF IInv
<1> QED BY Invariance, <1>1, PTL

(* Chains of re-centred positions are well formed and bounded.             *)
THEOREM LineageCorrect == Spec => []Lineage
<1>1. IInv => Lineage
  BY DEF IInv, BookIn, Lineage
<1> QED BY Invariance, <1>1, PTL

(* The actions table explains every position opened or closed by the       *)
(* engine, exactly once.                                                   *)
THEOREM AuditCorrect == Spec => []AuditTrail
<1>1. IInv => AuditTrail
  BY DEF IInv, BookIn, AuditTrail
<1> QED BY Invariance, <1>1, PTL

(* Every intent the executor can see is a decision that was committed, and *)
(* no position is the subject of two closing intents.                      *)
THEOREM IntentsCorrect == Spec => []IntentsMatchBook
<1>1. IInv => IntentsMatchBook
  BY DEF IInv, BookIn, IntentsMatchBook
<1> QED BY Invariance, <1>1, PTL

-----------------------------------------------------------------------------
(* Additions and tokens held: until the book is sized nothing was added,   *)
(* and then neither what was added nor what the plan still has is in a     *)
(* token of what was there.                                                *)
Apart ==
    IF phase = "add"
    THEN /\ \A c \in plan, q \in Before : MintOf[c] # MintOf[wpos[q].pool]
         /\ AddsNewTokens
    ELSE Added = {}

AddedRow(p, r, public) ==
    r.status = "open" /\ r.auto /\ r.parent = NoPid /\ public.status = "none"

(* Who was added by the transaction, row by row.                           *)
LEMMA AddedIs ==
    /\ \A p : p \in Added <=> p \in Pid /\ AddedRow(p, wpos[p], pos[p])
    /\ \A p : p \in Added' <=> p \in Pid /\ AddedRow(p, wpos'[p], pos'[p])
BY Zenon DEF Added, OpenIn, AutoIn, AddedRow

(* Who was there when the book was sized, row by row.                      *)
LEMMA BeforeIs ==
    /\ \A p : p \in Before <=>
         p \in Pid /\ wpos[p].status = "open" /\ p \notin Added /\ p \notin late
    /\ \A p : p \in Before' <=>
         p \in Pid /\ wpos'[p].status = "open" /\ p \notin Added' /\ p \notin late'
BY Zenon DEF Before, OpenIn

(* The row of the next identity joins the tables: added, or opened by hand.*)
LEMMA SetsInsert ==
    ASSUME IInv, nextId \in Pid, NEW h,
           wpos'[nextId] = h, \A p \in Pid : p # nextId => wpos'[p] = wpos[p],
           \A p \in Pid : p # nextId => pos'[p] = pos[p],
           \/ /\ h.status = "open" /\ h.auto /\ h.parent = NoPid
              /\ pos'[nextId] = pos[nextId] /\ late' = late
           \/ ~h.auto /\ late' = late \cup {nextId}
    PROVE  /\ Added' = IF h.auto THEN Added \cup {nextId} ELSE Added
           /\ Before' = Before
           /\ nextId \notin Added /\ nextId \notin Before
<1>1. wpos[nextId].status = "none" /\ pos[nextId].status = "none"
  BY PidIsNat, SMT DEF IInv, BookIn, FreshIn
<1>2. \A p : p # nextId => (p \in Added' <=> p \in Added)
  BY AddedIs
<1>3. nextId \notin Added /\ nextId \notin Before
  BY <1>1, AddedIs, BeforeIs DEF AddedRow
<1>4. CASE ~h.auto /\ late' = late \cup {nextId}
  <2>1. nextId \notin Added' /\ nextId \notin Before'
    BY <1>4, AddedIs, BeforeIs DEF AddedRow
  <2>2. Added' = Added
    BY <1>2, <1>3, <2>1
  <2>3. \A p : p \in Before' <=> p \in Before
    BY <1>3, <1>4, <2>1, <2>2, BeforeIs
  <2>4. Before' = Before
    BY <2>3
  <2> QED BY <1>3, <1>4, <2>2, <2>4
<1>5. CASE /\ h.status = "open" /\ h.auto /\ h.parent = NoPid
           /\ pos'[nextId] = pos[nextId] /\ late' = late
  <2>1. nextId \in Added' /\ nextId \notin Before'
    BY <1>1, <1>5, AddedIs, BeforeIs DEF AddedRow
  <2>2. Added' = Added \cup {nextId}
    BY <1>2, <2>1
  <2>3. \A p : p \in Before' <=> p \in Before
    BY <1>3, <1>5, <2>1, <2>2, BeforeIs
  <2>4. Before' = Before
    BY <2>3
  <2> QED BY <1>3, <1>5, <2>2, <2>4
<1> QED BY <1>4, <1>5

(* A new row joins a token that nobody held when the book was sized.       *)
LEMMA ApartInsert ==
    ASSUME IInv, Apart, nextId \in Pid, NEW h,
           wpos'[nextId] = h, \A p \in Pid : p # nextId => wpos'[p] = wpos[p],
           \A p \in Pid : p # nextId => pos'[p] = pos[p],
           phase' = phase, plan' \subseteq plan,
           \/ /\ phase = "add" /\ h.status = "open" /\ h.auto /\ h.parent = NoPid
              /\ pos'[nextId] = pos[nextId] /\ late' = late /\ h.pool \in plan
           \/ ~h.auto /\ (phase = "add" => late' = late \cup {nextId})
    PROVE  Apart'
<1>1. CASE phase # "add"
  <2>1. \A p : p # nextId => (p \in Added' <=> p \in Added)
    BY AddedIs
  <2>2. nextId \notin Added'
    BY <1>1, AddedIs DEF AddedRow
  <2> QED BY <1>1, <2>1, <2>2 DEF Apart
<1>2. CASE phase = "add"
  <2>1. /\ Added' = IF h.auto THEN Added \cup {nextId} ELSE Added
        /\ Before' = Before
        /\ nextId \notin Added /\ nextId \notin Before
    BY <1>2, SetsInsert
  <2>2. /\ \A p \in Added : wpos'[p] = wpos[p]
        /\ \A q \in Before : wpos'[q] = wpos[q]
    BY <2>1, AddedIs, BeforeIs
  <2>3. ASSUME NEW p \in Added', NEW q \in Before'
        PROVE  MintOf[wpos'[p].pool] # MintOf[wpos'[q].pool]
    <3>1. CASE p = nextId
      BY <1>2, <2>1, <2>2, <3>1 DEF Apart
    <3>2. CASE p # nextId
      BY <1>2, <2>1, <2>2, <3>2 DEF Apart, AddsNewTokens
    <3> QED BY <3>1, <3>2
  <2>4. \A c \in plan', q \in Before' : MintOf[c] # MintOf[wpos'[q].pool]
    BY <1>2, <2>1, <2>2 DEF Apart
  <2> QED BY <1>2, <2>3, <2>4 DEF Apart, AddsNewTokens
<1> QED BY <1>1, <1>2

(* Deciding adds nothing: an heir has a parent. *)
LEMMA ApartDecide ==
    ASSUME IInv, Apart, NEW p \in Pid, Close(p) \/ Rebalance(p)
    PROVE  Apart'
<1>1. phase = "decide" /\ phase' = "decide" /\ pos' = pos /\ p \in todo
  BY DEF Close, Rebalance, Decided, committed
<1>2. wpos \in [Pid -> Row] /\ wpos[p].status = "open"
  BY <1>1 DEF IInv, TypeOK, TodoOpen, OpenIn
<1> DEFINE c == Closed(wpos, p)
<1>3. c \in [Pid -> Row] /\ c[p].status = "closed" /\ \A q \in Pid : q # p => c[q] = wpos[q]
  BY <1>2, ClosedFields
<1> HIDE DEF c
<1>4. wpos' = c \/ \E n \in Pid, v \in Values : wpos' = [c EXCEPT ![n] = NewRow(wpos[p].pool, v, p, wpos[p].gen + 1, TRUE)]
  BY DEF Close, Rebalance, c
<1>5. ASSUME NEW q \in Added' PROVE FALSE
  <2>1. q \in Pid /\ AddedRow(q, wpos'[q], pos[q])
    BY <1>1, AddedIs
  <2>2. CASE wpos'[q] = c[q]
    <3>1. q # p /\ wpos'[q] = wpos[q]
      BY <1>3, <2>1, <2>2 DEF AddedRow
    <3>2. q \in Added
      BY <2>1, <3>1, AddedIs
    <3> QED BY <1>1, <3>2 DEF Apart
  <2>3. CASE wpos'[q] # c[q]
    <3>1. PICK n \in Pid, v \in Values : wpos' = [c EXCEPT ![n] = NewRow(wpos[p].pool, v, p, wpos[p].gen + 1, TRUE)]
      BY <1>4, <2>3
    <3>2. q = n
      BY <1>3, <2>1, <2>3, <3>1
    <3>3. wpos'[q].parent = p
      BY <1>3, <3>1, <3>2 DEF NewRow
    <3> QED BY <2>1, <3>3, PidIsNat DEF AddedRow
  <2> QED BY <2>2, <2>3
<1> QED BY <1>1, <1>5 DEF Apart

(* The plan is made over the tokens that are not held. *)
LEMMA ApartSized ==
    ASSUME IInv, Apart, SizeBook
    PROVE  Apart'
<1>1. phase = "decide" /\ phase' = "add" /\ pos' = pos /\ wpos' = wpos /\ plan' \in Plans
  BY DEF SizeBook, committed, view
<1>2. Added' = {}
  <2>1. Added' = Added
    BY <1>1 DEF Added
  <2> QED BY <1>1, <2>1 DEF Apart
<1>3. ASSUME NEW c \in plan', NEW q \in Before' PROVE MintOf[c] # MintOf[wpos'[q].pool]
  <2>1. c \in Candidates
    BY <1>1 DEF Plans
  <2>2. q \in OpenIn(wpos)
    BY <1>1, BeforeIs DEF OpenIn
  <2>3. MintOf[c] \notin {MintOf[wpos[r].pool] : r \in OpenIn(wpos)}
    BY <2>1 DEF Candidates, HeldMints
  <2> QED BY <1>1, <2>2, <2>3
<1> QED BY <1>1, <1>2, <1>3 DEF Apart, AddsNewTokens

(* Steps that leave the tables and the phase alone keep tokens apart.      *)
LEMMA ApartKept ==
    ASSUME IInv, Apart, pos' = pos, wpos' = wpos, late' = late, plan' \subseteq plan,
           phase' = "add" <=> phase = "add"
    PROVE  Apart'
<1>1. Added' = Added /\ Before' = Before
  BY DEF Added, Before
<1> QED BY <1>1 DEF Apart, AddsNewTokens

(* What is committed was not added by this transaction. *)
LEMMA ApartEnd ==
    ASSUME wpos' = pos', phase' # "add"
    PROVE  Apart'
<1>1. \A p : p \notin Added'
  BY AddedIs DEF AddedRow
<1> QED BY <1>1 DEF Apart

LEMMA ApartNext == IInv /\ Apart /\ [Next]_vars => Apart'
<1> SUFFICES ASSUME IInv, Apart, [Next]_vars PROVE Apart'
  OBVIOUS
<1>1. CASE NextCycle
  BY <1>1, ApartKept DEF NextCycle, committed, view, control
<1>2. ASSUME NEW c \in Pool, NEW usd \in Sizes, ManualOpen(c, usd) PROVE Apart'
  <2> DEFINE h == NewRow(c, usd, NoPid, 0, FALSE)
  <2>1. /\ nextId \in Pid /\ phase' = phase /\ plan' = plan
        /\ pos' = [pos EXCEPT ![nextId] = h] /\ wpos' = [wpos EXCEPT ![nextId] = h]
        /\ phase = "add" => late' = late \cup {nextId}
    BY <1>2 DEF ManualOpen
  <2>2. ~h.auto
    BY DEF NewRow
  <2> HIDE DEF h
  <2>3. /\ wpos'[nextId] = h /\ \A p \in Pid : p # nextId => wpos'[p] = wpos[p]
        /\ \A p \in Pid : p # nextId => pos'[p] = pos[p]
    BY <2>1 DEF IInv, TypeOK
  <2> QED BY <2>1, <2>2, <2>3, ApartInsert
<1>3. CASE MarkBook
  BY <1>3, ApartEnd DEF MarkBook, control
<1>4. ASSUME NEW fund \in SUBSET Pool, Begin(fund) PROVE Apart'
  BY <1>4, ApartKept DEF Begin, committed, view
<1>5. ASSUME NEW p \in Pid, Hold(p) PROVE Apart'
  BY <1>5, ApartKept DEF Hold, Decided, committed, view
<1>6. ASSUME NEW p \in Pid, Close(p) \/ Rebalance(p) PROVE Apart'
  BY <1>6, ApartDecide
<1>7. CASE SizeBook
  BY <1>7, ApartSized
<1>8. ASSUME NEW c \in Pool, Skip(c) PROVE Apart'
  <2>1. pos' = pos /\ wpos' = wpos /\ late' = late /\ plan' \subseteq plan /\ phase' = phase
    BY <1>8 DEF Skip, committed, view
  <2>2. phase' = "add" <=> phase = "add"
    BY <2>1
  <2> QED BY <2>1, <2>2, ApartKept
<1>9. ASSUME NEW c \in Pool, Add(c) PROVE Apart'
  <2>1. PICK usd \in Sizes : wpos' = [wpos EXCEPT ![nextId] = NewRow(c, Affordable(usd), NoPid, 0, TRUE)]
    BY <1>9 DEF Add
  <2> DEFINE h == NewRow(c, Affordable(usd), NoPid, 0, TRUE)
  <2>2. /\ nextId \in Pid /\ phase = "add" /\ phase' = phase /\ c \in plan /\ plan' \subseteq plan
        /\ pos' = pos /\ late' = late
    BY <1>9 DEF Add, committed
  <2>3. h.status = "open" /\ h.auto /\ h.parent = NoPid /\ h.pool = c
    BY DEF NewRow
  <2>4. wpos' = [wpos EXCEPT ![nextId] = h]
    BY <2>1
  <2> HIDE DEF h
  <2>5. wpos'[nextId] = h /\ \A p \in Pid : p # nextId => wpos'[p] = wpos[p]
    BY <2>2, <2>4 DEF IInv, TypeOK
  <2> QED BY <2>2, <2>3, <2>5, ApartInsert
<1>10. CASE Commit \/ Rollback
  BY <1>10, ApartEnd DEF Commit, Rollback, EndPhase, view, committed
<1>11. CASE UNCHANGED vars
  <2>1. pos' = pos /\ wpos' = wpos /\ late' = late /\ plan' \subseteq plan /\ phase' = phase
    BY <1>11 DEF vars, committed, view, control
  <2>2. phase' = "add" <=> phase = "add"
    BY <2>1
  <2> QED BY <2>1, <2>2, ApartKept
<1> QED BY <1>1, <1>2, <1>3, <1>4, <1>5, <1>6, <1>7, <1>8, <1>9, <1>10, <1>11 DEF Next

(* What is added and what is planned is in a token that was not held.      *)
LEMMA ApartCorrect == Spec => []Apart
<1>1. Init => Apart
  <2> SUFFICES ASSUME Init PROVE \A p : p \notin Added
    BY DEF Init, Apart
  <2> QED BY AddedIs DEF Init, AddedRow, Absent
<1> QED BY Invariance, ApartNext, <1>1, PTL DEF Spec

(* No position is added in a token that was held when the book was sized,  *)
(* the heirs of the same transaction included.                             *)
THEOREM TokenCorrect == Spec => []AddsNewTokens
<1>1. Apart => AddsNewTokens
  BY DEF Apart, AddsNewTokens
<1> QED BY ApartCorrect, <1>1, PTL

-----------------------------------------------------------------------------
(***************************************************************************)
(* The budget.  While positions are added, what they and their elders bind *)
(* and what is still free fit the budget together, unless nothing was ever *)
(* free and nothing is added.                                              *)
(***************************************************************************)
Money == [p \in Pid |-> wpos[p].capital + Rent]

Fits ==
    phase = "add" => \/ Committed(Added \cup Before) + free <= Budget
                     \/ Added = {} /\ free = 0

(* The positions whose money counts are finitely many.                     *)
LEMMA AddersFinite ==
    /\ IsFiniteSet(OpenIn(wpos))
    /\ Added \subseteq OpenIn(wpos) /\ Before \subseteq OpenIn(wpos)
    /\ IsFiniteSet(Added \cup Before) /\ OpenIn(wpos) \subseteq Pid
<1>1. IsFiniteSet(Pid)
  BY PaperBookAssumption, FS_Interval, SMT DEF Pid, PaperBookAssumption
<1>2. OpenIn(wpos) \in SUBSET Pid
  BY DEF OpenIn
<1>3. Added \in SUBSET OpenIn(wpos) /\ Before \in SUBSET OpenIn(wpos)
  BY DEF Added, Before
<1>4. IsFiniteSet(OpenIn(wpos))
  BY <1>1, <1>2, FS_Subset
<1>5. Added \cup Before \in SUBSET OpenIn(wpos)
  BY <1>3
<1> QED BY <1>2, <1>3, <1>4, <1>5, FS_Subset

(* No position holds a negative amount.                                    *)
LEMMA MoneyType == IInv => \A p \in Pid : Money[p] \in Nat /\ wpos[p].capital \in Nat
<1> SUFFICES ASSUME IInv, NEW p \in Pid PROVE Money[p] \in Nat /\ wpos[p].capital \in Nat
  OBVIOUS
<1>1. wpos[p].capital \in Nat /\ Rent \in Nat
  BY PaperBookAssumption DEF IInv, TypeOK, Row, PaperBookAssumption
<1> QED BY <1>1 DEF Money

(* What is committed is the sum over the positions and the gas.            *)
LEMMA CommittedIs ==
    ASSUME IInv
    PROVE  /\ Committed(Added \cup Before) = SumFunctionOnSet(Money, Added \cup Before) + GasBuffer
           /\ SumFunctionOnSet(Money, Added \cup Before) \in Nat
<1>1. \A p \in Added \cup Before : Money[p] \in Nat
  BY MoneyType, AddersFinite
<1>2. SumFunctionOnSet(Money, Added \cup Before) \in Nat
  BY <1>1, AddersFinite, SumNat
<1> QED BY <1>2 DEF Committed, Money

(* What is free was not bound by anything that was open. *)
LEMMA FitsSized ==
    ASSUME IInv, Apart, SizeBook
    PROVE  Fits'
<1>1. /\ phase = "decide" /\ pos' = pos /\ wpos' = wpos /\ late' = late
      /\ free' = FreeCapital /\ Deployed(wpos) \in Int
  BY PaperBookAssumption, SMT DEF SizeBook, committed, view, PaperBookAssumption
<1>2. Added' = Added /\ Before' = Before /\ Added = {}
  BY <1>1 DEF Added, Before, Apart
<1>3. Committed(Added \cup Before)' = Committed(Added \cup Before)
  BY <1>1, <1>2 DEF Committed
<1> DEFINE O == OpenIn(wpos)
           C == [p \in Pid |-> wpos[p].capital]
           B == SumFunctionOnSet(Money, Added \cup Before)
           k == Cardinality(O)
<1>4. IsFiniteSet(O) /\ O \subseteq Pid /\ Added \cup Before \subseteq O
  BY AddersFinite
<1>5. \A p \in O : C[p] \in Int /\ Money[p] \in Nat /\ Money[p] = C[p] + Rent
  BY <1>4, MoneyType DEF Money
<1>6. Rent \in Nat /\ GasBuffer \in Nat /\ Budget \in Nat
  BY PaperBookAssumption DEF PaperBookAssumption
<1>7. k \in Nat
  BY <1>4, FS_CardinalityType
<1>8. SumFunctionOnSet(Money, O) = Deployed(wpos) + k * Rent
  <2>1. Deployed(wpos) = SumFunctionOnSet(C, O)
    BY DEF Deployed
  <2> HIDE DEF C, O
  <2>2. SumFunctionOnSet(Money, O) = SumFunctionOnSet(C, O) + Cardinality(O) * Rent
    BY <1>4, <1>5, <1>6, SumShift
  <2> QED BY <2>1, <2>2
<1>9. B <= SumFunctionOnSet(Money, O)
  <2> DEFINE S == Added \cup Before
  <2> HIDE DEF O
  <2>1. S \in SUBSET O
    BY <1>4
  <2> HIDE DEF S
  <2>3. \A p \in S : Money[p] \in Int /\ Money[p] <= Money[p]
    <3> SUFFICES ASSUME NEW p \in S PROVE Money[p] \in Int /\ Money[p] <= Money[p]
      OBVIOUS
    <3>1. Money[p] \in Nat
      BY <1>5, <2>1
    <3> QED BY <3>1
  <2>2. SumFunctionOnSet(Money, S) <= SumFunctionOnSet(Money, O)
    BY <1>4, <1>5, <2>1, <2>3, SumMonotone
  <2> QED BY <2>2 DEF S
<1>10. B \in Nat /\ Committed(Added \cup Before) = B + GasBuffer
  BY CommittedIs
<1> DEFINE used   == Deployed(wpos)
           locked == k * Rent
<1>11. free' = MaxOf(0, Budget - used - GasBuffer - locked)
  BY <1>1 DEF FreeCapital
<1>12. used \in Int /\ locked \in Nat
  <2> HIDE DEF k
  <2> QED BY <1>1, <1>6, <1>7
<1> HIDE DEF O, B, k, used, locked
<1>13. SumFunctionOnSet(Money, O) = used + locked
  BY <1>8 DEF used, locked
<1>14. Committed(Added \cup Before) + free' <= Budget \/ free' = 0
  BY <1>6, <1>9, <1>10, <1>11, <1>12, <1>13 DEF MaxOf
<1> QED BY <1>2, <1>3, <1>14 DEF Fits

(* An addition binds what it takes from what is free. *)
LEMMA FitsAdd ==
    ASSUME IInv, IInv', Fits, NEW c \in Pool, Add(c)
    PROVE  Fits'
<1>1. PICK usd \in Sizes :
        /\ Affordable(usd) >= Floor
        /\ wpos' = [wpos EXCEPT ![nextId] = NewRow(c, Affordable(usd), NoPid, 0, TRUE)]
        /\ free' = free - (Affordable(usd) + Rent)
  BY DEF Add
<1> DEFINE a == Affordable(usd)
           h == NewRow(c, a, NoPid, 0, TRUE)
           S == Added \cup Before
           N == Money'
<1>2. /\ nextId \in Pid /\ phase = "add" /\ phase' = phase
      /\ pos' = pos /\ late' = late /\ free >= Floor + Rent
  BY DEF Add, committed
<1>3. free \in Nat /\ Rent \in Nat /\ Rent > 0 /\ Floor \in Nat /\ GasBuffer \in Nat /\ Budget \in Nat
  BY PaperBookAssumption, SMT DEF IInv, TypeOK, PaperBookAssumption
<1>4. a \in Nat
  <2>1. usd \in Nat
    BY PaperBookAssumption DEF PaperBookAssumption
  <2> QED BY <1>1, <1>2, <1>3, <2>1 DEF Affordable
<1>5. h.status = "open" /\ h.auto /\ h.parent = NoPid /\ h.capital = a
  BY DEF NewRow
<1>6. wpos' = [wpos EXCEPT ![nextId] = h] /\ free' = free - (a + Rent)
  BY <1>1
<1> HIDE DEF h, a
<1>7. wpos'[nextId] = h /\ \A p \in Pid : p # nextId => wpos'[p] = wpos[p]
  BY <1>2, <1>6 DEF IInv, TypeOK
<1>8. Added' = Added \cup {nextId} /\ Before' = Before /\ nextId \notin S
  BY <1>2, <1>5, <1>7, SetsInsert
<1>9. (Added \cup Before)' = S \cup {nextId}
  BY <1>8
<1>10. IsFiniteSet(S) /\ S \subseteq Pid
  BY AddersFinite
<1>11. \A p \in S : Money[p] \in Nat /\ N[p] = Money[p]
  BY <1>7, <1>8, <1>10, MoneyType DEF Money
<1>12. N[nextId] = a + Rent
  BY <1>2, <1>5, <1>7 DEF Money
<1> HIDE DEF S, N
<1>13. SumFunctionOnSet(N, S \cup {nextId}) = N[nextId] + SumFunctionOnSet(N, S)
  BY <1>3, <1>4, <1>8, <1>10, <1>11, <1>12, SumAdd
<1>14. SumFunctionOnSet(N, S) = SumFunctionOnSet(Money, S)
  BY <1>10, <1>11, SumSame
<1>15. /\ Committed(Added \cup Before) = SumFunctionOnSet(Money, S) + GasBuffer
       /\ SumFunctionOnSet(Money, S) \in Nat
  BY CommittedIs DEF S
<1>16. Committed(Added \cup Before)' = SumFunctionOnSet(N, S \cup {nextId}) + GasBuffer
  <2>1. Committed(Added \cup Before)' = SumFunctionOnSet(N, (Added \cup Before)') + GasBuffer
    BY DEF Committed, Money, N
  <2> QED BY <1>9, <2>1
<1>17. Committed(Added \cup Before) + free <= Budget
  BY <1>2, <1>3 DEF Fits
<1>18. Committed(Added \cup Before)' + free' <= Budget
  BY <1>3, <1>4, <1>6, <1>12, <1>13, <1>14, <1>15, <1>16, <1>17
<1> QED BY <1>18 DEF Fits

(* Nothing that is counted changes. *)
LEMMA FitsKept ==
    ASSUME IInv, Fits, phase' = phase, free' = free,
           phase = "add" => /\ Added' = Added /\ Before' = Before
                            /\ \A p \in Added \cup Before : wpos'[p] = wpos[p]
    PROVE  Fits'
<1> SUFFICES ASSUME phase = "add" PROVE Fits'
  BY DEF Fits
<1> DEFINE N == Money'
           S == Added \cup Before
<1>1. \A p \in S : Money[p] \in Nat /\ N[p] = Money[p]
  <2>1. S \subseteq Pid
    BY AddersFinite
  <2> QED BY <2>1, MoneyType DEF Money
<1>2. IsFiniteSet(S) /\ (Added \cup Before)' = S
  BY AddersFinite
<1>3. Committed(Added \cup Before)' = SumFunctionOnSet(N, S) + GasBuffer
  <2>1. Committed(Added \cup Before)' = SumFunctionOnSet(N, (Added \cup Before)') + GasBuffer
    BY DEF Committed, Money
  <2> QED BY <1>2, <2>1
<1> HIDE DEF N
<1>4. SumFunctionOnSet(N, S) = SumFunctionOnSet(Money, S)
  <2> HIDE DEF S
  <2> QED BY <1>1, <1>2, SumSame
<1>5. Committed(Added \cup Before)' = Committed(Added \cup Before)
  BY <1>3, <1>4, CommittedIs
<1> QED BY <1>5 DEF Fits

(* Every step keeps what is committed and what is free within the budget.  *)
LEMMA FitsNext == IInv /\ IInv' /\ Apart /\ Fits /\ [Next]_vars => Fits'
<1> SUFFICES ASSUME IInv, IInv', Apart, Fits, [Next]_vars PROVE Fits'
  OBVIOUS
<1>1. CASE NextCycle \/ UNCHANGED vars \/ \E c \in Pool : Skip(c)
  <2>1. UNCHANGED <<pos, wpos, late, phase, free>>
    BY <1>1 DEF NextCycle, Skip, vars, committed, view, control
  <2>2. Added' = Added /\ Before' = Before
    BY <2>1 DEF Added, Before
  <2> QED BY <2>1, <2>2, FitsKept
<1>2. ASSUME NEW c \in Pool, NEW usd \in Sizes, ManualOpen(c, usd) PROVE Fits'
  <2> DEFINE h == NewRow(c, usd, NoPid, 0, FALSE)
  <2>1. /\ nextId \in Pid /\ phase' = phase /\ free' = free
        /\ pos' = [pos EXCEPT ![nextId] = h] /\ wpos' = [wpos EXCEPT ![nextId] = h]
        /\ phase = "add" => late' = late \cup {nextId}
    BY <1>2 DEF ManualOpen
  <2>2. ~h.auto
    BY DEF NewRow
  <2> HIDE DEF h
  <2>3. /\ wpos'[nextId] = h /\ \A p \in Pid : p # nextId => wpos'[p] = wpos[p]
        /\ \A p \in Pid : p # nextId => pos'[p] = pos[p]
    BY <2>1 DEF IInv, TypeOK
  <2>4. ASSUME phase = "add"
        PROVE  /\ Added' = Added /\ Before' = Before
               /\ \A p \in Added \cup Before : wpos'[p] = wpos[p]
    <3>1. Added' = Added /\ Before' = Before /\ nextId \notin Added \cup Before
      BY <2>1, <2>2, <2>3, <2>4, SetsInsert
    <3> QED BY <2>3, <3>1, AddedIs, BeforeIs
  <2> QED BY <2>1, <2>4, FitsKept
<1>3. CASE MarkBook \/ \E fund \in SUBSET Pool : Begin(fund)
  BY <1>3 DEF MarkBook, Begin, control, Fits
<1>4. CASE \E p \in Pid : Hold(p) \/ Close(p) \/ Rebalance(p)
  BY <1>4 DEF Hold, Close, Rebalance, Decided, Fits
<1>5. CASE SizeBook
  BY <1>5, FitsSized
<1>6. ASSUME NEW c \in Pool, Add(c) PROVE Fits'
  BY <1>6, FitsAdd
<1>7. CASE Commit \/ Rollback
  BY <1>7 DEF Commit, Rollback, EndPhase, Fits
<1> QED BY <1>1, <1>2, <1>3, <1>4, <1>5, <1>6, <1>7 DEF Next

(* With what was opened by hand meanwhile left aside, a book that was      *)
(* added to fits the budget, rent and gas buffer included.                 *)
THEOREM BudgetCorrect == Spec => []AddsFitBudget
<1>1. Init => Fits
  BY DEF Init, Fits
<1>2. IInv /\ Fits => AddsFitBudget
  <2> SUFFICES ASSUME IInv, Fits, phase = "add", Added # {}
               PROVE  Committed(Added \cup Before) <= Budget
    BY DEF AddsFitBudget
  <2>1. Committed(Added \cup Before) \in Int /\ free \in Nat /\ Budget \in Nat
    BY CommittedIs, PaperBookAssumption DEF IInv, TypeOK, PaperBookAssumption
  <2> QED BY <2>1 DEF Fits
<1> QED BY Invariance, ApartCorrect, FitsNext, <1>1, <1>2, PTL DEF Spec

-----------------------------------------------------------------------------
(* The journal: what the entries of an open transaction say is what its    *)
(* view of the book differs by from the committed one.                     *)

EndsRow(r, r2) == r.status = "open" /\ r2 = [r EXCEPT !.status = "closed"]

BeginsRow(r, r2) == r.status = "none" /\ r2.status = "open" /\ r2.auto

FounderRow(r) == r.parent = NoPid /\ r.gen = 0

HeirRow(q, r, i) ==
    r.parent = i /\ r.pool = q.pool /\ r.gen = q.gen + 1 /\ r.gen <= MaxGen

DoneIn(s, t, e) ==
    \/ e.kind = "close" /\ e.pid \in Pid /\ e.new = NoPid /\ EndsRow(s[e.pid], t[e.pid])
    \/ /\ e.kind = "rebalance" /\ e.pid \in Pid /\ EndsRow(s[e.pid], t[e.pid])
       /\ e.new = NoPid \/ /\ e.new \in Pid /\ BeginsRow(s[e.new], t[e.new])
                           /\ HeirRow(s[e.pid], t[e.new], e.pid)
    \/ /\ e.kind = "add" /\ e.pid = NoPid /\ e.new \in Pid
       /\ BeginsRow(s[e.new], t[e.new]) /\ FounderRow(t[e.new])

Told(s, entries, t) ==
    /\ \A e \in entries : DoneIn(s, t, e)
    /\ \A p \in Pid : (\A e \in entries : p \notin {e.pid, e.new}) => t[p] = s[p]

(* Where an entry leaves the rows it names.                                *)
LEMMA DoneRows ==
    ASSUME NEW s \in [Pid -> Row], NEW t, NEW e, DoneIn(s, t, e)
    PROVE  /\ e.pid \in Pid \cup {NoPid} /\ e.new \in Pid \cup {NoPid}
           /\ e.pid # NoPid => s[e.pid].status = "open" /\ t[e.pid].status = "closed"
           /\ e.new # NoPid => s[e.new].status = "none" /\ t[e.new].status = "open"
<1>1. e.pid \in Pid \cup {NoPid} /\ e.new \in Pid \cup {NoPid}
  BY Zenon DEF DoneIn
<1>2. ASSUME e.pid # NoPid PROVE s[e.pid].status = "open" /\ t[e.pid].status = "closed"
  <2>1. EndsRow(s[e.pid], t[e.pid]) /\ s[e.pid] \in Row
    BY <1>1, <1>2, Zenon DEF DoneIn
  <2> QED BY <2>1 DEF EndsRow, Row
<1>3. ASSUME e.new # NoPid PROVE s[e.new].status = "none" /\ t[e.new].status = "open"
  BY <1>3, Zenon DEF DoneIn, BeginsRow
<1> QED BY <1>1, <1>2, <1>3

(* One more statement, about rows no statement was about, and its entry.   *)
LEMMA TellMore ==
    ASSUME NEW s \in [Pid -> Row], NEW t, NEW es, Told(s, es, t),
           NEW r, r.pid \in Pid \cup {NoPid}, r.new \in Pid \cup {NoPid},
           NEW u, \A p \in Pid : p \notin {r.pid, r.new} => u[p] = t[p],
           r.pid # NoPid => s[r.pid].status = "open" /\ EndsRow(t[r.pid], u[r.pid]),
           r.new # NoPid => s[r.new].status = "none" /\ BeginsRow(t[r.new], u[r.new]),
           \/ r.kind = "close" /\ r.pid # NoPid /\ r.new = NoPid
           \/ /\ r.kind = "rebalance" /\ r.pid # NoPid
              /\ r.new = NoPid \/ HeirRow(t[r.pid], u[r.new], r.pid)
           \/ r.kind = "add" /\ r.pid = NoPid /\ r.new # NoPid /\ FounderRow(u[r.new])
    PROVE  Told(s, es \cup {r}, u)
<1>1. \A e \in es : DoneIn(s, t, e)
  BY Zenon DEF Told
<1>2. ASSUME NEW e \in es, NEW p \in {e.pid, e.new}, p # NoPid
      PROVE  p \in Pid /\ p \notin {r.pid, r.new}
  <2>1. /\ e.pid \in Pid \cup {NoPid} /\ e.new \in Pid \cup {NoPid}
        /\ e.pid # NoPid => s[e.pid].status = "open" /\ t[e.pid].status = "closed"
        /\ e.new # NoPid => s[e.new].status = "none" /\ t[e.new].status = "open"
    BY <1>1, DoneRows, Zenon
  <2>2. p \in Pid
    BY <1>2, <2>1
  <2>3. p # r.pid
    <3> SUFFICES ASSUME p = r.pid PROVE FALSE
      OBVIOUS
    <3>1. s[p].status = "open" /\ t[p].status = "open"
      BY <1>2, Zenon DEF EndsRow
    <3> QED BY <1>2, <2>1, <3>1
  <2>4. p # r.new
    <3> SUFFICES ASSUME p = r.new PROVE FALSE
      OBVIOUS
    <3>1. s[p].status = "none" /\ t[p].status = "none"
      BY <1>2, Zenon DEF BeginsRow
    <3> QED BY <1>2, <2>1, <3>1
  <2> QED BY <2>2, <2>3, <2>4
<1>3. ASSUME NEW e \in es PROVE DoneIn(s, u, e)
  <2>1. (e.pid # NoPid => u[e.pid] = t[e.pid]) /\ (e.new # NoPid => u[e.new] = t[e.new])
    BY <1>2
  <2>2. \A p \in Pid : p # NoPid
    BY PidIsNat
  <2> QED BY <1>1, <2>1, <2>2, Zenon DEF DoneIn
<1>4. \A p \in Pid : (\A e \in es : p \notin {e.pid, e.new}) => t[p] = s[p]
  BY Zenon DEF Told
<1>5. r.pid # NoPid => t[r.pid] = s[r.pid]
  BY <1>2, <1>4
<1>6. r.new # NoPid => t[r.new] = s[r.new]
  BY <1>2, <1>4
<1>7. DoneIn(s, u, r)
  BY <1>5, <1>6, Zenon DEF DoneIn
<1>8. ASSUME NEW p \in Pid, \A e \in es \cup {r} : p \notin {e.pid, e.new}
      PROVE  u[p] = s[p]
  BY <1>4, <1>8
<1> QED BY <1>3, <1>7, <1>8 DEF Told

Pending ==
    /\ log \subseteq wlog
    /\ Told(pos, wlog \ log, wpos)
    /\ todo \subseteq OpenIn(pos)

(* Nothing is pending when the view is what is committed.                  *)
LEMMA NothingTold == \A s : Told(s, {}, s)
BY DEF Told

LEMMA PendingSynced ==
    ASSUME wpos' = pos', wlog' = log', todo' \subseteq OpenIn(pos')
    PROVE  Pending'
<1>1. wlog' \ log' = {}
  BY Zenon
<1>2. Told(pos', wlog' \ log', wpos')
  BY <1>1, NothingTold, Zenon
<1>3. OpenIn(pos)' = OpenIn(pos')
  BY Zenon DEF OpenIn
<1> QED BY <1>2, <1>3, Zenon DEF Pending

(* Steps that write no table.                                              *)
LEMMA PendingKept ==
    ASSUME IInv, Pending, UNCHANGED <<pos, log, wpos, wlog>>,
           \/ todo' \subseteq todo
           \/ phase = "idle" /\ todo' \subseteq OpenIn(wpos)
    PROVE  Pending'
<1>1. todo' \subseteq OpenIn(pos)
  BY Zenon DEF Pending, IInv, IdleSynced
<1>2. OpenIn(pos)' = OpenIn(pos)
  BY Zenon DEF OpenIn
<1> QED BY <1>1, <1>2, Zenon DEF Pending, Told

(* A position opened by hand meanwhile is no row the transaction knows.    *)
LEMMA PendingManual ==
    ASSUME IInv, Pending, NEW c \in Pool, NEW usd \in Sizes, ManualOpen(c, usd)
    PROVE  Pending'
<1> DEFINE n == nextId  h == NewRow(c, usd, NoPid, 0, FALSE)  es == wlog \ log
<1>1. /\ n \in Pid /\ pos' = [pos EXCEPT ![n] = h] /\ wpos' = [wpos EXCEPT ![n] = h]
      /\ UNCHANGED <<log, wlog, todo>>
  BY DEF ManualOpen
<1>2. pos \in [Pid -> Row] /\ wpos \in [Pid -> Row]
  BY DEF IInv, TypeOK
<1>3. pos[n].status = "none" /\ wpos[n].status = "none"
  <2>1. \A p \in Pid : p >= p
    BY PidIsNat
  <2> QED BY <1>1, <2>1 DEF IInv, BookIn, FreshIn
<1> HIDE DEF h, n
<1>4. /\ pos'[n] = h /\ wpos'[n] = h
      /\ \A p \in Pid : p # n => pos'[p] = pos[p] /\ wpos'[p] = wpos[p]
  BY <1>1, <1>2
<1>5. /\ \A e \in es : DoneIn(pos, wpos, e)
      /\ \A p \in Pid : (\A e \in es : p \notin {e.pid, e.new}) => wpos[p] = pos[p]
  BY Zenon DEF Pending, Told
<1>6. ASSUME NEW e \in es PROVE DoneIn(pos', wpos', e)
  <2>1. /\ e.pid # NoPid => e.pid \in Pid /\ e.pid # n
        /\ e.new # NoPid => e.new \in Pid /\ e.new # n
    <3>1. /\ e.pid \in Pid \cup {NoPid} /\ e.new \in Pid \cup {NoPid}
          /\ e.pid # NoPid => pos[e.pid].status = "open"
          /\ e.new # NoPid => wpos[e.new].status = "open"
      BY <1>2, <1>5, DoneRows
    <3> QED BY <1>3, <3>1
  <2>2. /\ e.pid # NoPid => pos'[e.pid] = pos[e.pid] /\ wpos'[e.pid] = wpos[e.pid]
        /\ e.new # NoPid => pos'[e.new] = pos[e.new] /\ wpos'[e.new] = wpos[e.new]
    BY <1>4, <2>1
  <2>3. \A p \in Pid : p # NoPid
    BY PidIsNat
  <2> QED BY <1>5, <2>2, <2>3, Zenon DEF DoneIn
<1>7. ASSUME NEW p \in Pid, \A e \in es : p \notin {e.pid, e.new}
      PROVE  wpos'[p] = pos'[p]
  BY <1>4, <1>5, <1>7
<1>8. Told(pos', wlog' \ log', wpos')
  BY <1>1, <1>6, <1>7, Zenon DEF Told
<1>9. todo' \subseteq OpenIn(pos')
  <2>1. ASSUME NEW p \in todo PROVE p \in OpenIn(pos')
    <3>1. p \in Pid /\ pos[p].status = "open"
      BY <2>1, Zenon DEF Pending, OpenIn
    <3>2. pos'[p] = pos[p]
      BY <1>3, <1>4, <3>1
    <3> QED BY <3>1, <3>2, Zenon DEF OpenIn
  <2> QED BY <1>1, <2>1
<1>10. OpenIn(pos)' = OpenIn(pos')
  BY Zenon DEF OpenIn
<1> QED BY <1>1, <1>8, <1>9, <1>10, Zenon DEF Pending

LEMMA PendingMark ==
    ASSUME IInv, Pending, MarkBook
    PROVE  Pending'
<1>1. wpos' = pos' /\ wlog' = log' /\ todo' = todo
  BY Zenon DEF MarkBook, control, IInv, IdleSynced
<1>2. todo' \subseteq OpenIn(pos')
  <2>1. \A p \in Pid : pos'[p].status = pos[p].status
    BY MarkRows, Zenon
  <2> QED BY <1>1, <2>1, Zenon DEF Pending, OpenIn
<1> QED BY <1>1, <1>2, PendingSynced, Zenon

(* What a statement of the transaction and its entry have to be.           *)
LEMMA PendingMore ==
    ASSUME IInv, Pending, UNCHANGED <<pos, log>>, todo' \subseteq todo,
           NEW r, r \notin wlog, wlog' = wlog \cup {r},
           r.pid \in Pid \cup {NoPid}, r.new \in Pid \cup {NoPid},
           \A p \in Pid : p \notin {r.pid, r.new} => wpos'[p] = wpos[p],
           r.pid # NoPid => r.pid \in todo /\ EndsRow(wpos[r.pid], wpos'[r.pid]),
           r.new # NoPid => pos[r.new].status = "none" /\ BeginsRow(wpos[r.new], wpos'[r.new]),
           \/ r.kind = "close" /\ r.pid # NoPid /\ r.new = NoPid
           \/ /\ r.kind = "rebalance" /\ r.pid # NoPid
              /\ r.new = NoPid \/ HeirRow(wpos[r.pid], wpos'[r.new], r.pid)
           \/ r.kind = "add" /\ r.pid = NoPid /\ r.new # NoPid /\ FounderRow(wpos'[r.new])
    PROVE  Pending'
<1>1. wlog' \ log' = (wlog \ log) \cup {r}
  BY DEF Pending
<1>2. pos \in [Pid -> Row]
  BY DEF IInv, TypeOK
<1>3. r.pid # NoPid => pos[r.pid].status = "open"
  BY Zenon DEF Pending, OpenIn
<1>4. Told(pos, wlog \ log, wpos)
  BY DEF Pending
<1>5. Told(pos, (wlog \ log) \cup {r}, wpos')
  BY <1>2, <1>3, <1>4, TellMore, Zenon
<1>6. OpenIn(pos)' = OpenIn(pos)
  BY Zenon DEF OpenIn
<1>7. Told(pos', wlog' \ log', wpos')
  BY <1>1, <1>5, Zenon
<1>8. log' \subseteq wlog' /\ todo' \subseteq OpenIn(pos)'
  BY <1>6 DEF Pending
<1> QED BY <1>7, <1>8, Zenon DEF Pending

(* Who is still on the cursor is in the journal neither as closed nor new, *)
(* and an identity not handed out yet is not in it at all.                 *)
LEMMA NotTold ==
    ASSUME IInv
    PROVE  /\ \A c \in todo : /\ c \in Pid /\ wpos[c].status = "open"
                              /\ \A e \in wlog : e.kind # "add" => e.pid # c
           /\ nextId \in Pid => /\ pos[nextId].status = "none" /\ wpos[nextId].status = "none"
                                /\ \A e \in wlog : e.new # nextId
<1>1. AuditIn(wpos, wlog) /\ wlog \subseteq LogEntry /\ FreshIn(pos, nextId) /\ FreshIn(wpos, nextId)
  BY DEF IInv, TypeOK, BookIn
<1>2. ASSUME NEW c \in todo
      PROVE  /\ c \in Pid /\ wpos[c].status = "open"
             /\ \A e \in wlog : e.kind # "add" => e.pid # c
  <2>1. c \in Pid /\ wpos[c].status = "open"
    BY <1>2, Zenon DEF IInv, TodoOpen, OpenIn
  <2>2. \A e \in wlog : e.kind \in {"close", "rebalance"} => e.pid # c
    BY <1>1, <2>1 DEF AuditIn
  <2> QED BY <1>1, <2>1, <2>2 DEF LogEntry
<1>3. ASSUME nextId \in Pid
      PROVE  /\ pos[nextId].status = "none" /\ wpos[nextId].status = "none"
             /\ \A e \in wlog : e.new # nextId
  <2>1. nextId >= nextId
    BY <1>3, PidIsNat
  <2>2. pos[nextId].status = "none" /\ wpos[nextId].status = "none"
    BY <1>1, <1>3, <2>1 DEF FreshIn
  <2>3. nextId \notin AutoIn(wpos)
    BY <2>2, Zenon DEF AutoIn
  <2>4. \A e \in wlog : e.new # nextId
    BY <1>1, <1>3, <2>3, Zenon DEF AuditIn
  <2> QED BY <2>2, <2>4
<1> QED BY <1>2, <1>3

LEMMA ClosedEnds ==
    ASSUME NEW t \in [Pid -> Row], NEW c \in Pid, t[c].status = "open"
    PROVE  /\ EndsRow(t[c], Closed(t, c)[c])
           /\ \A p \in Pid : p # c => Closed(t, c)[p] = t[p]
           /\ DOMAIN Closed(t, c) = Pid
<1>1. Closed(t, c) = [t EXCEPT ![c] = [t[c] EXCEPT !.status = "closed"]]
  BY SMT DEF Closed
<1> QED BY <1>1 DEF EndsRow

LEMMA PendingClose ==
    ASSUME IInv, Pending, NEW c \in Pid, Close(c)
    PROVE  Pending'
<1> DEFINE r == [kind |-> "close", pid |-> c, new |-> NoPid]
<1>1. /\ UNCHANGED <<pos, log>> /\ c \in todo /\ todo' \subseteq todo
      /\ wpos' = Closed(wpos, c) /\ wlog' = wlog \cup {r}
  BY DEF Close, Decided, committed
<1>2. wpos \in [Pid -> Row] /\ c # NoPid
  BY PidIsNat DEF IInv, TypeOK
<1>3. wpos[c].status = "open" /\ \A e \in wlog : e.kind # "add" => e.pid # c
  BY <1>1, NotTold
<1>4. r.kind = "close" /\ r.pid = c /\ r.new = NoPid
  OBVIOUS
<1> HIDE DEF r
<1>5. r \notin wlog
  BY <1>3, <1>4
<1>6. EndsRow(wpos[c], wpos'[c]) /\ \A p \in Pid : p # c => wpos'[p] = wpos[p]
  BY <1>1, <1>2, <1>3, ClosedEnds, Zenon
<1> QED BY <1>1, <1>2, <1>4, <1>5, <1>6, PendingMore, Zenon

LEMMA PendingRebalance ==
    ASSUME IInv, Pending, NEW c \in Pid, Rebalance(c)
    PROVE  Pending'
<1> DEFINE s == Closed(wpos, c)
<1>1. /\ UNCHANGED <<pos, log>> /\ c \in todo /\ todo' \subseteq todo
      /\ \E spent, worth \in BOOLEAN : Decide(wpos[c], spent, worth) = "rebalance"
  BY DEF Rebalance, Decided, committed
<1>2. wpos \in [Pid -> Row] /\ c # NoPid /\ wpos[c] \in Row
  BY PidIsNat DEF IInv, TypeOK
<1>3. wpos[c].status = "open" /\ \A e \in wlog : e.kind # "add" => e.pid # c
  BY <1>1, NotTold
<1>4. /\ EndsRow(wpos[c], s[c]) /\ DOMAIN s = Pid
      /\ \A p \in Pid : p # c => s[p] = wpos[p]
  BY <1>2, <1>3, ClosedEnds, Zenon
<1>5. wpos[c].gen + 1 <= MaxGen
  <2>1. ~(wpos[c].gen >= MaxGen)
    BY <1>1 DEF Decide
  <2> QED BY <1>2, <2>1, PaperBookAssumption DEF Row
<1>6. CASE /\ wpos' = s
           /\ wlog' = wlog \cup {[kind |-> "rebalance", pid |-> c, new |-> NoPid]}
  <2> DEFINE r == [kind |-> "rebalance", pid |-> c, new |-> NoPid]
  <2>1. r.kind = "rebalance" /\ r.pid = c /\ r.new = NoPid /\ wlog' = wlog \cup {r}
    BY <1>6
  <2> HIDE DEF r, s
  <2>2. r \notin wlog
    BY <1>3, <2>1
  <2> QED BY <1>1, <1>2, <1>4, <1>6, <2>1, <2>2, PendingMore, Zenon
<1>7. ASSUME NEW redeploy \in Values, nextId \in Pid,
             wpos' = [s EXCEPT ![nextId] =
                        NewRow(wpos[c].pool, redeploy, c, wpos[c].gen + 1, TRUE)],
             wlog' = wlog \cup {[kind |-> "rebalance", pid |-> c, new |-> nextId]}
      PROVE  Pending'
  <2> DEFINE r == [kind |-> "rebalance", pid |-> c, new |-> nextId]
             h == NewRow(wpos[c].pool, redeploy, c, wpos[c].gen + 1, TRUE)
  <2>1. r.kind = "rebalance" /\ r.pid = c /\ r.new = nextId /\ wlog' = wlog \cup {r}
    BY <1>7
  <2>2. h.status = "open" /\ h.auto /\ HeirRow(wpos[c], h, c)
    BY <1>5, Zenon DEF NewRow, HeirRow
  <2>3. wpos' = [s EXCEPT ![nextId] = h]
    BY <1>7
  <2>4. pos[nextId].status = "none" /\ wpos[nextId].status = "none"
    BY <1>7, NotTold
  <2> HIDE DEF r, h, s
  <2>5. nextId # c /\ nextId # NoPid
    BY <1>3, <1>7, <2>4, PidIsNat
  <2>6. /\ wpos'[nextId] = h /\ wpos'[c] = s[c]
        /\ \A p \in Pid : p # c /\ p # nextId => wpos'[p] = wpos[p]
    BY <1>4, <1>7, <2>3, <2>5
  <2>7. r \notin wlog
    BY <1>3, <2>1
  <2>8. BeginsRow(wpos[nextId], wpos'[nextId])
    BY <2>2, <2>4, <2>6, Zenon DEF BeginsRow
  <2> QED BY <1>1, <1>2, <1>4, <1>7, <2>1, <2>2, <2>4, <2>6, <2>7, <2>8, PendingMore, Zenon
<1> QED BY <1>6, <1>7 DEF Rebalance

LEMMA PendingAdd ==
    ASSUME IInv, Pending, NEW c \in Pool, Add(c)
    PROVE  Pending'
<1> DEFINE r == [kind |-> "add", pid |-> NoPid, new |-> nextId]
<1>1. PICK usd \in Sizes :
        wpos' = [wpos EXCEPT ![nextId] = NewRow(c, Affordable(usd), NoPid, 0, TRUE)]
  BY DEF Add
<1> DEFINE h == NewRow(c, Affordable(usd), NoPid, 0, TRUE)
<1>2. /\ UNCHANGED <<pos, log>> /\ todo' \subseteq todo
      /\ nextId \in Pid /\ wlog' = wlog \cup {r}
  BY DEF Add, committed
<1>3. r.kind = "add" /\ r.pid = NoPid /\ r.new = nextId /\ nextId # NoPid
  BY <1>2, PidIsNat
<1>4. h.status = "open" /\ h.auto /\ FounderRow(h)
  BY Zenon DEF NewRow, FounderRow
<1>5. wpos' = [wpos EXCEPT ![nextId] = h]
  BY <1>1
<1> HIDE DEF h, r
<1>6. wpos'[nextId] = h /\ \A p \in Pid : p # nextId => wpos'[p] = wpos[p]
  BY <1>2, <1>5 DEF IInv, TypeOK
<1>7. /\ pos[nextId].status = "none" /\ wpos[nextId].status = "none"
      /\ \A e \in wlog : e.new # nextId
  BY <1>2, NotTold
<1>8. r \notin wlog
  BY <1>3, <1>7
<1>9. BeginsRow(wpos[nextId], wpos'[nextId])
  BY <1>4, <1>6, <1>7, Zenon DEF BeginsRow
<1> QED BY <1>2, <1>3, <1>4, <1>6, <1>7, <1>8, <1>9, PendingMore, Zenon

LEMMA PendingNext == IInv /\ Pending /\ [Next]_vars => Pending'
<1> SUFFICES ASSUME IInv, Pending, [Next]_vars PROVE Pending'
  OBVIOUS
<1>1. CASE NextCycle \/ SizeBook \/ UNCHANGED vars
  <2>1. UNCHANGED <<pos, log, wpos, wlog>> /\ todo' = todo
    BY <1>1, Zenon DEF NextCycle, SizeBook, vars, committed, view, control
  <2>2. todo' \subseteq todo
    BY <2>1
  <2> QED BY <2>1, <2>2, PendingKept, Zenon
<1>2. ASSUME NEW c \in Pool, NEW usd \in Sizes, ManualOpen(c, usd) PROVE Pending'
  BY <1>2, PendingManual
<1>3. CASE MarkBook
  BY <1>3, PendingMark
<1>4. ASSUME NEW fund \in SUBSET Pool, Begin(fund) PROVE Pending'
  <2>1. UNCHANGED <<pos, log, wpos, wlog>> /\ phase = "idle" /\ todo' \subseteq OpenIn(wpos)
    BY <1>4 DEF Begin, committed, view
  <2> QED BY <2>1, PendingKept, Zenon
<1>5. ASSUME NEW p \in Pid, Hold(p) PROVE Pending'
  <2>1. UNCHANGED <<pos, log, wpos, wlog>> /\ todo' \subseteq todo
    BY <1>5 DEF Hold, Decided, committed, view
  <2> QED BY <2>1, PendingKept, Zenon
<1>6. ASSUME NEW p \in Pid, Close(p) \/ Rebalance(p) PROVE Pending'
  BY <1>6, PendingClose, PendingRebalance
<1>7. ASSUME NEW c \in Pool, Skip(c) PROVE Pending'
  <2>1. UNCHANGED <<pos, log, wpos, wlog>> /\ todo' = todo
    BY <1>7, Zenon DEF Skip, committed, view
  <2>2. todo' \subseteq todo
    BY <2>1
  <2> QED BY <2>1, <2>2, PendingKept, Zenon
<1>8. ASSUME NEW c \in Pool, Add(c) PROVE Pending'
  BY <1>8, PendingAdd
<1>9. CASE Commit \/ Rollback
  <2>1. wpos' = pos' /\ wlog' = log' /\ todo' \subseteq OpenIn(pos')
    BY <1>9 DEF Commit, Rollback, EndPhase, view, committed
  <2> QED BY <2>1, PendingSynced
<1> QED BY <1>1, <1>2, <1>3, <1>4, <1>5, <1>6, <1>7, <1>8, <1>9, Zenon DEF Next

(* What is pending is always what the entries of the transaction say.      *)
THEOREM PendingCorrect == Spec => [](IInv /\ Pending)
<1>1. Init => Pending
  <2> SUFFICES ASSUME Init PROVE Pending
    OBVIOUS
  <2>1. wpos = pos /\ wlog \ log = {} /\ log \subseteq wlog /\ todo = {}
    BY DEF Init
  <2> QED BY <2>1, NothingTold, Zenon DEF Pending
<1>2. Spec => []Pending
  BY <1>1, PendingNext, Invariance, PTL DEF Spec
<1> QED BY <1>2, Invariance, PTL

-----------------------------------------------------------------------------
(* What the journal sees of a row.                                         *)

LEMMA FactsOf ==
    ASSUME NEW r \in Row
    PROVE  /\ Facts(r).status = r.status
           /\ r.status = "none" => Facts(r) = Journal!NoRow
           /\ r.status # "none" => /\ Facts(r).pool = r.pool /\ Facts(r).gen = r.gen
                                   /\ Facts(r).parent = r.parent
                                   /\ Facts(r).auto = r.auto
BY DEF Facts, Journal!NoRow

LEMMA FactsEnds ==
    ASSUME NEW r \in Row, NEW r2, EndsRow(r, r2)
    PROVE  Facts(r).status = "open" /\ Facts(r2) = [Facts(r) EXCEPT !.status = "closed"]
<1>1. /\ r.status = "open" /\ r2.status = "closed"
      /\ r2.pool = r.pool /\ r2.capital = r.capital /\ r2.gen = r.gen
      /\ r2.parent = r.parent /\ r2.auto = r.auto
  BY DEF EndsRow, Row
<1>2. Facts(r) = [status |-> r.status, pool |-> r.pool, capital |-> r.capital,
                  gen |-> r.gen, parent |-> r.parent, auto |-> r.auto]
  BY <1>1 DEF Facts
<1>3. Facts(r2) = [status |-> r2.status, pool |-> r2.pool, capital |-> r2.capital,
                   gen |-> r2.gen, parent |-> r2.parent, auto |-> r2.auto]
  BY <1>1 DEF Facts
<1> QED BY <1>1, <1>2, <1>3

LEMMA FactsBegins ==
    ASSUME NEW r \in Row, NEW r2 \in Row, BeginsRow(r, r2)
    PROVE  /\ Facts(r) = Journal!NoRow
           /\ Facts(r2).status = "open" /\ Facts(r2).auto
           /\ Facts(r2).pool = r2.pool /\ Facts(r2).gen = r2.gen
           /\ Facts(r2).parent = r2.parent
<1>1. r.status = "none" /\ r2.status = "open"
  BY DEF BeginsRow
<1>2. r2.auto = TRUE
  BY DEF BeginsRow, Row
<1> QED BY <1>1, <1>2, FactsOf

(* A commit does what its entries say, and says what it does.              *)
LEMMA CommitMaps ==
    ASSUME IInv, Pending, Commit
    PROVE  Journal!Transaction(log' \ log)
<1> DEFINE b == [p \in Pid |-> Facts(pos[p])]
           c == [p \in Pid |-> Facts(wpos[p])]
           es == wlog \ log
<1>1. pos' = wpos /\ log' = wlog /\ log' \ log = es /\ log' = log \cup es
  BY DEF Commit, Pending
<1>2. b' = c
  BY <1>1
<1>3. /\ pos \in [Pid -> Row] /\ wpos \in [Pid -> Row] /\ es \subseteq wlog
      /\ wlog \subseteq LogEntry
      /\ AuditIn(wpos, wlog) /\ \A p \in Pid : p # NoPid
  BY PidIsNat DEF IInv, TypeOK, BookIn
<1>4. /\ \A e \in es : DoneIn(pos, wpos, e)
      /\ \A p \in Pid : (\A e \in es : p \notin {e.pid, e.new}) => wpos[p] = pos[p]
  BY Zenon DEF Pending, Told
<1> HIDE DEF es
<1>5. /\ \A p \in Pid : EndsRow(pos[p], wpos[p]) =>
           b[p].status = "open" /\ c[p] = [b[p] EXCEPT !.status = "closed"]
      /\ \A p \in Pid : BeginsRow(pos[p], wpos[p]) =>
           /\ b[p] = Journal!NoRow /\ c[p].status = "open" /\ c[p].auto
           /\ c[p].pool = wpos[p].pool /\ c[p].gen = wpos[p].gen
           /\ c[p].parent = wpos[p].parent
  BY <1>3, FactsEnds, FactsBegins
<1>6. ASSUME NEW p \in Pid, EndsRow(pos[p], wpos[p])
      PROVE  b[p].pool = pos[p].pool /\ b[p].gen = pos[p].gen
  <2>1. pos[p] \in Row /\ pos[p].status # "none"
    BY <1>3, <1>6 DEF EndsRow
  <2> QED BY <2>1, FactsOf
<1> HIDE DEF b, c
<1>7. ASSUME NEW e \in es PROVE Journal!Done(e)
  <2>1. DoneIn(pos, wpos, e)
    BY <1>4
  <2>2. ASSUME NEW p \in Pid, EndsRow(pos[p], wpos[p]) PROVE Journal!Ends(p)
    BY <1>2, <1>5, <2>2, Zenon DEF Journal!Ends, b
  <2>3. ASSUME NEW p \in Pid, BeginsRow(pos[p], wpos[p]) PROVE Journal!Begins(p)
    BY <1>2, <1>5, <2>3, Zenon DEF Journal!Begins, b
  <2>4. CASE e.kind = "close" /\ e.pid \in Pid /\ e.new = NoPid /\ EndsRow(pos[e.pid], wpos[e.pid])
    BY <2>2, <2>4, Zenon DEF Journal!Done
  <2>5. CASE /\ e.kind = "rebalance" /\ e.pid \in Pid /\ EndsRow(pos[e.pid], wpos[e.pid])
             /\ e.new = NoPid
    BY <2>2, <2>5, Zenon DEF Journal!Done
  <2>6. CASE /\ e.kind = "rebalance" /\ e.pid \in Pid /\ EndsRow(pos[e.pid], wpos[e.pid])
             /\ e.new \in Pid /\ BeginsRow(pos[e.new], wpos[e.new])
             /\ HeirRow(pos[e.pid], wpos[e.new], e.pid)
    <3>1. /\ c[e.new].parent = e.pid /\ c[e.new].pool = b[e.pid].pool
          /\ c[e.new].gen = b[e.pid].gen + 1 /\ c[e.new].gen <= MaxGen
      <4>1. /\ c[e.new].pool = wpos[e.new].pool /\ c[e.new].gen = wpos[e.new].gen
            /\ c[e.new].parent = wpos[e.new].parent
        BY <1>5, <2>6, Zenon
      <4>2. b[e.pid].pool = pos[e.pid].pool /\ b[e.pid].gen = pos[e.pid].gen
        BY <1>6, <2>6, Zenon
      <4> QED BY <2>6, <4>1, <4>2, Zenon DEF HeirRow
    <3>2. Journal!Heir(c[e.new], e.pid)
      BY <3>1, Zenon DEF Journal!Heir, b
    <3> QED BY <1>2, <2>2, <2>3, <2>6, <3>2, Zenon DEF Journal!Done, b
  <2>7. CASE /\ e.kind = "add" /\ e.pid = NoPid /\ e.new \in Pid
             /\ BeginsRow(pos[e.new], wpos[e.new]) /\ FounderRow(wpos[e.new])
    <3>1. Journal!Founder(c[e.new])
      BY <1>5, <2>7, Zenon DEF Journal!Founder, FounderRow
    <3> QED BY <1>2, <2>3, <2>7, <3>1, Zenon DEF Journal!Done, b
  <2> QED BY <2>1, <2>4, <2>5, <2>6, <2>7, Zenon DEF DoneIn
<1>8. ASSUME NEW e \in es, NEW f \in es, NEW p \in {e.pid, e.new} \cap {f.pid, f.new},
             p # NoPid
      PROVE  e = f
  <2>1. /\ \A g \in {e, f} :
              /\ g.pid \in Pid \cup {NoPid} /\ g.new \in Pid \cup {NoPid}
              /\ g.pid # NoPid => pos[g.pid].status = "open"
              /\ g.new # NoPid => pos[g.new].status = "none"
    BY <1>3, <1>4, DoneRows
  <2>2. (p = e.pid /\ p = f.pid) \/ (p = e.new /\ p = f.new)
    BY <1>8, <2>1
  <2>3. e \in wlog /\ f \in wlog
    BY <1>3, <1>8, Zenon
  <2>4. /\ \A g, h \in wlog : g.pid = h.pid /\ g.pid # NoPid => g = h
        /\ \A g, h \in wlog : g.new = h.new /\ g.new # NoPid => g = h
    BY <1>3, Zenon DEF AuditIn
  <2>5. CASE p = e.pid /\ p = f.pid
    <3>1. e.pid = f.pid /\ e.pid # NoPid
      BY <1>8, <2>5
    <3> QED BY <2>3, <2>4, <3>1, Zenon
  <2>6. CASE p = e.new /\ p = f.new
    <3>1. e.new = f.new /\ e.new # NoPid
      BY <1>8, <2>6
    <3> QED BY <2>3, <2>4, <3>1, Zenon
  <2> QED BY <2>2, <2>5, <2>6
<1>9. c = [i \in Pid |-> IF i \in UNION {{e.pid, e.new} : e \in es} THEN c[i] ELSE b[i]]
  <2>1. ASSUME NEW i \in Pid, i \notin UNION {{e.pid, e.new} : e \in es} PROVE c[i] = b[i]
    <3>1. wpos[i] = pos[i]
      BY <1>4, <2>1
    <3> QED BY <3>1 DEF b, c
  <2>2. c = [i \in Pid |-> c[i]]
    BY DEF c
  <2> QED BY <2>1, <2>2
<1>10. Journal!Untouched(UNION {{e.pid, e.new} : e \in es})
  BY <1>2, <1>9, Zenon DEF Journal!Untouched, b
<1> QED BY <1>1, <1>7, <1>8, <1>10 DEF Journal!Transaction

(***************************************************************************)
(* A position opened by hand is a row where there was none, the first of   *)
(* its chain and not the engine's.                                         *)
(***************************************************************************)
LEMMA ManualMaps ==
    ASSUME IInv, NEW c \in Pool, NEW usd \in Sizes, ManualOpen(c, usd)
    PROVE  Journal!OpenByHand(nextId)
<1> DEFINE r == NewRow(c, usd, NoPid, 0, FALSE)
           b == [p \in Pid |-> Facts(pos[p])]
           d == [p \in Pid |-> Facts(pos'[p])]
<1>1. /\ nextId \in Pid /\ pos' = [pos EXCEPT ![nextId] = r] /\ log' = log
  BY DEF ManualOpen
<1>2. pos \in [Pid -> Row] /\ pos[nextId].status = "none"
  BY <1>1, NotTold DEF IInv, TypeOK
<1>3. pos'[nextId] = r /\ \A p \in Pid : p # nextId => pos'[p] = pos[p]
  BY <1>1, <1>2
<1>4. b[nextId] = Journal!NoRow
  BY <1>1, <1>2, FactsOf
<1>5. /\ r \in Row /\ r.status = "open" /\ ~r.auto /\ r.parent = NoPid /\ r.gen = 0
  BY PaperBookAssumption DEF Row, NewRow
<1>6. d = [i \in Pid |-> IF i \in {nextId} THEN d[i] ELSE b[i]]
  BY <1>3
<1>7. /\ d[nextId].status = "open" /\ ~d[nextId].auto
      /\ d[nextId].parent = NoPid /\ d[nextId].gen = 0
  <2>1. d[nextId] = Facts(r)
    BY <1>1, <1>3
  <2> HIDE DEF d, r
  <2>2. r.status # "none"
    BY <1>5
  <2> QED BY <1>5, <2>1, <2>2, FactsOf, Zenon
<1>8. b' = d
  OBVIOUS
<1> HIDE DEF b, d
<1> QED BY <1>1, <1>4, <1>6, <1>7, <1>8, Zenon
        DEF Journal!OpenByHand, Journal!Untouched, Journal!Founder, b

(* A mark is not in the journal, and changes nothing the journal tells.    *)
LEMMA MarkMaps ==
    ASSUME IInv, MarkBook
    PROVE  [p \in Pid |-> Facts(pos[p])]' = [p \in Pid |-> Facts(pos[p])] /\ log' = log
<1>1. log' = log
  BY DEF MarkBook
<1>2. PICK side \in [OpenIn(pos) -> Side] :
         pos' = [p \in Pid |->
                   IF p \in OpenIn(pos)
                   THEN [pos[p] EXCEPT !.side = side[p], !.ever = @ \/ side[p] = "in"]
                   ELSE pos[p]]
  BY DEF MarkBook
<1>3. pos \in [Pid -> Row]
  BY DEF IInv, TypeOK
<1>4. ASSUME NEW p \in Pid PROVE Facts(pos'[p]) = Facts(pos[p])
  <2>1. CASE p \notin OpenIn(pos)
    BY <1>2, <2>1
  <2>2. CASE p \in OpenIn(pos)
    <3>1. /\ pos'[p].status = pos[p].status /\ pos'[p].pool = pos[p].pool
          /\ pos'[p].capital = pos[p].capital /\ pos'[p].gen = pos[p].gen
          /\ pos'[p].parent = pos[p].parent /\ pos'[p].auto = pos[p].auto
      <4> DEFINE v == side[p]
                 x == pos[p].ever \/ v = "in"
                 r == pos[p]
      <4>1. pos'[p] = [r EXCEPT !.side = v, !.ever = x]
        BY <1>2, <2>2
      <4>2. r \in Row
        BY <1>3
      <4> HIDE DEF v, x
      <4> QED BY <4>1, <4>2 DEF Row
    <3> QED BY <3>1, Zenon DEF Facts
  <2> QED BY <2>1, <2>2
<1> QED BY <1>1, <1>4

(* Every step of the book is one of the journal's, or is not in it.        *)
LEMMA StepMaps ==
    IInv /\ Pending /\ [Next]_vars
      => [Journal!Next]_<<[p \in Pid |-> Facts(pos[p])], log>>
<1> SUFFICES ASSUME IInv, Pending, [Next]_vars
             PROVE  \/ Journal!Next
                    \/ /\ [p \in Pid |-> Facts(pos[p])]' = [p \in Pid |-> Facts(pos[p])]
                       /\ log' = log
  OBVIOUS
<1>1. ASSUME NEW c \in Pool, NEW usd \in Sizes, ManualOpen(c, usd) PROVE Journal!Next
  <2>1. nextId \in Pid
    BY <1>1 DEF ManualOpen
  <2> QED BY <1>1, <2>1, ManualMaps, Zenon DEF Journal!Next
<1>2. CASE MarkBook
  BY <1>2, MarkMaps, Zenon
<1>3. CASE Commit
  BY <1>3, CommitMaps, Zenon DEF Journal!Next
<1>4. CASE UNCHANGED <<pos, log>>
  BY <1>4
<1>5. CASE NextCycle \/ SizeBook \/ Rollback \/ UNCHANGED vars
  <2>1. UNCHANGED <<pos, log>>
    BY <1>5, Zenon DEF NextCycle, SizeBook, Rollback, vars, committed
  <2> QED BY <1>4, <2>1
<1>6. ASSUME NEW fund \in SUBSET Pool, Begin(fund) PROVE UNCHANGED <<pos, log>>
  BY <1>6, Zenon DEF Begin, committed
<1>7. ASSUME NEW p \in Pid, Hold(p) \/ Close(p) \/ Rebalance(p)
      PROVE  UNCHANGED <<pos, log>>
  BY <1>7, Zenon DEF Hold, Close, Rebalance, committed
<1>8. ASSUME NEW c \in Pool, Skip(c) \/ Add(c) PROVE UNCHANGED <<pos, log>>
  BY <1>8, Zenon DEF Skip, Add, committed
<1> QED BY <1>1, <1>2, <1>3, <1>4, <1>5, <1>6, <1>7, <1>8, Zenon DEF Next

(***************************************************************************)
(* The actions table is a journal of the book (migration_008_actions.sql): *)
(* seen from outside, cmd_manage does, in one step, what the entries it    *)
(* appends say, all of it and nothing else, for any pools, sizes and       *)
(* number of positions, with any openings by hand and marks in between.    *)
(***************************************************************************)
THEOREM JournalCorrect == Spec => JournalSpec
<1>1. Init => Journal!Init
  <2> SUFFICES ASSUME Init PROVE Journal!Init
    OBVIOUS
  <2>1. log = {} /\ \A p \in Pid : pos[p] = Absent
    BY DEF Init
  <2>2. Facts(Absent) = Journal!NoRow
    BY DEF Facts, Absent, Journal!NoRow
  <2> QED BY <2>1, <2>2 DEF Journal!Init
<1>2. Spec => [][Journal!Next]_<<[p \in Pid |-> Facts(pos[p])], log>>
  BY StepMaps, PendingCorrect, PTL DEF Spec
<1> QED BY <1>1, <1>2, PTL DEF Spec, JournalSpec, Journal!Spec

=============================================================================
