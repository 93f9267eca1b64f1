---------------------------- MODULE BookJournal ----------------------------
(***************************************************************************)
(* What the table actions is to the paper book: "an append-only journal:   *)
(* what was done" (db/migration_008_actions.sql).  A position opened by    *)
(* hand is not in it.  Everything else that happens to positions happens   *)
(* in a transaction, which appends its entries and does to the book what   *)
(* they say, all of it and nothing else; so what a position was opened     *)
(* with never changes, and a closed one is never touched again.            *)
(***************************************************************************)
EXTENDS Integers

CONSTANTS Id, NoId, MaxGen

VARIABLES book,     \* the positions, NoRow where there is none yet
          journal   \* the entries

NoRow == [status |-> "none"]

Init ==
    /\ book = [i \in Id |-> NoRow]
    /\ journal = {}

Untouched(touched) ==
    book' = [i \in Id |-> IF i \in touched THEN book'[i] ELSE book[i]]

(* The first of a chain, or the heir of a position that is re-centred.     *)
Founder(row) == row.parent = NoId /\ row.gen = 0

Heir(row, i) ==
    /\ row.parent = i /\ row.pool = book[i].pool
    /\ row.gen = book[i].gen + 1 /\ row.gen <= MaxGen

OpenByHand(i) ==
    /\ book[i] = NoRow
    /\ book'[i].status = "open" /\ ~book'[i].auto /\ Founder(book'[i])
    /\ Untouched({i})
    /\ UNCHANGED journal

Ends(i) ==
    /\ book[i].status = "open"
    /\ book'[i] = [book[i] EXCEPT !.status = "closed"]

Begins(i) ==
    /\ book[i] = NoRow
    /\ book'[i].status = "open" /\ book'[i].auto

Done(e) ==
    \/ e.kind = "close" /\ e.new = NoId /\ Ends(e.pid)
    \/ /\ e.kind = "rebalance" /\ Ends(e.pid)
       /\ e.new # NoId => Begins(e.new) /\ Heir(book'[e.new], e.pid)
    \/ e.kind = "add" /\ e.pid = NoId /\ Begins(e.new) /\ Founder(book'[e.new])

Transaction(entries) ==
    /\ journal' = journal \cup entries
    /\ \A e \in entries : Done(e)
    /\ \A e, f \in entries : {e.pid, e.new} \cap {f.pid, f.new} \subseteq {NoId} \/ e = f
    /\ Untouched(UNION {{e.pid, e.new} : e \in entries})

Next ==
    \/ \E i \in Id : OpenByHand(i)
    \/ Transaction(journal' \ journal)

Spec == Init /\ [][Next]_<<book, journal>>

=============================================================================
