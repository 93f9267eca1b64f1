---------------------------- MODULE IntentLedger ----------------------------
(***************************************************************************)
(* What the table intents promises the engine that writes it and the       *)
(* executors that read it (exec/src/db.ts: "two executors never pick the   *)
(* same row"): every intent is handed to one executor at most, once, and   *)
(* only that executor settles it.  An executor that dies leaves what it    *)
(* held settled or orphaned; nothing is ever handed out again.             *)
(***************************************************************************)
CONSTANTS Id, Executor, Nobody

VARIABLES state,   \* "absent", "queued", "held", "settled" or "orphaned"
          holder   \* the executor that holds it, or Nobody

Init ==
    /\ state = [i \in Id |-> "absent"]
    /\ holder = [i \in Id |-> Nobody]

Submit(i) ==
    /\ state[i] = "absent"
    /\ state' = [state EXCEPT ![i] = "queued"]
    /\ UNCHANGED holder

(* An executor holds one intent at a time. *)
Take(e, i) ==
    /\ state[i] = "queued"
    /\ \A j \in Id : holder[j] # e
    /\ state' = [state EXCEPT ![i] = "held"]
    /\ holder' = [holder EXCEPT ![i] = e]

Release(e, i, outcome) ==
    /\ holder[i] = e
    /\ state' = [state EXCEPT ![i] = outcome]
    /\ holder' = [holder EXCEPT ![i] = Nobody]

Settle(e, i)  == Release(e, i, "settled")
Abandon(e, i) == Release(e, i, "orphaned")

Next ==
    \E i \in Id :
        \/ Submit(i)
        \/ \E e \in Executor : Take(e, i) \/ Settle(e, i) \/ Abandon(e, i)

Spec == Init /\ [][Next]_<<state, holder>>

=============================================================================
