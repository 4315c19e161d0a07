----------------------------- MODULE SyncMutex -----------------------------
(***************************************************************************)
(* What keeps two runs of the same work apart: at any moment at most one   *)
(* run is inside, and a second one enters only after the first has left.   *)
(* How a run leaves (it finishes, it is killed, its claim ages) is not     *)
(* told apart here.                                                        *)
(*                                                                         *)
(* Three claims of the program implement this specification, each in a way *)
(* of its own: the lease of PlaidSyncLock on an item, which is the lock of *)
(* PlaidItemLifecycle, the row of JobLedger that a run of a job owns, and  *)
(* the claim of AccountPurge on a user.                                    *)
(***************************************************************************)
CONSTANT Runs          \* the runs that may want to enter

VARIABLE holder        \* the runs inside, at most one

Init == holder = {}

Enter(r) ==
    /\ holder = {}
    /\ holder' = {r}

Leave(r) ==
    /\ holder = {r}
    /\ holder' = {}

Next == \E r \in Runs : Enter(r) \/ Leave(r)

Spec == Init /\ [][Next]_holder

=============================================================================
