-------------------------- MODULE MCPlaidLostWakeup --------------------------
(***************************************************************************)
(* PlaidItemLifecycle with a history variable: the data that had been      *)
(* announced when a run that lost the lock last left its marker.           *)
(***************************************************************************)
EXTENDS PlaidItemLifecycle

CONSTANTS r1, r2

VARIABLE owed

LeavesMarker(r) == StampIncomplete(r) /\ marker' = "fresh"

OwedInit == Init /\ owed = 0

OwedNext ==
    /\ Next
    /\ owed' = IF \E r \in Runs : LeavesMarker(r) THEN available ELSE owed

OwedSpec == OwedInit /\ [][OwedNext]_<<vars, owed>>

\* "mark the item incomplete so the existing resume path re-syncs after the
\* in-flight run finishes" (webhook-sync.ts:88-90): a loser's marker is taken
\* off only when what was announced before it is stored.
NoLostWakeup ==
    [][marker # NoMarker /\ marker' = NoMarker => stored >= owed]_<<vars, owed>>

=============================================================================
