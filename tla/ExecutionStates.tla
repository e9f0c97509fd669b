--------------------------- MODULE ExecutionStates ---------------------------
(***************************************************************************)
(* The four states of a delivery execution and the sets of states the      *)
(* services and controllers test for membership.                           *)
(***************************************************************************)

ACTIVE     == "Active"      \* a test-taker is taking the delivery
PAUSED     == "Paused"      \* in progress, nobody is taking it
FINISHED   == "Finished"    \* results should be considered
TERMINATED == "Terminated"  \* results might not be valid

State == {ACTIVE, PAUSED, FINISHED, TERMINATED}

\* The states AbstractStateService calls interactive.
InteractiveStates == {ACTIVE, PAUSED}

\* The states an execution can be resumed from.
ResumableStates == {ACTIVE, PAUSED}

\* The states the REST resource accepts: no TERMINATED.
DeliveriesStates == {FINISHED, ACTIVE, PAUSED}

\* StateService::getInitialStatus
InitialStatus == ACTIVE

\* What an execution identifier denotes before its execution is spawned and
\* after it has been deleted.
UNBORN == "Unborn"
GONE   == "Gone"

Stored == State \cup {UNBORN, GONE}
=============================================================================
