------------------------- MODULE ExecutionLifecycle -------------------------
(***************************************************************************)
(* What the state service promises to its callers and to the listeners of  *)
(* its events: an execution moves along the edges its operations permit,   *)
(* one at a time, and every move is heard by the listeners.                *)
(***************************************************************************)
EXTENDS ExecutionStates

CONSTANTS Execution,          \* identifiers of delivery executions
          Ops,                \* the operations the deployment exposes
          ReactivableStates   \* option reactivableStates of the state service

VARIABLES state,  \* state[e]: the state of execution e
          heard   \* heard[e]: the state the listeners know

vars == <<state, heard>>

Init == /\ state = [e \in Execution |-> UNBORN]
        /\ heard = [e \in Execution |-> UNBORN]

\* The moves each operation makes. pause, terminate and finish have no
\* condition on the state they leave.
Edges(op) ==
  CASE op = "run"       -> ResumableStates \X {ACTIVE}
    [] op = "pause"     -> State \X {PAUSED}
    [] op = "finish"    -> State \X {FINISHED}
    [] op = "terminate" -> State \X {TERMINATED}
    [] op = "unstop"    -> ReactivableStates \X {PAUSED}
    [] op = "put"       -> State \X DeliveriesStates

Move(e, from, to) ==
  /\ state[e] = from
  /\ state' = [state EXCEPT ![e] = to]
  /\ heard' = [heard EXCEPT ![e] = to]

Create(e) == Move(e, UNBORN, InitialStatus)

Change(e) ==
  \E op \in Ops : \E edge \in Edges(op) :
    edge[1] # edge[2] /\ Move(e, edge[1], edge[2])

\* No event tells the listeners of a deletion: heard is unchanged.
Delete(e) ==
  /\ state[e] \in State
  /\ state' = [state EXCEPT ![e] = GONE]
  /\ UNCHANGED heard

Next == \E e \in Execution : Create(e) \/ Change(e) \/ Delete(e)

Spec == Init /\ [][Next]_vars
=============================================================================
