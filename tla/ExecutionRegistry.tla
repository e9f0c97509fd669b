-------------------------- MODULE ExecutionRegistry --------------------------
(***************************************************************************)
(* What the delivery execution service answers to its callers, without a   *)
(* word on how executions are indexed: every execution the user has, those *)
(* with a given status, those that can be resumed, those that count as     *)
(* attempts, less the ones a deletion has made invisible.                  *)
(***************************************************************************)
EXTENDS ExecutionStates

CONSTANTS User, Delivery, Execution,
          UserOf,          \* UserOf[e]: the test-taker of execution e
          DeliveryOf,      \* DeliveryOf[e]: the delivery e was started from
          StatesToExclude  \* option states_to_exclude of the attempt service

VARIABLES status,       \* status[e], GHOST for an entry without a state
          unlisted,     \* executions the queries by status do not find
          unattempted,  \* executions the queries by delivery do not find
          deliveries,   \* the deliveries that exist
          answer        \* the last query and what it found

vars == <<status, unlisted, unattempted, deliveries, answer>>

\* An entry that holds metadata and nothing else.
GHOST == "Ghost"

NoAnswer == [query |-> "none"]

Alive(e) == status[e] \in State

Listed(u, s) ==
  {e \in Execution : UserOf[e] = u /\ status[e] = s /\ e \notin unlisted}

Attempted(u, d) ==
  {e \in Execution : /\ UserOf[e] = u /\ DeliveryOf[e] = d
                     /\ Alive(e) /\ e \notin unattempted}

Init == /\ status = [e \in Execution |-> UNBORN]
        /\ unlisted = {} /\ unattempted = {}
        /\ deliveries = Delivery
        /\ answer = NoAnswer

Spawn(e, s) ==
  /\ status[e] = UNBORN
  /\ status' = [status EXCEPT ![e] = s]
  /\ answer' = NoAnswer
  /\ UNCHANGED <<unlisted, unattempted, deliveries>>

\* A change of state makes an execution visible by status again.
SetState(e, s) ==
  /\ Alive(e) /\ status[e] # s
  /\ status' = [status EXCEPT ![e] = s]
  /\ unlisted' = unlisted \ {e}
  /\ answer' = NoAnswer
  /\ UNCHANGED <<unattempted, deliveries>>

AddMetadata(e) ==
  /\ status[e] = GONE
  /\ status' = [status EXCEPT ![e] = GHOST]
  /\ answer' = NoAnswer
  /\ UNCHANGED <<unlisted, unattempted, deliveries>>

Answer(q, u, x, found) ==
  /\ answer' = [query |-> q, user |-> u, arg |-> x, found |-> found]
  /\ UNCHANGED <<status, unlisted, unattempted, deliveries>>

ByStatus(u, s) == Answer("status", u, s, Listed(u, s))

\* What can be resumed belongs to a delivery that exists.
Resumable(u) ==
  Answer("resumable", u, u,
         {e \in UNION {Listed(u, s) : s \in ResumableStates} :
            DeliveryOf[e] \in deliveries})

UserExecutions(u, d) == Answer("delivery", u, d, Attempted(u, d))

Attempts(u, d) ==
  Answer("attempts", u, d,
         {e \in Attempted(u, d) : status[e] \notin StatesToExclude})

\* A deletion takes the other executions of the user out of the queries by
\* status, and those of the same delivery out of the queries by delivery.
Delete(e) ==
  /\ Alive(e)
  /\ status' = [status EXCEPT ![e] = GONE]
  /\ unlisted' = unlisted \cup
       {x \in Execution : UserOf[x] = UserOf[e] /\ Alive(x)}
  /\ unattempted' = unattempted \cup
       {x \in Execution : /\ UserOf[x] = UserOf[e] /\ Alive(x)
                          /\ DeliveryOf[x] = DeliveryOf[e]}
  /\ answer' = NoAnswer
  /\ UNCHANGED deliveries

\* A delivery is deleted; its executions stay and can no longer be resumed.
DeleteDelivery(d) ==
  /\ d \in deliveries
  /\ deliveries' = deliveries \ {d}
  /\ answer' = NoAnswer
  /\ UNCHANGED <<status, unlisted, unattempted>>

Next ==
  \/ \E e \in Execution :
       \/ \E s \in State : Spawn(e, s) \/ SetState(e, s)
       \/ AddMetadata(e) \/ Delete(e)
  \/ \E u \in User :
       \/ \E s \in State : ByStatus(u, s)
       \/ Resumable(u)
       \/ \E d \in Delivery : UserExecutions(u, d) \/ Attempts(u, d)
  \/ \E d \in Delivery : DeleteDelivery(d)

Spec == Init /\ [][Next]_vars
=============================================================================
