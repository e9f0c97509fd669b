--------------------------- MODULE KeyValueService ---------------------------
(***************************************************************************)
(* The key-value implementation of the delivery execution service, one     *)
(* whole operation per step. Besides the record of each execution it keeps *)
(* a list of identifiers per user and status and one per user and          *)
(* delivery; the answers are read off these lists. A list by status mends  *)
(* itself while it is read: an entry whose record has another status moves *)
(* to the list of that status.                                             *)
(***************************************************************************)
EXTENDS ExecutionStates

CONSTANTS User, Delivery, Execution,
          UserOf,          \* UserOf[e]: the test-taker of execution e
          DeliveryOf,      \* DeliveryOf[e]: the delivery e was started from
          StatesToExclude  \* option states_to_exclude of the attempt service

ASSUME ConstantsAssumption ==
  /\ UserOf \in [Execution -> User]
  /\ DeliveryOf \in [Execution -> Delivery]
  /\ StatesToExclude \subseteq State

VARIABLES
  status,      \* status[e]: of the record kve_de_e; GHOST: metadata only
  statusList,  \* statusList[<<u, s>>]: the list kve_ue_us
  userList,    \* userList[<<u, d>>]: the list kve_ud_ud
  deliveries,  \* the deliveries that exist
  answer,      \* the last query and what it found
  unlisted,    \* executions whose entry by status a deletion removed
  unattempted  \* executions whose entry by delivery a deletion removed

vars == <<status, statusList, userList, deliveries, answer, unlisted,
          unattempted>>

GHOST == "Ghost"

NoAnswer == [query |-> "none"]

Alive(e) == status[e] \in State

Init == /\ status = [e \in Execution |-> UNBORN]
        /\ statusList = [k \in User \X State |-> {}]
        /\ userList = [k \in User \X Delivery |-> {}]
        /\ deliveries = Delivery
        /\ answer = NoAnswer
        /\ unlisted = {} /\ unattempted = {}

-----------------------------------------------------------------------------
\* The lists after getDeliveryExecutionsByStatus(u, s): fixStatus has moved
\* every entry of another status, by the records st, to its own list.
Mended(list, st, u, s) ==
  [k \in User \X State |->
     IF k = <<u, s>> THEN {e \in list[k] : st[e] = s}
     ELSE list[k] \cup {e \in list[<<u, s>>] : k = <<u, st[e]>>}]

\* Mutant: the entry stays on the list of the old status.
DroppedNowhere(list, st, e, old) == list

\* Mutant: the lists hold users for executions.
AddedUser(list, st, e, new) ==
  [list EXCEPT ![<<UserOf[e], new>>] = @ \cup {UserOf[e]}]

\* updateDeliveryExecutionStatus, the record being in st already: drop e
\* from the list of its old status, add it to that of the new one.
Dropped(list, st, e, old) ==
  [Mended(list, st, UserOf[e], old) EXCEPT ![<<UserOf[e], old>>] = @ \ {e}]

Added(list, st, e, new) ==
  [Mended(list, st, UserOf[e], new) EXCEPT ![<<UserOf[e], new>>] = @ \cup {e}]

\* Mutant: the list by delivery is overwritten, not extended.
SpawnOverwrites(e, s) ==
  /\ status[e] = UNBORN
  /\ status' = [status EXCEPT ![e] = s]
  /\ statusList' = Added(statusList, status', e, s)
  /\ userList' = [userList EXCEPT ![<<UserOf[e], DeliveryOf[e]>>] = {e}]
  /\ answer' = NoAnswer
  /\ UNCHANGED <<unlisted, unattempted, deliveries>>

\* spawnDeliveryExecution: record, list by status, list by delivery.
Spawn(e, s) ==
  /\ status[e] = UNBORN
  /\ status' = [status EXCEPT ![e] = s]
  /\ statusList' = Added(statusList, status', e, s)
  /\ userList' = [userList EXCEPT ![<<UserOf[e], DeliveryOf[e]>>] = @ \cup {e}]
  /\ answer' = NoAnswer
  /\ UNCHANGED <<unlisted, unattempted, deliveries>>

\* KVDeliveryExecution::setState
SetState(e, s) ==
  /\ Alive(e) /\ status[e] # s
  /\ status' = [status EXCEPT ![e] = s]
  /\ statusList' =
       Added(Dropped(statusList, status', e, status[e]), status', e, s)
  /\ unlisted' = unlisted \ {e}
  /\ answer' = NoAnswer
  /\ UNCHANGED <<userList, unattempted, deliveries>>

\* addMetadata reads the record, or nothing, and writes it back with the
\* metadata: for a deleted execution that leaves an entry without a state.
AddMetadata(e) ==
  /\ status[e] = GONE
  /\ status' = [status EXCEPT ![e] = GHOST]
  /\ answer' = NoAnswer
  /\ UNCHANGED <<statusList, userList, unlisted, unattempted, deliveries>>

Answer(q, u, x, found) ==
  answer' = [query |-> q, user |-> u, arg |-> x, found |-> found]

ByStatus(u, s) ==
  /\ Answer("status", u, s, {e \in statusList[<<u, s>>] : status[e] = s})
  /\ statusList' = Mended(statusList, status, u, s)
  /\ UNCHANGED <<status, userList, unlisted, unattempted, deliveries>>

\* Mutant: the delivery is not asked whether it exists.
ResumableUnfiltered(u) ==
  LET active == Mended(statusList, status, u, ACTIVE)
      paused == Mended(active, status, u, PAUSED)
  IN /\ Answer("resumable", u, u,
               active[<<u, ACTIVE>>] \cup paused[<<u, PAUSED>>])
     /\ statusList' = paused
     /\ UNCHANGED <<status, userList, unlisted, unattempted, deliveries>>

\* getResumableDeliveries reads the list of the active, then the paused, and
\* leaves out the executions whose delivery no longer exists.
Resumable(u) ==
  LET active == Mended(statusList, status, u, ACTIVE)
      paused == Mended(active, status, u, PAUSED)
  IN /\ Answer("resumable", u, u,
               {e \in active[<<u, ACTIVE>>] \cup paused[<<u, PAUSED>>] :
                  DeliveryOf[e] \in deliveries})
     /\ statusList' = paused
     /\ UNCHANGED <<status, userList, unlisted, unattempted, deliveries>>

UserExecutions(u, d) ==
  /\ Answer("delivery", u, d, userList[<<u, d>>])
  /\ UNCHANGED <<status, statusList, userList, unlisted, unattempted,
                 deliveries>>

\* AttemptService::getAttempts
Attempts(u, d) ==
  /\ Answer("attempts", u, d,
            {e \in userList[<<u, d>>] : status[e] \notin StatesToExclude})
  /\ UNCHANGED <<status, statusList, userList, unlisted, unattempted,
                 deliveries>>

\* deleteDeliveryExecutionData removes the record, the user's lists of every
\* status, and the whole list of the user and the delivery.
Delete(e) ==
  LET u == UserOf[e]
      mine == {x \in Execution : UserOf[x] = u /\ Alive(x)}
  IN /\ Alive(e)
     /\ status' = [status EXCEPT ![e] = GONE]
     /\ statusList' = [k \in User \X State |->
                         IF k[1] = u THEN {} ELSE statusList[k]]
     /\ userList' = [userList EXCEPT ![<<u, DeliveryOf[e]>>] = {}]
     /\ unlisted' = unlisted \cup mine
     /\ unattempted' = unattempted \cup
          {x \in mine : DeliveryOf[x] = DeliveryOf[e]}
     /\ answer' = NoAnswer
     /\ UNCHANGED deliveries

\* A delivery is deleted, elsewhere; its executions stay.
DeleteDelivery(d) ==
  /\ d \in deliveries
  /\ deliveries' = deliveries \ {d}
  /\ answer' = NoAnswer
  /\ UNCHANGED <<status, statusList, userList, unlisted, unattempted>>

Next ==
  \/ \E e \in Execution :
       \/ \E s \in State : Spawn(e, s) \/ SetState(e, s)
       \/ AddMetadata(e) \/ Delete(e)
  \/ \E u \in User :
       \/ \E s \in State : ByStatus(u, s)
       \/ Resumable(u)
       \/ \E d \in Delivery : UserExecutions(u, d) \/ Attempts(u, d)
  \/ \E d \in Delivery : DeleteDelivery(d)

Spec == Init /\ [][Next]_vars

-----------------------------------------------------------------------------
Registry == INSTANCE ExecutionRegistry

\* The lists implement the registry: every answer is the registry's.
ImplementsRegistry == Registry!Spec

TypeOK ==
  /\ status \in [Execution -> Stored \cup {GHOST}]
  /\ statusList \in [User \X State -> SUBSET Execution]
  /\ userList \in [User \X Delivery -> SUBSET Execution]
  /\ deliveries \subseteq Delivery
  /\ unlisted \subseteq Execution
  /\ unattempted \subseteq Execution

\* A list by status holds the user's executions in that status and no other:
\* an execution is on one list at most, and reading never meets a missing
\* record. Only those a deletion took off are absent.
IndexExact ==
  \A u \in User, s \in State :
    statusList[<<u, s>>] =
      {e \in Execution : UserOf[e] = u /\ status[e] = s /\ e \notin unlisted}

\* A list by delivery holds the user's executions of it; those a deletion
\* took off never return.
AttemptsExact ==
  \A u \in User, d \in Delivery :
    userList[<<u, d>>] =
      {e \in Execution : /\ UserOf[e] = u /\ DeliveryOf[e] = d
                         /\ Alive(e) /\ e \notin unattempted}

\* getUserExecutions finds every execution the user has of the delivery.
AttemptsComplete ==
  answer # NoAnswer /\ answer.query = "delivery" =>
    answer.found = {e \in Execution : /\ UserOf[e] = answer.user
                                      /\ DeliveryOf[e] = answer.arg
                                      /\ Alive(e)}
=============================================================================
