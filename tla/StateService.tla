---------------------------- MODULE StateService ----------------------------
(***************************************************************************)
(* The state service, the controllers that call it and the storage of one  *)
(* status per execution, with several requests in flight.                  *)
(*                                                                         *)
(* A request is a PHP process. It loads an execution and keeps the state   *)
(* it read in the execution object; every later test, the previous state   *)
(* of the event included, uses that copy. It then writes the new state,    *)
(* whatever the storage holds by now, and last calls the listeners.        *)
(***************************************************************************)
EXTENDS ExecutionStates

CONSTANTS Execution,          \* identifiers of delivery executions
          Request,            \* PHP processes
          Ops,                \* the operations the deployment exposes
          ReactivableStates,  \* option reactivableStates
          Engines,            \* storage implementations to choose from
          Faults,             \* which of "crash" and "sqlError" may happen
          Exclusive           \* TRUE: one request at a time per execution

AllOps     == {"run", "pause", "finish", "terminate", "unstop", "put"}
AllEngines == {"KeyValue", "Ontology", "Rds"}

ASSUME ConstantsAssumption ==
  /\ Ops \subseteq AllOps
  /\ ReactivableStates \subseteq State
  /\ Engines \subseteq AllEngines
  /\ Faults \subseteq {"crash", "sqlError"}
  /\ Exclusive \in BOOLEAN

VARIABLES
  engine,     \* the storage implementation, fixed at installation
  status,     \* status[e]: the stored state
  finishTime, \* finishTime[e]: the record has a finish time
  request,    \* request[r]: NoJob, or what request r is doing
  announced,  \* announced[e]: the state the last event about e carried
  owed,       \* executions resumed by a write whose Reactivated event is due
  disturbed   \* executions that met a stale write, crossing writes, or a fault

vars == <<engine, status, finishTime, request, announced, owed, disturbed>>

\* pc: "loaded" before the write, "stamping" between the two writes of a
\* finish in the ontology, "written" before the listeners are called.
\* seen, seenEnd: the copy in the execution object. stale: another request
\* has changed the stored state since that copy was made.
Job == [pc : {"loaded", "stamping", "written"}, op : AllOps \cup {"create"},
        exec : Execution, target : State, seen : Stored, seenEnd : BOOLEAN,
        stale : BOOLEAN]

NoJob == [pc |-> "idle"]

InFlight(r, e) == request[r].pc # "idle" /\ request[r].exec = e

\* r has changed e and its listeners have not been called yet.
Wrote(r, e) ==
  request[r].pc \in {"stamping", "written"} /\ request[r].exec = e

Interactive(s) == s \in InteractiveStates

\* Mutant: resuming a finished execution is not taken for a reactivation.
ReactivatesTerminated(q) ==
  q.op # "create" /\ q.seen = TERMINATED /\ Interactive(q.target)

\* Mutant: the previous state is not looked at.
ReactivatesAny(q) == q.op # "create" /\ Interactive(q.target)

\* setState emits DeliveryExecutionReactivated, judging by its own copy.
Reactivates(q) ==
  q.op # "create" /\ ~Interactive(q.seen) /\ Interactive(q.target)

-----------------------------------------------------------------------------

Init == /\ engine \in Engines
        /\ status = [e \in Execution |-> UNBORN]
        /\ finishTime = [e \in Execution |-> FALSE]
        /\ request = [r \in Request |-> NoJob]
        /\ announced = [e \in Execution |-> UNBORN]
        /\ owed = {}
        /\ disturbed = {}

\* A request for e may start on r: one per execution if Exclusive.
Free(r, e) ==
  /\ request[r] = NoJob
  /\ Exclusive => \A other \in Request : ~InFlight(other, e)

\* initDeliveryExecution: once authorised and assigned, a new execution is
\* stored under a fresh identifier; the Created event follows.
Create(r, e) ==
  /\ status[e] = UNBORN
  /\ Free(r, e)
  /\ status' = [status EXCEPT ![e] = InitialStatus]
  /\ request' = [request EXCEPT ![r] =
       [pc |-> "written", op |-> "create", exec |-> e,
        target |-> InitialStatus, seen |-> UNBORN, seenEnd |-> FALSE,
        stale |-> FALSE]]
  /\ UNCHANGED <<engine, finishTime, announced, owed, disturbed>>

\* The execution is loaded, and with it the state every later test looks at.
Load(r, e, op, target) ==
  /\ op \in Ops
  /\ status[e] \in State
  /\ Free(r, e)
  /\ request' = [request EXCEPT ![r] =
       [pc |-> "loaded", op |-> op, exec |-> e, target |-> target,
        seen |-> status[e], seenEnd |-> finishTime[e], stale |-> FALSE]]
  /\ UNCHANGED <<engine, status, finishTime, announced, owed, disturbed>>

\* Mutant: a run does not look at the state it resumes from.
RunAnyState(r, e) == Load(r, e, "run", ACTIVE)

\* runDeliveryExecution, with the state validation of its authorization
Run(r, e) == status[e] \in ResumableStates /\ Load(r, e, "run", ACTIVE)

Pause(r, e) == Load(r, e, "pause", PAUSED)

Finish(r, e) == Load(r, e, "finish", FINISHED)

Terminate(r, e) == Load(r, e, "terminate", TERMINATED)

\* Mutant: the state is not compared with the reactivable ones.
UnstopAnyState(r, e) == Load(r, e, "unstop", PAUSED)

\* RestExecution::unstop first asks the execution whether it exists, which
\* the SQL implementation has no method for: the request fails.
Unstop(r, e) ==
  /\ engine # "Rds"
  /\ status[e] \in ReactivableStates
  /\ Load(r, e, "unstop", PAUSED)

\* Mutant: the REST resource passes on whatever it is sent.
PutUnchecked(r, e) ==
  \E target \in Stored : status[e] # target /\ Load(r, e, "put", target)

\* DeliveryExecutionState::put, through legacyTransition
Put(r, e) ==
  \E target \in DeliveriesStates :
    status[e] # target /\ Load(r, e, "put", target)

\* The request ends before any write: authorisation refused, not the owner,
\* already in that state by its own copy, or the process died.
Leave(r) ==
  /\ request[r].pc = "loaded"
  /\ request' = [request EXCEPT ![r] = NoJob]
  /\ UNCHANGED <<engine, status, finishTime, announced, owed, disturbed>>

\* Mark the copies of e that a change of its record leaves out of date.
Outdate(req, e) ==
  [r \in Request |->
     IF req[r].pc = "loaded" /\ req[r].exec = e
     THEN [req[r] EXCEPT !.stale = TRUE] ELSE req[r]]

\* Mutant: the SQL update leaves the finish time out.
EndAfterNoUpdate(q) ==
  CASE engine = "KeyValue" -> q.target = FINISHED \/ q.seenEnd
    [] engine = "Ontology" -> finishTime[q.exec]
    [] engine = "Rds"      -> finishTime[q.exec]

\* Mutant: the key-value copy is written back without its finish time.
EndAfterForgets(q) ==
  CASE engine = "KeyValue" -> q.target = FINISHED
    [] engine = "Ontology" -> finishTime[q.exec]
    [] engine = "Rds"      -> q.target = FINISHED \/ finishTime[q.exec]

\* The finish time after q's write: the key-value engine writes its whole
\* copy back, the ontology adds the time in a second write.
EndAfter(q) ==
  CASE engine = "KeyValue" -> q.target = FINISHED \/ q.seenEnd
    [] engine = "Ontology" -> finishTime[q.exec]
    [] engine = "Rds"      -> q.target = FINISHED \/ finishTime[q.exec]

\* setState writes the target state over whatever is stored. For a deleted
\* execution a key-value or ontology write brings an entry back, an SQL
\* update matches no row.
Write(r) ==
  LET q == request[r]
      e == q.exec
      found == status[e] \in State \/ engine # "Rds"
  IN /\ q.pc = "loaded"
     /\ q.seen # q.target
     /\ status' = IF found THEN [status EXCEPT ![e] = q.target] ELSE status
     /\ finishTime' =
          IF found THEN [finishTime EXCEPT ![e] = EndAfter(q)] ELSE finishTime
     /\ owed' = IF found /\ ~Interactive(status[e]) /\ Interactive(q.target)
                THEN owed \cup {e} ELSE owed
     /\ request' = Outdate(
          [request EXCEPT ![r].pc =
             IF engine = "Ontology" /\ q.target = FINISHED
             THEN "stamping" ELSE "written"], e)
     /\ disturbed' = IF q.stale \/ \E other \in Request : Wrote(other, e)
                     THEN disturbed \cup {e} ELSE disturbed
     /\ UNCHANGED <<engine, announced>>

\* The second write of OntologyDeliveryExecution::setState.
Stamp(r) ==
  /\ request[r].pc = "stamping"
  /\ finishTime' = [finishTime EXCEPT ![request[r].exec] = TRUE]
  /\ request' = [request EXCEPT ![r].pc = "written"]
  /\ UNCHANGED <<engine, status, announced, owed, disturbed>>

\* updateDeliveryExecutionState catches every exception and returns false;
\* the state service goes on and triggers its events.
WriteFails(r) ==
  /\ "sqlError" \in Faults /\ engine = "Rds"
  /\ request[r].pc = "loaded"
  /\ request[r].seen # request[r].target
  /\ request' = [request EXCEPT ![r].pc = "written"]
  /\ disturbed' = disturbed \cup {request[r].exec}
  /\ UNCHANGED <<engine, status, finishTime, announced, owed>>

\* Mutant: the event carries the previous state.
AnnouncePrevious(r) ==
  LET q == request[r]
  IN /\ q.pc = "written"
     /\ announced' = [announced EXCEPT ![q.exec] = q.seen]
     /\ owed' = IF Reactivates(q) THEN owed \ {q.exec} ELSE owed
     /\ request' = [request EXCEPT ![r] = NoJob]
     /\ UNCHANGED <<engine, status, finishTime, disturbed>>

\* Mutant: no event follows a creation.
AnnounceChanges(r) ==
  LET q == request[r]
  IN /\ q.pc = "written"
     /\ announced' = IF q.op = "create" THEN announced
                     ELSE [announced EXCEPT ![q.exec] = q.target]
     /\ owed' = IF Reactivates(q) THEN owed \ {q.exec} ELSE owed
     /\ request' = [request EXCEPT ![r] = NoJob]
     /\ UNCHANGED <<engine, status, finishTime, disturbed>>

\* The listeners of the State event are called, then those of the Reactivated
\* event if there is one, synchronously; the request ends.
Announce(r) ==
  LET q == request[r]
  IN /\ q.pc = "written"
     /\ announced' = [announced EXCEPT ![q.exec] = q.target]
     /\ owed' = IF Reactivates(q) THEN owed \ {q.exec} ELSE owed
     /\ request' = [request EXCEPT ![r] = NoJob]
     /\ UNCHANGED <<engine, status, finishTime, disturbed>>

\* The process dies between the two events of a reactivation: the listeners
\* hear of the new state and not that the execution is back.
AnnounceInPart(r) ==
  LET q == request[r]
  IN /\ "crash" \in Faults
     /\ q.pc = "written" /\ Reactivates(q)
     /\ announced' = [announced EXCEPT ![q.exec] = q.target]
     /\ request' = [request EXCEPT ![r] = NoJob]
     /\ disturbed' = disturbed \cup {q.exec}
     /\ UNCHANGED <<engine, status, finishTime, owed>>

\* The process dies after its write and before any event.
Crash(r) ==
  /\ "crash" \in Faults
  /\ request[r].pc \in {"stamping", "written"}
  /\ disturbed' = disturbed \cup {request[r].exec}
  /\ request' = [request EXCEPT ![r] = NoJob]
  /\ UNCHANGED <<engine, status, finishTime, announced, owed>>

\* DeliveryExecutionDeleteService removes the execution; it triggers no event.
Delete(e) ==
  /\ status[e] \in State
  /\ Exclusive => \A r \in Request : ~InFlight(r, e)
  /\ status' = [status EXCEPT ![e] = GONE]
  /\ finishTime' = [finishTime EXCEPT ![e] = FALSE]
  /\ request' = Outdate(request, e)
  /\ UNCHANGED <<engine, announced, owed, disturbed>>

Next ==
  \/ \E r \in Request, e \in Execution :
       \/ Create(r, e) \/ Run(r, e) \/ Pause(r, e) \/ Finish(r, e)
       \/ Terminate(r, e) \/ Unstop(r, e) \/ Put(r, e)
  \/ \E r \in Request : \/ Leave(r) \/ Write(r) \/ Stamp(r)
                        \/ WriteFails(r) \/ Announce(r)
                        \/ AnnounceInPart(r) \/ Crash(r)
  \/ \E e \in Execution : Delete(e)

Spec == Init /\ [][Next]_vars

-----------------------------------------------------------------------------
TypeOK ==
  /\ engine \in Engines
  /\ status \in [Execution -> Stored]
  /\ finishTime \in [Execution -> BOOLEAN]
  /\ request \in [Request -> Job \cup {NoJob}]
  /\ announced \in [Execution -> Stored]
  /\ owed \subseteq Execution
  /\ disturbed \subseteq Execution

Settled(e) == e \notin disturbed /\ \A r \in Request : ~Wrote(r, e)

\* The listeners of the state events know the state of every execution,
\* unless one of the named mishaps befell it: writes that cross each other,
\* a write from an outdated copy, a process or a query that failed.
AuditExact ==
  \A e \in Execution :
    status[e] \in State /\ Settled(e) => announced[e] = status[e]

\* The previous state an event carries is the state the event before it
\* carried: the trail of an undisturbed execution is a chain without gaps.
EventsChain ==
  [][\A r \in Request :
       Announce(r) /\ request[r].exec \notin disturbed
         => request[r].seen = announced[request[r].exec]]_vars

\* No execution comes back from a non-interactive state without a
\* Reactivated event to follow.
ReactivationsHeard ==
  \A e \in Execution : e \in owed => ~Settled(e)

\* No Reactivated event for an execution that was not brought back.
NoSpuriousReactivation ==
  [][\A r \in Request :
       /\ Announce(r) /\ Reactivates(request[r])
       /\ request[r].exec \notin disturbed
       => request[r].exec \in owed]_vars

\* Finished executions carry a finish time.
FinishedHasTime ==
  \A e \in Execution : status[e] = FINISHED /\ Settled(e) => finishTime[e]

\* A stored finish time is lost with its execution only, or to a request that
\* writes an outdated copy of the record back.
TimeKept ==
  [][\A e \in Execution : finishTime[e] /\ ~finishTime'[e] =>
       \/ status'[e] = GONE
       \/ \E r \in Request :
            Write(r) /\ request[r].exec = e /\ request[r].stale]_vars

\* Only a request with an outdated copy resumes an execution that ended, or
\* brings a deleted one back.
RevivalNeedsStaleCopy ==
  [][\A r \in Request : Write(r) =>
       LET q == request[r] IN
       \/ q.stale
       \/ /\ status'[q.exec] # GONE => status[q.exec] \in State
          /\ q.op = "run" => status[q.exec] \in ResumableStates]_vars

\* An execution that ended comes back by an outdated copy, by a pause or a
\* state set over REST, which test nothing, or by an unstop its state permits.
RevivalPermitted ==
  [][\A e \in Execution :
       ~Interactive(status[e]) /\ status[e] \in State /\ Interactive(status'[e]) =>
         \E r \in Request :
           /\ Write(r) /\ request[r].exec = e
           /\ \/ request[r].stale
              \/ request[r].op \in {"pause", "put"}
              \/ /\ request[r].op = "unstop" /\ engine # "Rds"
                 /\ status[e] \in ReactivableStates]_vars

\* The state the listeners know once the request in progress has ended.
Heard == [e \in Execution |->
            IF \E r \in Request : Wrote(r, e) THEN status[e] ELSE announced[e]]

Lifecycle == INSTANCE ExecutionLifecycle WITH state <- status, heard <- Heard

\* One request at a time per execution and no faults: the requests implement
\* the promised life cycle, every move permitted and heard by the listeners.
ImplementsLifecycle == Lifecycle!Spec

\* getFinishTime answers null for an execution that is not finished.
NoTimeUnlessFinished ==
  \A e \in Execution : finishTime[e] => status[e] = FINISHED

\* A terminated execution can be unstopped, if the reactivable states and
\* the deployment allow it and a process is free, whichever engine stores it.
UnstopPossible ==
  \A r \in Request, e \in Execution :
    /\ "unstop" \in Ops /\ Free(r, e)
    /\ status[e] = TERMINATED /\ TERMINATED \in ReactivableStates
    => ENABLED Unstop(r, e)

\* A run resumes a stored execution from a resumable state only.
RunResumesResumable ==
  [][\A r \in Request :
       Write(r) /\ request[r].op = "run"
         => status[request[r].exec] \in ResumableStates \cup {GONE}]_vars
=============================================================================
