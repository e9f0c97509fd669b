-------------------------- MODULE ExecutionCounter --------------------------
(***************************************************************************)
(* DeliveryExecutionCounterService: a count of executions per state, kept  *)
(* in a key-value persistence by listening to the events of the state      *)
(* service. The listener runs inside the request whose event it hears and  *)
(* makes each of its calls to the persistence separately; between them     *)
(* the requests of StateService and their listeners go on.                 *)
(***************************************************************************)
EXTENDS StateService, Integers, FiniteSets

ASSUME FiniteAssumption == IsFiniteSet(Execution)

VARIABLES
  keys,       \* the states whose key exists
  count,      \* count[s]: the number under the key of s, 0 if there is none
  listener,   \* listener[r]: NoEvent, or the event request r is counting
  located,    \* located[e]: the state e is counted in, or nowhere
  clobbered,  \* states whose key was set to 1 although it existed by then
  muddled     \* executions whose events were counted at the same time, or
              \* not to the end

countVars == <<keys, count, listener, located, clobbered, muddled>>

Nowhere == "nowhere"

\* leave: the old state is to be looked up. decrement: its count is positive.
\* enter: the new state is to be looked up. first, increment: it was, and its
\* key was missing, or there.
CountJob == [pc : {"leave", "decrement", "enter", "first", "increment"},
             exec : Execution, from : Stored, to : State]

NoEvent == [pc |-> "idle"]

Counting(r, e) == listener[r].pc # "idle" /\ listener[r].exec = e

CountInit ==
  /\ Init
  /\ keys = {} /\ clobbered = {} /\ muddled = {}
  /\ count = [s \in State |-> 0]
  /\ listener = [r \in Request |-> NoEvent]
  /\ located = [e \in Execution |-> Nowhere]

\* Executions whose events overlap when r announces a change of e.
Overlap(r, e) == IF \E o \in Request : Counting(o, e) THEN {e} ELSE {}

\* Mutant: the listener takes the previous state for the new one.
EnteredPrevious(q) ==
  IF q.op = "create" THEN q.target ELSE q.seen

\* The Created event carries the execution object; in the ontology, asking it
\* for its state reads the storage.
Entered(q) ==
  IF q.op = "create" /\ engine = "Ontology" THEN status[q.exec] ELSE q.target

-----------------------------------------------------------------------------
\* executionCreated or executionStateChanged is called with the event, be it
\* the last one the process triggers before it dies.
Hear(r) ==
  LET q == request[r]
  IN /\ listener[r] = NoEvent
     /\ Announce(r) \/ AnnounceInPart(r)
     /\ Entered(q) \in State
     /\ listener' = [listener EXCEPT ![r] =
          [pc |-> IF q.op = "create" THEN "enter" ELSE "leave",
           exec |-> q.exec, from |-> q.seen, to |-> Entered(q)]]
     /\ muddled' = muddled \cup Overlap(r, q.exec)
     /\ UNCHANGED <<keys, count, located, clobbered>>

\* A created execution was deleted before the ontology was asked for its
\* state: nothing is counted.
HearInVain(r) ==
  LET q == request[r]
  IN /\ listener[r] = NoEvent
     /\ Announce(r)
     /\ Entered(q) \notin State
     /\ muddled' = muddled \cup {q.exec}
     /\ UNCHANGED <<keys, count, listener, located, clobbered>>

Step(r, pc) == listener' = [listener EXCEPT ![r].pc = pc]

\* Mutant: the old state is decremented only if its count exceeds one.
LookUpOldKeepsOne(r) ==
  /\ listener[r].pc = "leave"
  /\ LET s == listener[r].from
     IN Step(r, IF s \in keys /\ count[s] > 1 THEN "decrement" ELSE "enter")
  /\ UNCHANGED <<vars, keys, count, located, clobbered, muddled>>

\* The old state is decremented if its key exists and its count is positive.
LookUpOld(r) ==
  /\ listener[r].pc = "leave"
  /\ LET s == listener[r].from
     IN Step(r, IF s \in keys /\ count[s] > 0 THEN "decrement" ELSE "enter")
  /\ UNCHANGED <<vars, keys, count, located, clobbered, muddled>>

\* Mutant: the key of the new state is decremented.
DecrementNew(r) ==
  /\ listener[r].pc = "decrement"
  /\ count' = [count EXCEPT ![listener[r].to] = @ - 1]
  /\ located' = [located EXCEPT ![listener[r].exec] = Nowhere]
  /\ Step(r, "enter")
  /\ UNCHANGED <<vars, keys, clobbered, muddled>>

Decrement(r) ==
  /\ listener[r].pc = "decrement"
  /\ count' = [count EXCEPT ![listener[r].from] = @ - 1]
  /\ located' = [located EXCEPT ![listener[r].exec] = Nowhere]
  /\ Step(r, "enter")
  /\ UNCHANGED <<vars, keys, clobbered, muddled>>

LookUpNew(r) ==
  /\ listener[r].pc = "enter"
  /\ Step(r, IF listener[r].to \in keys THEN "increment" ELSE "first")
  /\ UNCHANGED <<vars, keys, count, located, clobbered, muddled>>

Counted(r) ==
  /\ located' = [located EXCEPT ![listener[r].exec] = listener[r].to]
  /\ listener' = [listener EXCEPT ![r] = NoEvent]

\* The new state has no key yet: it is set to 1.
First(r) ==
  LET s == listener[r].to
  IN /\ listener[r].pc = "first"
     /\ count' = [count EXCEPT ![s] = 1]
     /\ keys' = keys \cup {s}
     /\ clobbered' = clobbered \cup (IF s \in keys THEN {s} ELSE {})
     /\ Counted(r)
     /\ UNCHANGED <<vars, muddled>>

Increment(r) ==
  /\ listener[r].pc = "increment"
  /\ count' = [count EXCEPT ![listener[r].to] = @ + 1]
  /\ Counted(r)
  /\ UNCHANGED <<vars, keys, clobbered, muddled>>

\* The process dies while it counts.
CrashCounting(r) ==
  /\ "crash" \in Faults
  /\ listener[r] # NoEvent
  /\ muddled' = muddled \cup {listener[r].exec}
  /\ listener' = [listener EXCEPT ![r] = NoEvent]
  /\ UNCHANGED <<vars, keys, count, located, clobbered>>

\* The requests go on; one that is counting does not begin another.
Serve ==
  /\ \/ \E r \in Request, e \in Execution :
          /\ listener[r] = NoEvent
          /\ \/ Create(r, e) \/ Run(r, e) \/ Pause(r, e) \/ Finish(r, e)
             \/ Terminate(r, e) \/ Unstop(r, e) \/ Put(r, e)
     \/ \E r \in Request :
          Leave(r) \/ Write(r) \/ Stamp(r) \/ WriteFails(r) \/ Crash(r)
     \/ \E e \in Execution : Delete(e)
  /\ UNCHANGED countVars

CountNext ==
  \/ Serve
  \/ \E r \in Request :
       \/ Hear(r) \/ HearInVain(r) \/ LookUpOld(r) \/ Decrement(r)
       \/ LookUpNew(r) \/ First(r) \/ Increment(r) \/ CrashCounting(r)

CountSpec == CountInit /\ [][CountNext]_<<vars, countVars>>

-----------------------------------------------------------------------------
CountTypeOK ==
  /\ keys \subseteq State
  /\ count \in [State -> Int]
  /\ listener \in [Request -> CountJob \cup {NoEvent}]
  /\ located \in [Execution -> State \cup {Nowhere}]
  /\ clobbered \subseteq State
  /\ muddled \subseteq Execution

\* No execution met a mishap.
Orderly == disturbed = {} /\ muddled = {}

\* At rest the count of a state is the number of executions whose last event
\* named that state, however the listeners interleaved, unless events of one
\* execution overlapped, a request failed, or a key was created twice.
CountsHeard ==
  Orderly /\ (\A r \in Request : listener[r] = NoEvent) =>
    \A s \in State \ clobbered :
      count[s] = Cardinality({e \in Execution : announced[e] = s})

\* Under the same conditions no count is ever negative: of two events that
\* leave a state at the same time, neither takes the other's unit.
NeverNegative == Orderly => \A s \in State \ clobbered : count[s] >= 0

\* The state an execution is stored in, or was last heard of in if deleted.
LastKnown(e) == IF status[e] = GONE THEN announced[e] ELSE status[e]

\* When everything has come to rest and no key was created twice, each count
\* is the number of executions stored in that state and of those deleted from
\* it: the counts differ from the storage by deletions and nothing else.
CountsStoredOrDeleted ==
  Orderly /\ clobbered = {} /\ (\A r \in Request : listener[r] = NoEvent)
          /\ (\A e \in Execution : Settled(e)) =>
    \A s \in State : count[s] = Cardinality({e \in Execution : LastKnown(e) = s})

\* count() answers the number of executions in a state.
CountsStored ==
  Orderly /\ clobbered = {} /\ (\A r \in Request : listener[r] = NoEvent)
          /\ (\A e \in Execution : Settled(e)) =>
    \A s \in State : count[s] = Cardinality({e \in Execution : status[e] = s})
=============================================================================
