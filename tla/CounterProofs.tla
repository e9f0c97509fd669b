--------------------------- MODULE CounterProofs ---------------------------
(***************************************************************************)
(* The counts follow the events, for any number of executions whose        *)
(* listeners interleave: the invariant says of every execution in which    *)
(* count it is, or that a listener is moving it.                           *)
(***************************************************************************)
EXTENDS ExecutionCounter, StateServiceProofs, FiniteSetTheorems

\* A missing key counts nothing; a key that was found stays.
KeysKept ==
  /\ \A s \in State \ keys : count[s] = 0
  /\ \A r \in Request :
       /\ listener[r].pc = "decrement" => listener[r].from \in keys
       /\ listener[r].pc = "increment" => listener[r].to \in keys

\* A creation started from nothing.
CreatedFresh ==
  \A r \in Request :
    request[r].pc # "idle" /\ request[r].op = "create" => request[r].seen = UNBORN

\* Events of one execution are counted by one request at a time.
OneCounts ==
  Orderly =>
    \A r1, r2 \in Request : \A e \in Execution :
      Counting(r1, e) /\ Counting(r2, e) => r1 = r2

\* Where an execution is counted while its event is being counted ...
Moving ==
  Orderly =>
    \A r \in Request : listener[r].pc # "idle" =>
      LET q == listener[r] IN
        /\ announced[q.exec] = q.to
        /\ q.pc \in {"leave", "decrement"} =>
             \/ located[q.exec] = q.from
             \/ q.from \notin State /\ located[q.exec] = Nowhere
        /\ q.pc \in {"enter", "first", "increment"} =>
             located[q.exec] \in {Nowhere} \cup clobbered

\* ... and while none is: in the state the last event named, if any.
Resting ==
  Orderly =>
    \A e \in Execution : (\A r \in Request : ~Counting(r, e)) =>
      \/ located[e] = announced[e]
      \/ announced[e] \notin State /\ located[e] = Nowhere

In(s) == {e \in Execution : located[e] = s}

CountsLocated ==
  Orderly => \A s \in State \ clobbered : count[s] = Cardinality(In(s))

CInv == /\ Trail /\ CountTypeOK /\ KeysKept /\ CreatedFresh
        /\ OneCounts /\ Moving /\ Resting /\ CountsLocated

-----------------------------------------------------------------------------
\* The executions counted in a state are finitely many, and some if one is.
LEMMA InSize ==
  ASSUME NEW s
  PROVE  /\ IsFiniteSet(In(s)) /\ Cardinality(In(s)) \in Nat
         /\ \A e \in Execution : located[e] = s => Cardinality(In(s)) > 0
<1>1. IsFiniteSet(In(s))
  BY FiniteAssumption, FS_Subset DEF In
<1>2. Cardinality(In(s)) \in Nat
  BY <1>1, FS_CardinalityType
<1>3. ASSUME NEW e \in Execution, located[e] = s
      PROVE  Cardinality(In(s)) > 0
  <2>1. In(s) # {}
    BY <1>3 DEF In
  <2>2. Cardinality(In(s)) # 0
    BY <1>1, <2>1, FS_EmptySet
  <2>3. QED
    BY <1>2, <2>2
<1>4. QED
  BY <1>1, <1>2, <1>3

\* No state is called that.
LEMMA NowhereNew == Nowhere \notin State
BY DEF Nowhere, State, ACTIVE, PAUSED, FINISHED, TERMINATED

\* The executions counted in a state after a step.
After(s) == {e \in Execution : located'[e] = s}

\* Moving an execution changes the sizes of the two states by one.
LEMMA MoveSizes ==
  ASSUME CountTypeOK, NEW e \in Execution, NEW s,
         \A x \in Execution : x # e => located'[x] = located[x]
  PROVE  /\ located[e] = s /\ located'[e] # s =>
              Cardinality(After(s)) = Cardinality(In(s)) - 1
         /\ located[e] # s /\ located'[e] = s =>
              Cardinality(After(s)) = Cardinality(In(s)) + 1
         /\ located[e] # s /\ located'[e] # s =>
              Cardinality(After(s)) = Cardinality(In(s))
<1>1. IsFiniteSet(In(s))
  BY InSize
<1>2. ASSUME located[e] = s, located'[e] # s
      PROVE  Cardinality(After(s)) = Cardinality(In(s)) - 1
  <2>1. After(s) = In(s) \ {e} /\ e \in In(s)
    BY <1>2 DEF In, After
  <2>2. QED
    BY <1>1, <2>1, FS_RemoveElement
<1>3. ASSUME located[e] # s, located'[e] = s
      PROVE  Cardinality(After(s)) = Cardinality(In(s)) + 1
  <2>1. After(s) = In(s) \cup {e} /\ e \notin In(s)
    BY <1>3 DEF In, After
  <2>2. QED
    BY <1>1, <2>1, FS_AddElement
<1>4. ASSUME located[e] # s, located'[e] # s
      PROVE  Cardinality(After(s)) = Cardinality(In(s))
  <2>1. After(s) = In(s)
    BY <1>4 DEF In, After
  <2>2. QED
    BY <2>1
<1>5. QED
  BY <1>2, <1>3, <1>4

LEMMA InitCInv == CountInit => CInv
<1> SUFFICES ASSUME CountInit PROVE CInv
  OBVIOUS
<1>1. Trail
  BY InitTrail DEF CountInit
<1>2. CountTypeOK
  BY DEF CountInit, CountTypeOK, Nowhere
<1>3. \A r \in Request : listener[r].pc = "idle" /\ request[r].pc = "idle"
  BY DEF CountInit, Init, NoEvent, NoJob
<1>4. KeysKept /\ CreatedFresh /\ OneCounts /\ Moving
  BY <1>3 DEF CountInit, KeysKept, CreatedFresh, OneCounts, Moving, Counting
<1>5. Resting
  BY StateFacts DEF CountInit, Init, Resting
<1>6. CountsLocated
  <2>1. ASSUME NEW s \in State PROVE In(s) = {}
    BY DEF CountInit, In, Nowhere, State, ACTIVE, PAUSED, FINISHED, TERMINATED
  <2>2. QED
    BY <2>1, FS_EmptySet DEF CountInit, CountsLocated
<1>7. QED
  BY <1>1, <1>2, <1>4, <1>5, <1>6 DEF CInv

-----------------------------------------------------------------------------
\* No step makes a creation start from anything.
LEMMA FreshKept ==
  ASSUME Trail, CreatedFresh, [Next]_vars
  PROVE  CreatedFresh'
<1> DEFINE Good(q) == q.pc # "idle" /\ q.op = "create" => q.seen = UNBORN
<1>1. TypeOK /\ \A x \in Request : Good(request[x])
  BY DEF Trail, CreatedFresh
<1>2. SUFFICES \A x \in Request : Good(request'[x])
  BY DEF CreatedFresh
<1> HIDE DEF Good
<1>3. ASSUME NEW r \in Request, NEW q,
             request' = [request EXCEPT ![r] = q], Good(q)
      PROVE  \A x \in Request : Good(request'[x])
  BY <1>1, <1>3 DEF TypeOK
<1>4. ASSUME NEW r \in Request, NEW e \in Execution, Create(r, e)
      PROVE  \A x \in Request : Good(request'[x])
  <2> DEFINE q == [pc |-> "written", op |-> "create", exec |-> e,
                   target |-> InitialStatus, seen |-> UNBORN,
                   seenEnd |-> FALSE, stale |-> FALSE]
  <2>1. request' = [request EXCEPT ![r] = q]
    BY <1>4 DEF Create
  <2>2. q.seen = UNBORN
    OBVIOUS
  <2> HIDE DEF q
  <2>3. QED
    BY <1>3, <2>1, <2>2 DEF Good
<1>5. ASSUME NEW r \in Request, NEW e \in Execution, NEW op, NEW target,
             Load(r, e, op, target)
      PROVE  \A x \in Request : Good(request'[x])
  <2> DEFINE q == [pc |-> "loaded", op |-> op, exec |-> e, target |-> target,
                   seen |-> status[e], seenEnd |-> finishTime[e],
                   stale |-> FALSE]
  <2>1. request' = [request EXCEPT ![r] = q]
    BY <1>5 DEF Load
  <2>2. q.op = op
    OBVIOUS
  <2>3. op # "create"
    BY <1>5, ConstantsAssumption DEF Load, AllOps
  <2> HIDE DEF q
  <2>4. QED
    BY <1>3, <2>1, <2>2, <2>3 DEF Good
<1>6. ASSUME NEW r \in Request, request' = [request EXCEPT ![r] = NoJob]
      PROVE  \A x \in Request : Good(request'[x])
  BY <1>3, <1>6 DEF Good, NoJob
<1>7. ASSUME NEW r \in Request, NEW pc \in {"stamping", "written"},
             request[r].pc # "idle"
      PROVE  /\ [request EXCEPT ![r].pc = pc] \in [Request -> Job \cup {NoJob}]
             /\ \A x \in Request : Good([request EXCEPT ![r].pc = pc][x])
  <2>1. request[r] \in Job
    BY <1>1, <1>7, JobType
  <2>2. /\ [request[r] EXCEPT !.pc = pc] \in Job
        /\ [request[r] EXCEPT !.pc = pc].op = request[r].op
        /\ [request[r] EXCEPT !.pc = pc].seen = request[r].seen
    BY <2>1 DEF Job
  <2>3. Good([request[r] EXCEPT !.pc = pc])
    BY <1>1, <1>7, <2>2 DEF Good
  <2>4. QED
    BY <1>1, <2>2, <2>3 DEF TypeOK
<1>8. ASSUME NEW req \in [Request -> Job \cup {NoJob}], NEW e \in Execution,
             \A x \in Request : Good(req[x])
      PROVE  \A x \in Request : Good(Outdate(req, e)[x])
  BY <1>8, OutdateFields DEF Good
<1>9. ASSUME NEW r \in Request, Write(r)
      PROVE  \A x \in Request : Good(request'[x])
  <2>1. PICK pc \in {"stamping", "written"} :
          request' = Outdate([request EXCEPT ![r].pc = pc], request[r].exec)
    BY <1>9 DEF Write
  <2>2. request[r].pc # "idle" /\ request[r].exec \in Execution
    BY <1>1, <1>9, Fields DEF Write
  <2>3. QED
    BY <1>7, <1>8, <2>1, <2>2
<1>10. ASSUME NEW r \in Request, Stamp(r) \/ WriteFails(r)
       PROVE  \A x \in Request : Good(request'[x])
  BY <1>7, <1>10 DEF Stamp, WriteFails
<1>11. ASSUME NEW e \in Execution, Delete(e)
       PROVE  \A x \in Request : Good(request'[x])
  BY <1>1, <1>8, <1>11 DEF Delete, TypeOK
<1>12. CASE UNCHANGED vars
  BY <1>1, <1>12 DEF vars
<1>13. QED
  BY <1>4, <1>5, <1>6, <1>9, <1>10, <1>11, <1>12
     DEF Next, Run, Pause, Finish, Terminate, Unstop, Put, Leave, Announce,
         AnnounceInPart, Crash

\* A request that serves changes no count, and what it disturbs stays so.
LEMMA ServeCInv ==
  ASSUME CInv, Serve
  PROVE  CInv'
<1>1. Next /\ UNCHANGED countVars
  BY DEF Serve, Next
<1>2. Trail' /\ CreatedFresh'
  BY <1>1, NextTrail, FreshKept DEF CInv
<1>3. UNCHANGED announced
  BY DEF Serve, Create, Run, Pause, Finish, Terminate, Unstop, Put, Load,
         Leave, Write, Stamp, WriteFails, Crash, Delete
<1>4. disturbed \subseteq disturbed'
  BY DEF Serve, Create, Run, Pause, Finish, Terminate, Unstop, Put, Load,
         Leave, Write, Stamp, WriteFails, Crash, Delete
<1>5. Orderly' => Orderly
  BY <1>1, <1>4 DEF Orderly, countVars
<1>6. CountTypeOK' /\ KeysKept'
  BY <1>1 DEF CInv, CountTypeOK, KeysKept, countVars
<1>7. OneCounts' /\ Moving' /\ Resting'
  BY <1>1, <1>3, <1>5 DEF CInv, OneCounts, Moving, Resting, Counting, countVars
<1>8. CountsLocated'
  BY <1>1, <1>5 DEF CInv, CountsLocated, In, countVars
<1>9. QED
  BY <1>2, <1>6, <1>7, <1>8 DEF CInv
-----------------------------------------------------------------------------
LEMMA ListenerFields ==
  ASSUME CountTypeOK, NEW r \in Request
  PROVE  /\ listener[r].pc = "idle" <=> listener[r] = NoEvent
         /\ listener[r].pc # "idle" =>
              /\ listener[r] \in CountJob
              /\ listener[r].pc \in
                   {"leave", "decrement", "enter", "first", "increment"}
              /\ listener[r].exec \in Execution
              /\ listener[r].from \in Stored /\ listener[r].to \in State
<1>1. listener[r] \in CountJob \/ listener[r] = NoEvent
  BY DEF CountTypeOK
<1>2. NoEvent.pc = "idle" /\ \A q \in CountJob : q.pc # "idle"
  BY DEF NoEvent, CountJob
<1>3. QED
  BY <1>1, <1>2 DEF CountJob

\* A step of a listener changes nothing but where it is.
LEMMA StepFields ==
  ASSUME CountTypeOK, NEW r \in Request, listener[r].pc # "idle",
         NEW pc \in {"decrement", "enter", "first", "increment"}, Step(r, pc)
  PROVE  /\ listener' \in [Request -> CountJob \cup {NoEvent}]
         /\ listener'[r].pc = pc
         /\ listener'[r].exec = listener[r].exec
         /\ listener'[r].from = listener[r].from
         /\ listener'[r].to = listener[r].to
         /\ \A o \in Request : o # r => listener'[o] = listener[o]
         /\ \A o \in Request, e \in Execution :
              Counting(o, e)' <=> Counting(o, e)
<1>1. listener[r] \in CountJob
  BY ListenerFields
<1>2. /\ [listener[r] EXCEPT !.pc = pc] \in CountJob
      /\ [listener[r] EXCEPT !.pc = pc].pc = pc
      /\ [listener[r] EXCEPT !.pc = pc].exec = listener[r].exec
      /\ [listener[r] EXCEPT !.pc = pc].from = listener[r].from
      /\ [listener[r] EXCEPT !.pc = pc].to = listener[r].to
  BY <1>1 DEF CountJob
<1>3. listener' = [listener EXCEPT ![r] = [listener[r] EXCEPT !.pc = pc]]
  BY DEF Step, CountTypeOK
<1>4. /\ listener'[r] = [listener[r] EXCEPT !.pc = pc]
      /\ \A o \in Request : o # r => listener'[o] = listener[o]
      /\ listener' \in [Request -> CountJob \cup {NoEvent}]
  BY <1>2, <1>3 DEF CountTypeOK
<1>5. QED
  BY <1>2, <1>4 DEF Counting

\* An undisturbed request announces a move from what was announced last to
\* what it wrote; in the ontology a creation reads what it wrote.
LEMMA Announces ==
  ASSUME Trail, CreatedFresh, NEW r \in Request, Announce(r)
  PROVE  LET q == request[r] IN
         /\ q.exec \in Execution /\ q.seen \in Stored
         /\ announced' = [announced EXCEPT ![q.exec] = q.target]
         /\ announced'[q.exec] = q.target
         /\ UNCHANGED disturbed
         /\ q.op = "create" => q.seen = UNBORN
         /\ q.exec \notin disturbed =>
              /\ q.seen = announced[q.exec]
              /\ Entered(q) \in State => Entered(q) = q.target
<1> DEFINE q == request[r]
<1>1. TypeOK /\ q.pc = "written"
  BY DEF Trail, Announce
<1>2. q.exec \in Execution /\ q.seen \in Stored
  BY <1>1, Fields
<1>3. Wrote(r, q.exec)
  BY <1>1 DEF Wrote
<1>4. announced' = [announced EXCEPT ![q.exec] = q.target] /\ UNCHANGED disturbed
  BY DEF Announce
<1>5. announced'[q.exec] = q.target
  BY <1>1, <1>2, <1>4 DEF TypeOK
<1>6. ASSUME q.exec \notin disturbed
      PROVE  /\ q.seen = announced[q.exec]
             /\ Entered(q) \in State => Entered(q) = q.target
  BY <1>2, <1>3, <1>6 DEF Trail, TrailFollows, WriterStored, Entered
<1>7. q.op = "create" => q.seen = UNBORN
  BY <1>1 DEF CreatedFresh
<1>8. QED
  BY <1>2, <1>4, <1>5, <1>6, <1>7

LEMMA HearAnnounce ==
  ASSUME CInv, NEW r \in Request, Hear(r), Announce(r)
  PROVE  CInv'
<1> DEFINE q == request[r]
           e == request[r].exec
           job == [pc |-> IF q.op = "create" THEN "enter" ELSE "leave",
                   exec |-> e, from |-> q.seen, to |-> Entered(q)]
<1>1. /\ listener[r] = NoEvent /\ Entered(q) \in State
      /\ listener' = [listener EXCEPT ![r] = job]
      /\ muddled' = muddled \cup Overlap(r, e)
      /\ UNCHANGED <<keys, count, located, clobbered>>
  BY DEF Hear
<1>2. /\ e \in Execution /\ q.seen \in Stored /\ UNCHANGED disturbed
      /\ announced' = [announced EXCEPT ![e] = q.target]
      /\ announced'[e] = q.target
      /\ q.op = "create" => q.seen = UNBORN
      /\ e \notin disturbed => q.seen = announced[e] /\ Entered(q) = q.target
  BY <1>1, Announces DEF CInv
<1>3. /\ job \in CountJob /\ job.exec = e /\ job.from = q.seen
      /\ job.to = Entered(q)
      /\ job.pc = IF q.op = "create" THEN "enter" ELSE "leave"
  BY <1>1, <1>2 DEF CountJob
<1>4. Next /\ [Next]_vars
  BY DEF Next
<1>5. Trail' /\ CreatedFresh'
  BY <1>4, NextTrail, FreshKept DEF CInv
<1> HIDE DEF job, q, e
<1>6. /\ listener'[r] = job
      /\ \A o \in Request : o # r => listener'[o] = listener[o]
      /\ listener' \in [Request -> CountJob \cup {NoEvent}]
  BY <1>1, <1>3 DEF CInv, CountTypeOK
<1>7. \A x \in Execution : x # e => announced'[x] = announced[x]
  BY <1>2
<1>8. CountTypeOK'
  BY <1>1, <1>2, <1>6 DEF CInv, CountTypeOK, Overlap
<1>9. KeysKept'
  BY <1>1, <1>3, <1>6 DEF CInv, KeysKept
<1>10. listener[r].pc = "idle"
  BY <1>1 DEF NoEvent
<1>11. ASSUME Orderly'
       PROVE  /\ Orderly /\ e \notin disturbed
              /\ \A o \in Request : ~Counting(o, e)
  BY <1>1, <1>2, <1>11 DEF Orderly, Overlap
<1>12. \A o \in Request : \A x \in Execution :
         Counting(o, x)' <=> IF o = r THEN x = e ELSE Counting(o, x)
  BY <1>3, <1>6 DEF Counting
<1>13. OneCounts'
  BY <1>11, <1>12 DEF CInv, OneCounts
<1>14. ASSUME Orderly'
       PROVE  \/ located[e] = q.seen
              \/ q.seen \notin State /\ located[e] = Nowhere
  BY <1>2, <1>11, <1>14 DEF CInv, Resting
<1>15. q.op = "create" => q.seen \notin State
  BY <1>2, StateFacts
<1>16. Moving'
  <2> SUFFICES ASSUME Orderly', NEW o \in Request, listener'[o].pc # "idle"
               PROVE  /\ announced'[listener'[o].exec] = listener'[o].to
                      /\ listener'[o].pc \in {"leave", "decrement"} =>
                           \/ located[listener'[o].exec] = listener'[o].from
                           \/ /\ listener'[o].from \notin State
                              /\ located[listener'[o].exec] = Nowhere
                      /\ listener'[o].pc \in {"enter", "first", "increment"} =>
                           located[listener'[o].exec] \in {Nowhere} \cup clobbered
    BY <1>1 DEF Moving
  <2>1. CASE o = r
    <3>1. listener'[o] = job /\ job.exec = e /\ job.to = q.target
      BY <1>2, <1>3, <1>6, <1>11, <2>1
    <3>2. CASE q.op = "create"
      <4>1. located[e] \in State \cup {Nowhere}
        BY <1>2 DEF CInv, CountTypeOK
      <4>2. located[e] = Nowhere
        BY <1>14, <1>15, <3>2, <4>1, StateFacts
      <4>3. QED
        BY <1>2, <1>3, <3>1, <3>2, <4>2
    <3>3. CASE q.op # "create"
      BY <1>2, <1>3, <1>14, <3>1, <3>3
    <3>4. QED
      BY <3>2, <3>3
  <2>2. CASE o # r
    <3>1. listener'[o] = listener[o] /\ listener[o].exec \in Execution
      BY <1>6, <2>2, ListenerFields DEF CInv
    <3>2. listener[o].exec # e
      BY <1>11, <3>1 DEF Counting
    <3>3. QED
      BY <1>7, <1>11, <3>1, <3>2 DEF CInv, Moving
  <2>3. QED
    BY <2>1, <2>2
<1>17. Resting'
  <2> SUFFICES ASSUME Orderly', NEW x \in Execution,
                      \A o \in Request : ~Counting(o, x)'
               PROVE  \/ located[x] = announced'[x]
                      \/ announced'[x] \notin State /\ located[x] = Nowhere
    BY <1>1 DEF Resting
  <2>1. x # e /\ \A o \in Request : o # r => ~Counting(o, x)
    BY <1>12
  <2>2. ~Counting(r, x)
    BY <1>10 DEF Counting
  <2>3. QED
    BY <1>7, <1>11, <2>1, <2>2 DEF CInv, Resting
<1>18. CountsLocated'
  BY <1>1, <1>11 DEF CInv, CountsLocated, In
<1>19. QED
  BY <1>5, <1>8, <1>9, <1>13, <1>16, <1>17, <1>18 DEF CInv

\* The event is the last its process triggers: the execution is disturbed and
\* nothing is asked of the counts.
LEMMA HearInPart ==
  ASSUME CInv, NEW r \in Request, Hear(r), AnnounceInPart(r)
  PROVE  CInv'
<1> DEFINE q == request[r]
           job == [pc |-> IF q.op = "create" THEN "enter" ELSE "leave",
                   exec |-> q.exec, from |-> q.seen, to |-> Entered(q)]
<1>1. /\ listener[r] = NoEvent /\ Entered(q) \in State
      /\ listener' = [listener EXCEPT ![r] = job]
      /\ muddled' = muddled \cup Overlap(r, q.exec)
      /\ UNCHANGED <<keys, count, located, clobbered>>
  BY DEF Hear
<1>2. q.exec \in Execution /\ q.seen \in Stored
  BY Fields DEF AnnounceInPart, CInv, Trail
<1>3. Trail' /\ CreatedFresh' /\ ~Orderly'
  <2>1. [Next]_vars
    BY DEF Next
  <2>2. QED
    BY <2>1, NextTrail, FreshKept DEF AnnounceInPart, Orderly, CInv
<1>4. /\ job \in CountJob /\ job.pc \in {"enter", "leave"}
  BY <1>1, <1>2 DEF CountJob
<1> HIDE DEF job
<1>5. /\ listener'[r] = job
      /\ \A o \in Request : o # r => listener'[o] = listener[o]
      /\ listener' \in [Request -> CountJob \cup {NoEvent}]
  BY <1>1, <1>4 DEF CInv, CountTypeOK
<1>6. CountTypeOK'
  BY <1>1, <1>2, <1>5 DEF CInv, CountTypeOK, Overlap
<1>7. KeysKept'
  BY <1>1, <1>4, <1>5 DEF CInv, KeysKept
<1>8. OneCounts' /\ Moving' /\ Resting' /\ CountsLocated'
  BY <1>3 DEF OneCounts, Moving, Resting, CountsLocated
<1>9. QED
  BY <1>3, <1>6, <1>7, <1>8 DEF CInv

LEMMA HearCInv ==
  ASSUME CInv, NEW r \in Request, Hear(r)
  PROVE  CInv'
BY HearAnnounce, HearInPart DEF Hear

\* Nothing is asked of a state with an execution that met a mishap.
LEMMA MuddledCInv ==
  ASSUME CInv, NEW e \in Execution, muddled' = muddled \cup {e},
         Trail', CreatedFresh', UNCHANGED <<keys, count, located, clobbered>>,
         listener' \in [Request -> CountJob \cup {NoEvent}],
         \A r \in Request : listener'[r] \in {listener[r], NoEvent}
  PROVE  CInv'
<1>1. ~Orderly'
  BY DEF Orderly
<1>2. CountTypeOK'
  BY DEF CInv, CountTypeOK
<1>3. KeysKept'
  BY DEF CInv, KeysKept, NoEvent
<1>4. OneCounts' /\ Moving' /\ Resting' /\ CountsLocated'
  BY <1>1 DEF OneCounts, Moving, Resting, CountsLocated
<1>5. QED
  BY <1>2, <1>3, <1>4 DEF CInv

LEMMA HearInVainCInv ==
  ASSUME CInv, NEW r \in Request, HearInVain(r)
  PROVE  CInv'
<1>1. /\ Announce(r) /\ muddled' = muddled \cup {request[r].exec}
      /\ UNCHANGED <<keys, count, listener, located, clobbered>>
  BY DEF HearInVain
<1>2. request[r].exec \in Execution
  BY <1>1, Announces DEF CInv
<1>3. [Next]_vars
  BY <1>1 DEF Next
<1>4. Trail' /\ CreatedFresh'
  BY <1>3, NextTrail, FreshKept DEF CInv
<1>5. /\ listener' \in [Request -> CountJob \cup {NoEvent}]
      /\ \A o \in Request : listener'[o] \in {listener[o], NoEvent}
  BY <1>1 DEF CInv, CountTypeOK
<1>6. QED
  BY <1>1, <1>2, <1>4, <1>5, MuddledCInv

\* Where the requests stand still, so does what is known of them.
LEMMA RequestsSame ==
  ASSUME CInv, UNCHANGED vars
  PROVE  Trail' /\ CreatedFresh' /\ UNCHANGED <<announced, disturbed>>
BY NextTrail, FreshKept DEF CInv, vars

LEMMA CrashCountingCInv ==
  ASSUME CInv, NEW r \in Request, CrashCounting(r)
  PROVE  CInv'
<1>1. /\ listener[r] # NoEvent /\ muddled' = muddled \cup {listener[r].exec}
      /\ listener' = [listener EXCEPT ![r] = NoEvent]
      /\ UNCHANGED vars /\ UNCHANGED <<keys, count, located, clobbered>>
  BY DEF CrashCounting
<1>2. listener[r].exec \in Execution
  BY <1>1, ListenerFields DEF CInv
<1>3. /\ listener' \in [Request -> CountJob \cup {NoEvent}]
      /\ \A o \in Request : listener'[o] \in {listener[o], NoEvent}
  BY <1>1 DEF CInv, CountTypeOK
<1>4. QED
  BY <1>1, <1>2, <1>3, RequestsSame, MuddledCInv

\* A listener that only looks keeps the invariant, if what it finds allows
\* its next step.
LEMMA LookCInv ==
  ASSUME CInv, NEW r \in Request, listener[r].pc # "idle",
         NEW pc \in {"decrement", "enter", "first", "increment"}, Step(r, pc),
         UNCHANGED vars,
         UNCHANGED <<keys, count, located, clobbered, muddled>>,
         pc = "decrement" => /\ listener[r].from \in keys
                             /\ listener[r].pc = "leave",
         pc = "increment" => listener[r].to \in keys,
         Orderly /\ pc \in {"enter", "first", "increment"} =>
           located[listener[r].exec] \in {Nowhere} \cup clobbered
  PROVE  CInv'
<1>1. Trail' /\ CreatedFresh' /\ UNCHANGED <<announced, disturbed>>
  BY RequestsSame
<1>2. /\ listener' \in [Request -> CountJob \cup {NoEvent}]
      /\ listener'[r].pc = pc
      /\ listener'[r].exec = listener[r].exec
      /\ listener'[r].from = listener[r].from
      /\ listener'[r].to = listener[r].to
      /\ \A o \in Request : o # r => listener'[o] = listener[o]
      /\ \A o \in Request, e \in Execution : Counting(o, e)' <=> Counting(o, e)
  BY StepFields DEF CInv
<1>3. Orderly' <=> Orderly
  BY <1>1 DEF Orderly
<1>4. CountTypeOK' /\ KeysKept'
  BY <1>2 DEF CInv, CountTypeOK, KeysKept
<1>5. OneCounts' /\ Resting'
  BY <1>1, <1>2, <1>3 DEF CInv, OneCounts, Resting
<1>6. Moving'
  <2> SUFFICES ASSUME Orderly, NEW o \in Request, listener'[o].pc # "idle"
               PROVE  /\ announced[listener'[o].exec] = listener'[o].to
                      /\ listener'[o].pc \in {"leave", "decrement"} =>
                           \/ located[listener'[o].exec] = listener'[o].from
                           \/ /\ listener'[o].from \notin State
                              /\ located[listener'[o].exec] = Nowhere
                      /\ listener'[o].pc \in {"enter", "first", "increment"} =>
                           located[listener'[o].exec] \in {Nowhere} \cup clobbered
    BY <1>1, <1>3 DEF Moving
  <2>1. CASE o = r
    BY <1>2, <2>1 DEF CInv, Moving
  <2>2. CASE o # r
    BY <1>2, <2>2 DEF CInv, Moving
  <2>3. QED
    BY <2>1, <2>2
<1>7. CountsLocated'
  BY <1>3 DEF CInv, CountsLocated, In
<1>8. QED
  BY <1>1, <1>4, <1>5, <1>6, <1>7 DEF CInv

LEMMA LookUpOldCInv ==
  ASSUME CInv, NEW r \in Request, LookUpOld(r)
  PROVE  CInv'
<1> DEFINE s == listener[r].from
           e == listener[r].exec
           found == s \in keys /\ count[s] > 0
           pc == IF found THEN "decrement" ELSE "enter"
<1>1. /\ listener[r].pc = "leave" /\ Step(r, pc) /\ UNCHANGED vars
      /\ UNCHANGED <<keys, count, located, clobbered, muddled>>
  BY DEF LookUpOld
<1>2. e \in Execution /\ keys \subseteq State /\ count \in [State -> Int]
  BY <1>1, ListenerFields DEF CInv, CountTypeOK
<1>3. ASSUME Orderly, ~found
      PROVE  located[e] \in {Nowhere} \cup clobbered
  <2>1. located[e] = s \/ located[e] = Nowhere
    BY <1>1, <1>3 DEF CInv, Moving
  <2>2. ASSUME located[e] = s, s \in State \ clobbered PROVE FALSE
    <3>1. Cardinality(In(s)) > 0
      BY <1>2, <2>2, InSize
    <3>2. count[s] > 0
      BY <1>3, <2>2, <3>1 DEF CInv, CountsLocated
    <3>3. s \in keys
      BY <1>2, <2>2, <3>2 DEF CInv, KeysKept
    <3>4. QED
      BY <1>3, <3>2, <3>3
  <2>3. located[e] \in State \cup {Nowhere}
    BY <1>2 DEF CInv, CountTypeOK
  <2>4. QED
    BY <2>1, <2>2, <2>3
<1>4. /\ pc \in {"decrement", "enter", "first", "increment"}
      /\ pc = "decrement" <=> found
      /\ pc # "increment" /\ pc # "first"
  OBVIOUS
<1>5. found => s \in keys
  OBVIOUS
<1> HIDE DEF pc, found
<1>6. QED
  BY <1>1, <1>3, <1>4, <1>5, LookCInv

LEMMA LookUpNewCInv ==
  ASSUME CInv, NEW r \in Request, LookUpNew(r)
  PROVE  CInv'
<1> DEFINE pc == IF listener[r].to \in keys THEN "increment" ELSE "first"
<1>1. /\ listener[r].pc = "enter" /\ Step(r, pc) /\ UNCHANGED vars
      /\ UNCHANGED <<keys, count, located, clobbered, muddled>>
  BY DEF LookUpNew
<1>2. /\ pc \in {"decrement", "enter", "first", "increment"}
      /\ pc # "decrement"
      /\ pc = "increment" => listener[r].to \in keys
  OBVIOUS
<1>3. Orderly => located[listener[r].exec] \in {Nowhere} \cup clobbered
  BY <1>1 DEF CInv, Moving
<1> HIDE DEF pc
<1>4. QED
  BY <1>1, <1>2, <1>3, LookCInv

\* Facts that the end of a count shares: the listener is idle again, and the
\* execution is counted in the state the event named.
LEMMA CountedCInv ==
  ASSUME CInv, NEW r \in Request, listener[r].pc \in {"first", "increment"},
         Counted(r), UNCHANGED vars, UNCHANGED muddled,
         clobbered \subseteq clobbered', clobbered' \subseteq State,
         keys \subseteq keys', keys' \subseteq State,
         count' \in [State -> Int],
         \A s \in State \ keys' : count'[s] = 0,
         \A s \in State \ clobbered' :
           count'[s] = IF s = listener[r].to THEN count[s] + 1 ELSE count[s]
  PROVE  CInv'
<1> DEFINE e == listener[r].exec
           t == listener[r].to
<1>1. /\ located' = [located EXCEPT ![e] = t]
      /\ listener' = [listener EXCEPT ![r] = NoEvent]
  BY DEF Counted
<1>2. Trail' /\ CreatedFresh' /\ UNCHANGED <<announced, disturbed>>
  BY RequestsSame
<1>3. e \in Execution /\ t \in State
  BY ListenerFields DEF CInv
<1>4. /\ located'[e] = t
      /\ \A x \in Execution : x # e => located'[x] = located[x]
      /\ located' \in [Execution -> State \cup {Nowhere}]
  BY <1>1, <1>3 DEF CInv, CountTypeOK
<1>5. /\ listener'[r] = NoEvent /\ listener'[r].pc = "idle"
      /\ \A o \in Request : o # r => listener'[o] = listener[o]
      /\ listener' \in [Request -> CountJob \cup {NoEvent}]
  BY <1>1 DEF CInv, CountTypeOK, NoEvent
<1>6. Orderly' <=> Orderly
  BY <1>2 DEF Orderly
<1>7. CountTypeOK'
  BY <1>4, <1>5 DEF CInv, CountTypeOK
<1>8. KeysKept'
  BY <1>5 DEF CInv, KeysKept
<1>9. Counting(r, e)
  BY DEF Counting
<1>10. \A o \in Request : \A x \in Execution :
         Counting(o, x)' <=> o # r /\ Counting(o, x)
  BY <1>5 DEF Counting
<1>11. OneCounts'
  BY <1>6, <1>10 DEF CInv, OneCounts
<1>12. Moving'
  <2> SUFFICES ASSUME Orderly, NEW o \in Request, listener'[o].pc # "idle"
               PROVE  /\ announced[listener'[o].exec] = listener'[o].to
                      /\ listener'[o].pc \in {"leave", "decrement"} =>
                           \/ located'[listener'[o].exec] = listener'[o].from
                           \/ /\ listener'[o].from \notin State
                              /\ located'[listener'[o].exec] = Nowhere
                      /\ listener'[o].pc \in {"enter", "first", "increment"} =>
                           located'[listener'[o].exec] \in {Nowhere} \cup clobbered'
    BY <1>2, <1>6 DEF Moving
  <2>1. o # r /\ listener'[o] = listener[o] /\ listener[o].exec \in Execution
    BY <1>5, ListenerFields DEF CInv
  <2>2. listener[o].exec # e
    BY <1>3, <1>9, <2>1 DEF CInv, OneCounts, Counting
  <2>3. QED
    BY <1>4, <2>1, <2>2 DEF CInv, Moving
<1>13. Resting'
  <2> SUFFICES ASSUME Orderly, NEW x \in Execution,
                      \A o \in Request : ~Counting(o, x)'
               PROVE  \/ located'[x] = announced[x]
                      \/ announced[x] \notin State /\ located'[x] = Nowhere
    BY <1>2, <1>6 DEF Resting
  <2>1. CASE x = e
    BY <1>4, <2>1 DEF CInv, Moving
  <2>2. CASE x # e
    <3>1. \A o \in Request : ~Counting(o, x)
      BY <1>10, <2>2 DEF Counting
    <3>2. QED
      BY <1>4, <2>2, <3>1 DEF CInv, Resting
  <2>3. QED
    BY <2>1, <2>2
<1>14. CountsLocated'
  <2> SUFFICES ASSUME Orderly, NEW s \in State, s \notin clobbered'
               PROVE  count'[s] = Cardinality(After(s))
    BY <1>6 DEF CountsLocated, In, After
  <2>1. count[s] = Cardinality(In(s)) /\ s \notin clobbered
    BY DEF CInv, CountsLocated
  <2>2. located[e] # s
    <3>1. located[e] \in {Nowhere} \cup clobbered
      BY DEF CInv, Moving
    <3>2. Nowhere \notin State
      BY NowhereNew
    <3>3. QED
      BY <2>1, <3>1, <3>2
  <2>3. count'[s] = IF s = t THEN count[s] + 1 ELSE count[s]
    OBVIOUS
  <2>4. Cardinality(After(s)) = IF s = t THEN Cardinality(In(s)) + 1
                                       ELSE Cardinality(In(s))
    <3>1. /\ CountTypeOK /\ e \in Execution /\ located'[e] = t
          /\ \A x \in Execution : x # e => located'[x] = located[x]
      BY <1>3, <1>4 DEF CInv
    <3> HIDE DEF e, t
    <3>2. /\ located[e] # s /\ located'[e] = s =>
               Cardinality(After(s)) = Cardinality(In(s)) + 1
          /\ located[e] # s /\ located'[e] # s =>
               Cardinality(After(s)) = Cardinality(In(s))
      BY <3>1, MoveSizes
    <3>3. QED
      BY <2>2, <3>1, <3>2
  <2>5. QED
    BY <2>1, <2>3, <2>4
<1>15. QED
  BY <1>2, <1>7, <1>8, <1>11, <1>12, <1>13, <1>14 DEF CInv

LEMMA FirstCInv ==
  ASSUME CInv, NEW r \in Request, First(r)
  PROVE  CInv'
<1> DEFINE t == listener[r].to
<1>1. /\ listener[r].pc = "first" /\ count' = [count EXCEPT ![t] = 1]
      /\ keys' = keys \cup {t}
      /\ clobbered' = clobbered \cup (IF t \in keys THEN {t} ELSE {})
      /\ Counted(r) /\ UNCHANGED vars /\ UNCHANGED muddled
  BY DEF First
<1>2. /\ t \in State /\ keys \subseteq State /\ clobbered \subseteq State
      /\ count \in [State -> Int] /\ \A s \in State \ keys : count[s] = 0
  BY <1>1, ListenerFields DEF CInv, CountTypeOK, KeysKept
<1>3. /\ count' \in [State -> Int] /\ count'[t] = 1
      /\ \A s \in State : s # t => count'[s] = count[s]
  BY <1>1, <1>2
<1>4. \A s \in State \ keys' : count'[s] = 0
  BY <1>1, <1>2, <1>3
<1>5. \A s \in State \ clobbered' :
        count'[s] = IF s = t THEN count[s] + 1 ELSE count[s]
  BY <1>1, <1>2, <1>3
<1>6. /\ clobbered \subseteq clobbered' /\ clobbered' \subseteq State
      /\ keys \subseteq keys' /\ keys' \subseteq State
  BY <1>1, <1>2
<1>7. QED
  BY <1>1, <1>3, <1>4, <1>5, <1>6, CountedCInv

LEMMA IncrementCInv ==
  ASSUME CInv, NEW r \in Request, Increment(r)
  PROVE  CInv'
<1> DEFINE t == listener[r].to
<1>1. /\ listener[r].pc = "increment"
      /\ count' = [count EXCEPT ![t] = @ + 1]
      /\ Counted(r) /\ UNCHANGED vars /\ UNCHANGED <<keys, clobbered, muddled>>
  BY DEF Increment
<1>2. /\ t \in keys /\ keys \subseteq State /\ clobbered \subseteq State
      /\ count \in [State -> Int] /\ \A s \in State \ keys : count[s] = 0
  BY <1>1 DEF CInv, CountTypeOK, KeysKept
<1>3. /\ count' \in [State -> Int] /\ count'[t] = count[t] + 1
      /\ \A s \in State : s # t => count'[s] = count[s]
  BY <1>1, <1>2
<1>4. \A s \in State \ keys' : count'[s] = 0
  BY <1>1, <1>2, <1>3
<1>5. \A s \in State \ clobbered' :
        count'[s] = IF s = t THEN count[s] + 1 ELSE count[s]
  BY <1>3
<1>6. QED
  BY <1>1, <1>2, <1>3, <1>4, <1>5, CountedCInv

LEMMA DecrementCInv ==
  ASSUME CInv, NEW r \in Request, Decrement(r)
  PROVE  CInv'
<1> DEFINE f == listener[r].from
           e == listener[r].exec
<1>1. /\ listener[r].pc = "decrement" /\ count' = [count EXCEPT ![f] = @ - 1]
      /\ located' = [located EXCEPT ![e] = Nowhere] /\ Step(r, "enter")
      /\ UNCHANGED vars /\ UNCHANGED <<keys, clobbered, muddled>>
  BY DEF Decrement
<1>2. Trail' /\ CreatedFresh' /\ UNCHANGED <<announced, disturbed>>
  BY <1>1, RequestsSame
<1>3. /\ e \in Execution /\ f \in keys /\ keys \subseteq State
      /\ count \in [State -> Int] /\ \A s \in State \ keys : count[s] = 0
  BY <1>1, ListenerFields DEF CInv, CountTypeOK, KeysKept
<1>4. /\ count' \in [State -> Int] /\ count'[f] = count[f] - 1
      /\ \A s \in State : s # f => count'[s] = count[s]
  BY <1>1, <1>3
<1>5. /\ located'[e] = Nowhere
      /\ \A x \in Execution : x # e => located'[x] = located[x]
      /\ located' \in [Execution -> State \cup {Nowhere}]
  BY <1>1, <1>3 DEF CInv, CountTypeOK
<1>6. /\ listener' \in [Request -> CountJob \cup {NoEvent}]
      /\ listener'[r].pc = "enter" /\ listener'[r].exec = e
      /\ listener'[r].to = listener[r].to
      /\ \A o \in Request : o # r => listener'[o] = listener[o]
      /\ \A o \in Request, x \in Execution : Counting(o, x)' <=> Counting(o, x)
  BY <1>1, StepFields DEF CInv
<1>7. Orderly' <=> Orderly
  BY <1>1, <1>2 DEF Orderly
<1>8. CountTypeOK'
  BY <1>1, <1>4, <1>5, <1>6 DEF CInv, CountTypeOK
<1>9. KeysKept'
  BY <1>1, <1>3, <1>4, <1>6 DEF CInv, KeysKept
<1>10. OneCounts'
  BY <1>6, <1>7 DEF CInv, OneCounts
<1>11. Counting(r, e)
  BY <1>1 DEF Counting
<1>12. Moving'
  <2> SUFFICES ASSUME Orderly, NEW o \in Request, listener'[o].pc # "idle"
               PROVE  /\ announced[listener'[o].exec] = listener'[o].to
                      /\ listener'[o].pc \in {"leave", "decrement"} =>
                           \/ located'[listener'[o].exec] = listener'[o].from
                           \/ /\ listener'[o].from \notin State
                              /\ located'[listener'[o].exec] = Nowhere
                      /\ listener'[o].pc \in {"enter", "first", "increment"} =>
                           located'[listener'[o].exec] \in {Nowhere} \cup clobbered
    BY <1>1, <1>2, <1>7 DEF Moving
  <2>1. CASE o = r
    BY <1>1, <1>5, <1>6, <2>1 DEF CInv, Moving
  <2>2. CASE o # r
    <3>1. listener'[o] = listener[o] /\ listener[o].exec \in Execution
      BY <1>6, <2>2, ListenerFields DEF CInv
    <3>2. listener[o].exec # e
      BY <1>3, <1>11, <2>2, <3>1 DEF CInv, OneCounts, Counting
    <3>3. QED
      BY <1>5, <3>1, <3>2 DEF CInv, Moving
  <2>3. QED
    BY <2>1, <2>2
<1>13. Resting'
  <2> SUFFICES ASSUME Orderly, NEW x \in Execution,
                      \A o \in Request : ~Counting(o, x)
               PROVE  \/ located'[x] = announced[x]
                      \/ announced[x] \notin State /\ located'[x] = Nowhere
    BY <1>2, <1>6, <1>7 DEF Resting
  <2>1. x # e
    BY <1>11
  <2>2. QED
    BY <1>5, <2>1 DEF CInv, Resting
<1>14. CountsLocated'
  <2> SUFFICES ASSUME Orderly, NEW s \in State, s \notin clobbered
               PROVE  count'[s] = Cardinality(After(s))
    BY <1>1, <1>7 DEF CountsLocated, In, After
  <2>1. count[s] = Cardinality(In(s))
    BY DEF CInv, CountsLocated
  <2>2. located[e] = f
    BY <1>1, <1>3 DEF CInv, Moving
  <2>3. Nowhere # s
    BY NowhereNew
  <2>4. Cardinality(After(s)) = IF s = f THEN Cardinality(In(s)) - 1
                                       ELSE Cardinality(In(s))
    <3>1. /\ CountTypeOK /\ e \in Execution /\ located'[e] = Nowhere
          /\ \A x \in Execution : x # e => located'[x] = located[x]
      BY <1>3, <1>5 DEF CInv
    <3> HIDE DEF e, f
    <3>2. /\ located[e] = s /\ located'[e] # s =>
               Cardinality(After(s)) = Cardinality(In(s)) - 1
          /\ located[e] # s /\ located'[e] # s =>
               Cardinality(After(s)) = Cardinality(In(s))
      BY <3>1, MoveSizes
    <3>3. QED
      BY <2>2, <2>3, <3>1, <3>2
  <2>5. QED
    BY <1>4, <2>1, <2>4
<1>15. QED
  BY <1>2, <1>8, <1>9, <1>10, <1>12, <1>13, <1>14 DEF CInv

-----------------------------------------------------------------------------
LEMMA NextCInv == CInv /\ [CountNext]_<<vars, countVars>> => CInv'
<1> SUFFICES ASSUME CInv, [CountNext]_<<vars, countVars>> PROVE CInv'
  OBVIOUS
<1>1. CASE Serve
  BY <1>1, ServeCInv
<1>2. ASSUME NEW r \in Request,
             \/ Hear(r) \/ HearInVain(r) \/ LookUpOld(r) \/ Decrement(r)
             \/ LookUpNew(r) \/ First(r) \/ Increment(r) \/ CrashCounting(r)
      PROVE  CInv'
  BY <1>2, HearCInv, HearInVainCInv, LookUpOldCInv, DecrementCInv,
     LookUpNewCInv, FirstCInv, IncrementCInv, CrashCountingCInv
<1>3. CASE UNCHANGED <<vars, countVars>>
  <2>1. UNCHANGED vars /\ UNCHANGED countVars
    BY <1>3
  <2>2. Trail' /\ CreatedFresh' /\ UNCHANGED <<announced, disturbed>>
    BY <2>1, RequestsSame
  <2>3. CountTypeOK' /\ KeysKept' /\ OneCounts' /\ Moving' /\ Resting'
        /\ CountsLocated'
    BY <2>1, <2>2
       DEF CInv, CountTypeOK, KeysKept, OneCounts, Moving, Resting, Orderly,
           CountsLocated, In, Counting, countVars
  <2>4. QED
    BY <2>2, <2>3 DEF CInv
<1>4. QED
  BY <1>1, <1>2, <1>3 DEF CountNext

LEMMA CountInvariance == CountSpec => []CInv
BY InitCInv, NextCInv, PTL DEF CountSpec

\* At rest every count is the number of executions whose last event named its
\* state: the listener of the state service's events
\* (DeliveryExecutionCounterService::executionStateChanged) loses and doubles
\* none, for any number of executions and of requests interleaved, except for
\* the mishaps the property names.
THEOREM CountsHeardTheorem == CountSpec => []CountsHeard
<1>1. CInv => CountsHeard
  <2> SUFFICES ASSUME CInv, Orderly, \A r \in Request : listener[r] = NoEvent,
                      NEW s \in State, s \notin clobbered
               PROVE  count[s] = Cardinality({e \in Execution : announced[e] = s})
    BY DEF CountsHeard
  <2>1. \A e \in Execution : \A r \in Request : ~Counting(r, e)
    BY DEF Counting, NoEvent
  <2>2. \A e \in Execution : located[e] = s <=> announced[e] = s
    BY <2>1, NowhereNew DEF CInv, Resting
  <2>3. In(s) = {e \in Execution : announced[e] = s}
    BY <2>2 DEF In
  <2>4. QED
    BY <2>3 DEF CInv, CountsLocated
<1>2. QED
  BY <1>1, CountInvariance, PTL

\* No count is ever negative under the same conditions: between the look-up of
\* a positive count and its decrement no other listener takes the last unit.
THEOREM NeverNegativeTheorem == CountSpec => []NeverNegative
<1>1. CInv => NeverNegative
  <2> SUFFICES ASSUME CInv, Orderly, NEW s \in State, s \notin clobbered
               PROVE  count[s] >= 0
    BY DEF NeverNegative
  <2>1. count[s] = Cardinality(In(s)) /\ Cardinality(In(s)) \in Nat
    BY InSize DEF CInv, CountsLocated
  <2>2. QED
    BY <2>1
<1>2. QED
  BY <1>1, CountInvariance, PTL

\* Once everything rests, each count differs from the number of executions
\* stored in its state by the deleted ones it still includes, and by nothing
\* else: the listeners of the state service's events keep up with the storage
\* (DeliveryExecutionCounterService), for any number of executions.
THEOREM CountsStoredTheorem == CountSpec => []CountsStoredOrDeleted
<1>1. CInv => CountsStoredOrDeleted
  <2> SUFFICES ASSUME CInv, Orderly, clobbered = {},
                      \A r \in Request : listener[r] = NoEvent,
                      \A e \in Execution : Settled(e), NEW s \in State
               PROVE  count[s] =
                        Cardinality({e \in Execution : LastKnown(e) = s})
    BY DEF CountsStoredOrDeleted
  <2>1. \A e \in Execution : \A r \in Request : ~Counting(r, e)
    BY DEF Counting, NoEvent
  <2>2. \A e \in Execution : located[e] = s <=> announced[e] = s
    BY <2>1, NowhereNew DEF CInv, Resting
  <2>3. ASSUME NEW e \in Execution
        PROVE  announced[e] = LastKnown(e)
    <3>1. status[e] \in State \cup {UNBORN, GONE}
      BY DEF CInv, Trail, TypeOK, Stored
    <3>2. status[e] \in State => announced[e] = status[e]
      BY DEF CInv, Trail, AuditExact
    <3>3. status[e] = UNBORN => announced[e] = UNBORN
      BY DEF CInv, Trail, UnbornUntouched
    <3>4. QED
      BY <3>1, <3>2, <3>3 DEF LastKnown
  <2>4. In(s) = {e \in Execution : LastKnown(e) = s}
    BY <2>2, <2>3 DEF In
  <2>5. QED
    BY <2>4 DEF CInv, CountsLocated
<1>2. QED
  BY <1>1, CountInvariance, PTL

\* The listener observes and disturbs nothing: with it, the state service does
\* what it does without, so that every theorem about Spec holds here too.
THEOREM ObserverTheorem == CountSpec => Spec
<1>1. CountInit => Init
  BY DEF CountInit
<1>2. [CountNext]_<<vars, countVars>> => [Next]_vars
  <2> SUFFICES ASSUME [CountNext]_<<vars, countVars>> PROVE [Next]_vars
    OBVIOUS
  <2>1. CASE Serve
    BY <2>1 DEF Serve, Next
  <2>2. ASSUME NEW r \in Request, Hear(r) \/ HearInVain(r)
        PROVE  Next
    BY <2>2 DEF Hear, HearInVain, Next
  <2>3. ASSUME NEW r \in Request,
               \/ LookUpOld(r) \/ Decrement(r) \/ LookUpNew(r) \/ First(r)
               \/ Increment(r) \/ CrashCounting(r)
        PROVE  UNCHANGED vars
    BY <2>3 DEF LookUpOld, Decrement, LookUpNew, First, Increment,
         CrashCounting
  <2>4. QED
    BY <2>1, <2>2, <2>3 DEF CountNext
<1>3. QED
  BY <1>1, <1>2, PTL DEF CountSpec, Spec

\* While no execution has been deleted, count() answers the number of
\* executions in a state, as its interface documents.
THEOREM CountsUndeletedTheorem ==
  CountSpec => []((\A e \in Execution : status[e] # GONE) => CountsStored)
<1>1. CountsStoredOrDeleted =>
        ((\A e \in Execution : status[e] # GONE) => CountsStored)
  <2> SUFFICES ASSUME CountsStoredOrDeleted,
                      \A e \in Execution : status[e] # GONE
               PROVE  CountsStored
    OBVIOUS
  <2>1. \A s \in State : {e \in Execution : LastKnown(e) = s} =
                           {e \in Execution : status[e] = s}
    BY DEF LastKnown
  <2>2. QED
    BY <2>1 DEF CountsStored, CountsStoredOrDeleted
<1>2. QED
  BY <1>1, CountsStoredTheorem, PTL
=============================================================================
