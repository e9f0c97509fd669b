---------------------------- MODULE SerialProofs ----------------------------
(***************************************************************************)
(* When requests for one execution do not overlap and nothing fails, the   *)
(* state service implements the life cycle it promises, for any            *)
(* executions, processes, operations and engines. That they do not overlap *)
(* is enough, whatever fails, for a run to resume what it validated and,   *)
(* among the operations that respect an ended execution, for the finish    *)
(* time to belong to the present state.                                    *)
(***************************************************************************)
EXTENDS StateServiceProofs

\* Requests are serial and nothing fails.
Undisturbed == Exclusive /\ Faults = {}

\* One request at a time is busy with an execution.
Alone ==
  \A r1, r2 \in Request : \A e \in Execution :
    InFlight(r1, e) /\ InFlight(r2, e) => r1 = r2

\* The execution a request is busy with stays stored.
Present ==
  \A r \in Request : \A e \in Execution :
    InFlight(r, e) => status[e] \in State

\* No copy is out of date and no mishap occurs.
Fresh ==
  /\ disturbed = {}
  /\ \A r \in Request : request[r].pc = "loaded" => ~request[r].stale

\* Each request is about to move its execution along an edge of its operation.
Permitted ==
  \A r \in Request : request[r].pc = "loaded" =>
    /\ request[r].op \in Ops
    /\ <<request[r].seen, request[r].target>> \in Lifecycle!Edges(request[r].op)

Serial == Alone /\ Present /\ Fresh /\ Permitted

LifecycleStep == [Lifecycle!Next]_(Lifecycle!vars)

\* The life cycle gives the same names to the states.
LEMMA LifecycleNames ==
  /\ Lifecycle!State = State /\ Lifecycle!ACTIVE = ACTIVE
  /\ Lifecycle!PAUSED = PAUSED /\ Lifecycle!FINISHED = FINISHED
  /\ Lifecycle!TERMINATED = TERMINATED
  /\ Lifecycle!UNBORN = UNBORN /\ Lifecycle!GONE = GONE
  /\ Lifecycle!InitialStatus = InitialStatus
  /\ Lifecycle!ResumableStates = ResumableStates
  /\ Lifecycle!DeliveriesStates = DeliveriesStates
BY DEF State, ACTIVE, PAUSED, FINISHED, TERMINATED, UNBORN, GONE,
       InitialStatus, ResumableStates, DeliveriesStates, Lifecycle!State,
       Lifecycle!ACTIVE, Lifecycle!PAUSED, Lifecycle!FINISHED,
       Lifecycle!TERMINATED, Lifecycle!UNBORN, Lifecycle!GONE,
       Lifecycle!InitialStatus, Lifecycle!ResumableStates,
       Lifecycle!DeliveriesStates

-----------------------------------------------------------------------------
\* What the listeners know, execution by execution.
LEMMA HeardOf ==
  /\ \A e \in Execution :
       Heard[e] = IF \E r \in Request : Wrote(r, e) THEN status[e]
                  ELSE announced[e]
  /\ Heard = [e \in Execution |-> Heard[e]]
BY DEF Heard

\* A step that leaves every execution's news alone leaves Heard alone.
LEMMA HeardSame ==
  ASSUME \A x \in Execution : Heard'[x] = Heard[x]
  PROVE  Heard' = Heard
BY DEF Heard

LEMMA HeardMoves ==
  ASSUME NEW e \in Execution, NEW v,
         \A x \in Execution : Heard'[x] = IF x = e THEN v ELSE Heard[x]
  PROVE  Heard' = [Heard EXCEPT ![e] = v]
BY DEF Heard

LEMMA InitSerial == Init => Serial /\ Lifecycle!Init
<1> SUFFICES ASSUME Init PROVE Serial /\ Lifecycle!Init
  OBVIOUS
<1>1. \A r \in Request : request[r] = NoJob /\ request[r].pc = "idle"
  BY DEF Init, NoJob
<1>2. Serial
  BY <1>1 DEF Serial, Alone, Present, Fresh, Permitted, InFlight, Init
<1>3. Heard = [e \in Execution |-> UNBORN]
  BY <1>1 DEF Heard, Wrote, Init
<1>4. QED
  BY <1>2, <1>3, LifecycleNames DEF Lifecycle!Init, Init

\* A request that takes up an execution is the only one busy with it.
LEMMA StartAlone ==
  ASSUME Exclusive, TypeOK, Alone, NEW r \in Request, NEW e \in Execution,
         Free(r, e), NEW job,
         request' = [request EXCEPT ![r] = job], job.exec = e
  PROVE  Alone'
<1>1. /\ request'[r] = job
      /\ \A o \in Request : o # r => request'[o] = request[o]
  BY DEF TypeOK
<1>2. \A o \in Request : ~InFlight(o, e)
  BY DEF Free
<1>3. QED
  BY <1>1, <1>2 DEF Alone, InFlight

LEMMA CreateSerial ==
  ASSUME Undisturbed, Trail, Serial, NEW r \in Request, NEW e \in Execution,
         Create(r, e)
  PROVE  Serial' /\ Lifecycle!Create(e)
<1> DEFINE job == [pc |-> "written", op |-> "create", exec |-> e,
                   target |-> InitialStatus, seen |-> UNBORN,
                   seenEnd |-> FALSE, stale |-> FALSE]
<1>1. /\ request' = [request EXCEPT ![r] = job]
      /\ status' = [status EXCEPT ![e] = InitialStatus]
      /\ status[e] = UNBORN /\ Free(r, e)
      /\ UNCHANGED <<announced, disturbed>>
  BY DEF Create
<1>2. job.pc = "written" /\ job.exec = e
  OBVIOUS
<1> HIDE DEF job
<1>3. TypeOK
  BY DEF Trail
<1>4. /\ request'[r] = job
      /\ \A o \in Request : o # r => request'[o] = request[o]
      /\ status'[e] = InitialStatus
      /\ \A x \in Execution : x # e => status'[x] = status[x]
  BY <1>1, <1>3 DEF TypeOK
<1>5. \A o \in Request : ~InFlight(o, e)
  BY <1>1 DEF Free, Undisturbed
<1>6. Alone'
  BY <1>1, <1>2, <1>3, StartAlone DEF Serial, Undisturbed
<1>7. Present'
  BY <1>2, <1>4, <1>5, StateFacts DEF Serial, Present, InFlight
<1>8. Fresh' /\ Permitted'
  BY <1>1, <1>2, <1>4 DEF Serial, Fresh, Permitted
<1>9. request[r].pc = "idle"
  BY <1>1 DEF Free, NoJob
<1>10. /\ Wrote(r, e)'
       /\ \A o \in Request, x \in Execution :
            x # e => (Wrote(o, x)' <=> Wrote(o, x))
  BY <1>2, <1>4, <1>9 DEF Wrote
<1>11. \A x \in Execution :
         Heard'[x] = IF x = e THEN InitialStatus ELSE Heard[x]
  BY <1>1, <1>4, <1>10 DEF Heard
<1>12. Heard' = [Heard EXCEPT ![e] = InitialStatus]
  BY <1>11, HeardMoves
<1>13. QED
  BY <1>1, <1>6, <1>7, <1>8, <1>12, LifecycleNames
     DEF Serial, Lifecycle!Create, Lifecycle!Move

\* Loading an execution for a permitted move is invisible.
LEMMA LoadSerial ==
  ASSUME Undisturbed, Trail, Serial, NEW r \in Request, NEW e \in Execution,
         NEW op, NEW target, Load(r, e, op, target),
         <<status[e], target>> \in Lifecycle!Edges(op)
  PROVE  Serial' /\ UNCHANGED <<status, Heard>>
<1> DEFINE job == [pc |-> "loaded", op |-> op, exec |-> e, target |-> target,
                   seen |-> status[e], seenEnd |-> finishTime[e],
                   stale |-> FALSE]
<1>1. /\ request' = [request EXCEPT ![r] = job]
      /\ status[e] \in State /\ Free(r, e) /\ op \in Ops
      /\ UNCHANGED <<status, announced, disturbed>>
  BY DEF Load
<1>2. /\ job.pc = "loaded" /\ job.exec = e /\ ~job.stale /\ job.op = op
      /\ job.seen = status[e] /\ job.target = target
  OBVIOUS
<1> HIDE DEF job
<1>3. TypeOK
  BY DEF Trail
<1>4. /\ request'[r] = job
      /\ \A o \in Request : o # r => request'[o] = request[o]
  BY <1>1, <1>3 DEF TypeOK
<1>5. Alone'
  BY <1>1, <1>2, <1>3, StartAlone DEF Serial, Undisturbed
<1>6. Present'
  BY <1>1, <1>2, <1>4 DEF Serial, Present, InFlight
<1>7. Fresh'
  BY <1>1, <1>2, <1>4 DEF Serial, Fresh
<1>8. Permitted'
  BY <1>1, <1>2, <1>4 DEF Serial, Permitted, Lifecycle!Edges
<1>9. request[r].pc = "idle"
  BY <1>1 DEF Free, NoJob
<1>10. \A o \in Request, x \in Execution : Wrote(o, x)' <=> Wrote(o, x)
  BY <1>2, <1>4, <1>9 DEF Wrote
<1>11. Heard' = Heard
  BY <1>1, <1>10 DEF Heard
<1>12. QED
  BY <1>1, <1>5, <1>6, <1>7, <1>8, <1>11 DEF Serial

LEMMA LeaveSerial ==
  ASSUME Undisturbed, Trail, Serial, NEW r \in Request, Leave(r)
  PROVE  Serial' /\ UNCHANGED <<status, Heard>>
<1>1. /\ request' = [request EXCEPT ![r] = NoJob] /\ request[r].pc = "loaded"
      /\ UNCHANGED <<status, announced, disturbed>>
  BY DEF Leave
<1>2. /\ request'[r].pc = "idle"
      /\ \A o \in Request : o # r => request'[o] = request[o]
  BY <1>1 DEF Trail, TypeOK, NoJob
<1>3. Alone' /\ Present' /\ Fresh' /\ Permitted'
  <2>1. Alone'
    BY <1>1, <1>2 DEF Serial, Alone, InFlight
  <2>2. Present'
    BY <1>1, <1>2 DEF Serial, Present, InFlight
  <2>3. Fresh'
    BY <1>1, <1>2 DEF Serial, Fresh
  <2>4. Permitted'
    BY <1>1, <1>2 DEF Serial, Permitted, Lifecycle!Edges
  <2>5. QED
    BY <2>1, <2>2, <2>3, <2>4
<1>4. \A o \in Request, x \in Execution : Wrote(o, x)' <=> Wrote(o, x)
  BY <1>1, <1>2 DEF Wrote
<1>5. Heard' = Heard
  BY <1>1, <1>4 DEF Heard
<1>6. QED
  BY <1>1, <1>3, <1>5 DEF Serial

\* The write is the visible move, along the edge permitted at the load.
LEMMA WriteSerial ==
  ASSUME Undisturbed, Trail, Serial, NEW r \in Request, Write(r)
  PROVE  /\ Serial'
         /\ \E e \in Execution, op \in Ops : \E edge \in Lifecycle!Edges(op) :
              edge[1] # edge[2] /\ Lifecycle!Move(e, edge[1], edge[2])
<1>1. TypeOK /\ request[r].pc = "loaded"
  BY DEF Trail, Write
<1>2. request[r] \in Job
  BY <1>1, JobType
<1>3. PICK e \in Execution : e = request[r].exec
  BY <1>2 DEF Job
<1>4. PICK target \in State : target = request[r].target
  BY <1>2 DEF Job
<1>5. /\ InFlight(r, e) /\ status[e] \in State
      /\ request[r].seen = status[e] /\ status[e] # target
      /\ request[r].op \in Ops
      /\ <<status[e], target>> \in Lifecycle!Edges(request[r].op)
  <2>1. InFlight(r, e)
    BY <1>1, <1>3 DEF InFlight
  <2>2. request[r].seen = status[e]
    BY <1>1, <1>3 DEF Serial, Fresh, Trail, CopyFresh
  <2>3. QED
    BY <1>1, <1>4, <2>1, <2>2 DEF Serial, Present, Permitted, Write
<1>6. status' = [status EXCEPT ![e] = target] /\ announced' = announced
  BY <1>3, <1>4, <1>5 DEF Write
<1>7. /\ status'[e] = target
      /\ \A x \in Execution : x # e => status'[x] = status[x]
  BY <1>1, <1>6 DEF TypeOK
<1>8. PICK pc \in {"stamping", "written"} :
        request' = Outdate([request EXCEPT ![r].pc = pc], e)
  BY <1>3 DEF Write
<1> DEFINE mid == [request EXCEPT ![r].pc = pc]
<1>9. mid \in [Request -> Job \cup {NoJob}]
  BY <1>1, <1>2 DEF TypeOK, Job
<1>10. /\ mid[r].pc = pc /\ mid[r].exec = e
       /\ \A o \in Request : o # r => mid[o] = request[o]
  BY <1>1, <1>2, <1>3 DEF TypeOK, Job
<1>11. \A o \in Request : o # r => ~InFlight(o, e)
  BY <1>5 DEF Serial, Alone
<1>12. /\ request'[r].pc = pc /\ request'[r].exec = e
       /\ \A o \in Request : o # r => request'[o] = request[o]
  <2>1. request' = Outdate(mid, e)
    BY <1>8
  <2>2. Outdate(mid, e)[r].pc = pc /\ Outdate(mid, e)[r].exec = e
    <3> HIDE DEF mid
    <3>1. QED
      BY <1>9, <1>10, OutdateFields
  <2>3. ASSUME NEW o \in Request, o # r
        PROVE  Outdate(mid, e)[o] = request[o]
    <3> HIDE DEF mid
    <3>1. mid[o] = request[o] /\ ~InFlight(o, e)
      BY <1>10, <1>11, <2>3
    <3>2. ~(mid[o].pc = "loaded" /\ mid[o].exec = e)
      BY <3>1 DEF InFlight
    <3>3. QED
      BY <3>1, <3>2 DEF Outdate
  <2>4. QED
    BY <2>1, <2>2, <2>3
<1> HIDE DEF mid
<1>13. Alone'
  BY <1>1, <1>3, <1>12 DEF Serial, Alone, InFlight
<1>14. Present'
  BY <1>7, <1>11, <1>12 DEF Serial, Present, InFlight
<1>15. disturbed' = disturbed
  <2>1. ~request[r].stale
    BY <1>1 DEF Serial, Fresh
  <2>2. ~Wrote(r, e)
    BY <1>1 DEF Wrote
  <2>3. \A o \in Request : ~Wrote(o, e)
    BY <1>11, <2>2 DEF Wrote, InFlight
  <2>4. QED
    BY <1>3, <2>1, <2>3 DEF Write
<1>16. Fresh' /\ Permitted'
  BY <1>12, <1>15 DEF Serial, Fresh, Permitted, Lifecycle!Edges
<1>17. /\ Wrote(r, e)'
       /\ \A o \in Request, x \in Execution :
            x # e => (Wrote(o, x)' <=> Wrote(o, x))
  BY <1>3, <1>12 DEF Wrote
<1>18. \A x \in Execution : Heard'[x] = IF x = e THEN target ELSE Heard[x]
  BY <1>6, <1>7, <1>17 DEF Heard
<1>19. Heard' = [Heard EXCEPT ![e] = target]
  BY <1>18, HeardMoves
<1>20. Lifecycle!Move(e, status[e], target)
  BY <1>6, <1>19 DEF Lifecycle!Move
<1>21. \E op \in Ops : \E edge \in Lifecycle!Edges(op) :
         edge[1] # edge[2] /\ Lifecycle!Move(e, edge[1], edge[2])
  <2> DEFINE edge == <<status[e], target>>
  <2>1. edge \in Lifecycle!Edges(request[r].op)
    BY <1>5
  <2>2. edge[1] = status[e] /\ edge[2] = target
    OBVIOUS
  <2> HIDE DEF edge
  <2>3. edge[1] # edge[2] /\ Lifecycle!Move(e, edge[1], edge[2])
    BY <1>5, <1>20, <2>2
  <2>4. QED
    BY <1>5, <2>1, <2>3
<1>22. QED
  BY <1>13, <1>14, <1>16, <1>21 DEF Serial

LEMMA StampSerial ==
  ASSUME Undisturbed, Trail, Serial, NEW r \in Request, Stamp(r)
  PROVE  Serial' /\ UNCHANGED <<status, Heard>>
<1>1. TypeOK /\ request[r].pc = "stamping"
  BY DEF Trail, Stamp
<1>2. request[r] \in Job
  BY <1>1, JobType
<1>3. /\ request' = [request EXCEPT ![r].pc = "written"]
      /\ UNCHANGED <<status, announced, disturbed>>
  BY DEF Stamp
<1>4. /\ request'[r].pc = "written" /\ request'[r].exec = request[r].exec
      /\ \A o \in Request : o # r => request'[o] = request[o]
  BY <1>1, <1>2, <1>3 DEF TypeOK, Job
<1>5. Alone' /\ Present' /\ Fresh' /\ Permitted'
  <2>1. Alone'
    BY <1>1, <1>3, <1>4 DEF Serial, Alone, InFlight
  <2>2. Present'
    BY <1>1, <1>3, <1>4 DEF Serial, Present, InFlight
  <2>3. Fresh'
    BY <1>1, <1>3, <1>4 DEF Serial, Fresh
  <2>4. Permitted'
    BY <1>1, <1>3, <1>4 DEF Serial, Permitted, Lifecycle!Edges
  <2>5. QED
    BY <2>1, <2>2, <2>3, <2>4
<1>6. \A o \in Request, x \in Execution : Wrote(o, x)' <=> Wrote(o, x)
  BY <1>1, <1>4 DEF Wrote
<1>7. Heard' = Heard
  BY <1>3, <1>6 DEF Heard
<1>8. QED
  BY <1>3, <1>5, <1>7 DEF Serial

\* The event tells what was already counted as heard.
LEMMA AnnounceSerial ==
  ASSUME Undisturbed, Trail, Serial, NEW r \in Request, Announce(r)
  PROVE  Serial' /\ UNCHANGED <<status, Heard>>
<1>1. TypeOK /\ request[r].pc = "written"
  BY DEF Trail, Announce
<1>2. request[r] \in Job
  BY <1>1, JobType
<1>3. PICK e \in Execution : e = request[r].exec
  BY <1>2 DEF Job
<1>4. /\ request' = [request EXCEPT ![r] = NoJob]
      /\ announced' = [announced EXCEPT ![e] = request[r].target]
      /\ UNCHANGED <<status, disturbed>>
  BY <1>3 DEF Announce
<1>5. /\ request'[r].pc = "idle"
      /\ \A o \in Request : o # r => request'[o] = request[o]
      /\ announced'[e] = request[r].target
      /\ \A x \in Execution : x # e => announced'[x] = announced[x]
  BY <1>1, <1>4 DEF TypeOK, NoJob
<1>6. Alone' /\ Present' /\ Fresh' /\ Permitted'
  <2>1. Alone'
    BY <1>1, <1>4, <1>5 DEF Serial, Alone, InFlight
  <2>2. Present'
    BY <1>1, <1>4, <1>5 DEF Serial, Present, InFlight
  <2>3. Fresh'
    BY <1>1, <1>4, <1>5 DEF Serial, Fresh
  <2>4. Permitted'
    BY <1>1, <1>4, <1>5 DEF Serial, Permitted, Lifecycle!Edges
  <2>5. QED
    BY <2>1, <2>2, <2>3, <2>4
<1>7. Wrote(r, e) /\ InFlight(r, e)
  BY <1>1, <1>3 DEF Wrote, InFlight
<1>8. status[e] = request[r].target
  BY <1>7 DEF Serial, Fresh, Present, Trail, WriterStored
<1>9. \A o \in Request : o # r => ~InFlight(o, e)
  BY <1>7 DEF Serial, Alone
<1>10. /\ \A o \in Request : ~Wrote(o, e)'
       /\ \A o \in Request, x \in Execution :
            x # e => (Wrote(o, x)' <=> Wrote(o, x))
  BY <1>1, <1>3, <1>5, <1>9 DEF Wrote, InFlight
<1>11. \A x \in Execution : Heard'[x] = Heard[x]
  <2>1. SUFFICES ASSUME NEW x \in Execution PROVE Heard'[x] = Heard[x]
    OBVIOUS
  <2>2. CASE x = e
    BY <1>5, <1>7, <1>8, <1>10, <2>2 DEF Heard
  <2>3. CASE x # e
    BY <1>4, <1>5, <1>10, <2>3 DEF Heard
  <2>4. QED
    BY <2>2, <2>3
<1>12. Heard' = Heard
  BY <1>11, HeardSame
<1>13. QED
  BY <1>4, <1>6, <1>12 DEF Serial

LEMMA DeleteSerial ==
  ASSUME Undisturbed, Trail, Serial, NEW e \in Execution, Delete(e)
  PROVE  Serial' /\ Lifecycle!Delete(e)
<1>1. TypeOK
  BY DEF Trail
<1>2. /\ status[e] \in State /\ status' = [status EXCEPT ![e] = GONE]
      /\ request' = Outdate(request, e)
      /\ UNCHANGED <<announced, disturbed>>
      /\ \A r \in Request : ~InFlight(r, e)
  BY DEF Delete, Undisturbed
<1>3. \A x \in Execution : x # e => status'[x] = status[x]
  BY <1>1, <1>2 DEF TypeOK
<1>4. \A o \in Request : request'[o] = request[o]
  BY <1>1, <1>2 DEF Outdate, InFlight
<1>5. Alone' /\ Present' /\ Fresh' /\ Permitted'
  <2>1. Alone'
    BY <1>2, <1>3, <1>4 DEF Serial, Alone, InFlight
  <2>2. Present'
    BY <1>2, <1>3, <1>4 DEF Serial, Present, InFlight
  <2>3. Fresh'
    BY <1>2, <1>3, <1>4 DEF Serial, Fresh
  <2>4. Permitted'
    BY <1>2, <1>3, <1>4 DEF Serial, Permitted, Lifecycle!Edges
  <2>5. QED
    BY <2>1, <2>2, <2>3, <2>4
<1>6. \A o \in Request, x \in Execution : Wrote(o, x)' <=> Wrote(o, x)
  BY <1>4 DEF Wrote
<1>7. \A o \in Request : ~Wrote(o, e)
  BY <1>2 DEF Wrote, InFlight
<1>8. \A x \in Execution : Heard'[x] = Heard[x]
  BY <1>2, <1>3, <1>6, <1>7 DEF Heard
<1>9. Heard' = Heard
  BY <1>8, HeardSame
<1>10. QED
  BY <1>2, <1>5, <1>9, LifecycleNames DEF Serial, Lifecycle!Delete

-----------------------------------------------------------------------------
\* Every loaded operation is about to move along one of its edges.
LEMMA LoadPermitted ==
  ASSUME Undisturbed, Trail, Serial, NEW r \in Request, NEW e \in Execution,
         \/ Run(r, e) \/ Pause(r, e) \/ Finish(r, e)
         \/ Terminate(r, e) \/ Unstop(r, e) \/ Put(r, e)
  PROVE  Serial' /\ UNCHANGED <<status, Heard>>
<1>1. ASSUME NEW op, NEW target, Load(r, e, op, target)
      PROVE  status[e] \in State
  BY <1>1 DEF Load
<1>2. CASE Run(r, e)
  <2>1. Load(r, e, "run", ACTIVE) /\ status[e] \in ResumableStates
    BY <1>2 DEF Run
  <2>2. <<status[e], ACTIVE>> \in Lifecycle!Edges("run")
    BY <2>1, LifecycleNames DEF Lifecycle!Edges
  <2>3. QED
    BY <2>1, <2>2, LoadSerial
<1>3. CASE Pause(r, e)
  <2>1. Load(r, e, "pause", PAUSED)
    BY <1>3 DEF Pause
  <2>2. <<status[e], PAUSED>> \in Lifecycle!Edges("pause")
    BY <1>1, <2>1, LifecycleNames DEF Lifecycle!Edges
  <2>3. QED
    BY <2>1, <2>2, LoadSerial
<1>4. CASE Finish(r, e)
  <2>1. Load(r, e, "finish", FINISHED)
    BY <1>4 DEF Finish
  <2>2. <<status[e], FINISHED>> \in Lifecycle!Edges("finish")
    BY <1>1, <2>1, LifecycleNames DEF Lifecycle!Edges
  <2>3. QED
    BY <2>1, <2>2, LoadSerial
<1>5. CASE Terminate(r, e)
  <2>1. Load(r, e, "terminate", TERMINATED)
    BY <1>5 DEF Terminate
  <2>2. <<status[e], TERMINATED>> \in Lifecycle!Edges("terminate")
    BY <1>1, <2>1, LifecycleNames DEF Lifecycle!Edges
  <2>3. QED
    BY <2>1, <2>2, LoadSerial
<1>6. CASE Unstop(r, e)
  <2>1. Load(r, e, "unstop", PAUSED) /\ status[e] \in ReactivableStates
    BY <1>6 DEF Unstop
  <2>2. <<status[e], PAUSED>> \in Lifecycle!Edges("unstop")
    BY <2>1, LifecycleNames DEF Lifecycle!Edges
  <2>3. QED
    BY <2>1, <2>2, LoadSerial
<1>7. CASE Put(r, e)
  <2>1. PICK target \in DeliveriesStates : Load(r, e, "put", target)
    BY <1>7 DEF Put
  <2>2. <<status[e], target>> \in Lifecycle!Edges("put")
    BY <1>1, <2>1, LifecycleNames DEF Lifecycle!Edges
  <2>3. QED
    BY <2>1, <2>2, LoadSerial
<1>8. QED
  BY <1>2, <1>3, <1>4, <1>5, <1>6, <1>7

\* Every step keeps requests serial and is a step of the life cycle.
LEMMA NextSerial ==
  ASSUME Undisturbed
  PROVE  Trail /\ Serial /\ [Next]_vars => Serial' /\ LifecycleStep
<1> SUFFICES ASSUME Trail, Serial, [Next]_vars
             PROVE  Serial' /\ LifecycleStep
  OBVIOUS
<1> USE DEF LifecycleStep, Lifecycle!vars
<1>1. ASSUME NEW r \in Request, NEW e \in Execution, Create(r, e)
      PROVE  Serial' /\ LifecycleStep
  BY <1>1, CreateSerial DEF Lifecycle!Next
<1>2. ASSUME NEW r \in Request, NEW e \in Execution,
             \/ Run(r, e) \/ Pause(r, e) \/ Finish(r, e)
             \/ Terminate(r, e) \/ Unstop(r, e) \/ Put(r, e)
      PROVE  Serial' /\ LifecycleStep
  BY <1>2, LoadPermitted
<1>3. ASSUME NEW r \in Request, Leave(r) \/ Stamp(r) \/ Announce(r)
      PROVE  Serial' /\ LifecycleStep
  BY <1>3, LeaveSerial, StampSerial, AnnounceSerial
<1>4. ASSUME NEW r \in Request, Write(r)
      PROVE  Serial' /\ LifecycleStep
  BY <1>4, WriteSerial DEF Lifecycle!Next, Lifecycle!Change
<1>5. ASSUME NEW r \in Request, WriteFails(r) \/ AnnounceInPart(r) \/ Crash(r)
      PROVE  FALSE
  BY <1>5 DEF WriteFails, AnnounceInPart, Crash, Undisturbed
<1>6. ASSUME NEW e \in Execution, Delete(e)
      PROVE  Serial' /\ LifecycleStep
  BY <1>6, DeleteSerial DEF Lifecycle!Next
<1>7. CASE UNCHANGED vars
  <2>1. Serial' /\ UNCHANGED <<status, Heard>>
    BY <1>7 DEF vars, Serial, Alone, Present, Fresh, Permitted, InFlight,
         Lifecycle!Edges, Heard, Wrote
  <2>2. QED
    BY <2>1
<1>8. QED
  BY <1>1, <1>2, <1>3, <1>4, <1>5, <1>6, <1>7 DEF Next

\* Serial, undisturbed requests implement the promised life cycle: each move
\* is an edge of its operation and is heard by the listeners.
THEOREM LifecycleTheorem ==
  ASSUME Undisturbed
  PROVE  Spec => ImplementsLifecycle
<1>1. Init => Serial /\ Lifecycle!Init
  BY InitSerial
<1>2. Trail /\ Serial /\ [Next]_vars => Serial' /\ LifecycleStep
  BY NextSerial
<1>3. QED
  BY TrailInvariant, <1>1, <1>2, PTL
     DEF Spec, ImplementsLifecycle, Lifecycle!Spec, LifecycleStep

-----------------------------------------------------------------------------
(***************************************************************************)
(* Requests for one execution that do not overlap, with any faults.        *)
(***************************************************************************)

NoStaleCopy ==
  \A r \in Request : request[r].pc = "loaded" => ~request[r].stale

Apart == Alone /\ NoStaleCopy

EndedStates == {FINISHED, TERMINATED, GONE}

\* The request of r starts, goes on, or ends; no other copy is outdated.
LEMMA MoveApart ==
  ASSUME Apart, NEW r \in Request,
         \A o \in Request : o # r => request'[o] = request[o],
         \A x \in Execution : InFlight(r, x)' => InFlight(r, x),
         request'[r].pc # "loaded"
  PROVE  Apart'
BY DEF Apart, Alone, NoStaleCopy, InFlight

\* A request that is alone with its execution outdates no copy by its write.
LEMMA WriteAlone ==
  ASSUME TypeOK, Alone, NEW r \in Request, Write(r)
  PROVE  /\ \A o \in Request : o # r => request'[o] = request[o]
         /\ request'[r] = [request[r] EXCEPT !.pc =
              IF engine = "Ontology" /\ request[r].target = FINISHED
              THEN "stamping" ELSE "written"]
<1> DEFINE e == request[r].exec
           pc == IF engine = "Ontology" /\ request[r].target = FINISHED
                 THEN "stamping" ELSE "written"
           mid == [request EXCEPT ![r].pc = pc]
<1>1. /\ request[r].pc = "loaded" /\ request' = Outdate(mid, e)
      /\ pc \in {"stamping", "written"}
  BY DEF Write
<1>2. request[r] \in Job /\ e \in Execution
  BY <1>1, Fields, JobType
<1> HIDE DEF pc, e
<1>3. /\ mid[r] = [request[r] EXCEPT !.pc = pc] /\ mid[r].pc = pc
      /\ \A o \in Request : o # r => mid[o] = request[o]
  BY <1>2 DEF TypeOK, Job
<1> HIDE DEF mid
<1>4. \A o \in Request : o # r => ~InFlight(o, e)
  BY <1>1, <1>2 DEF Alone, InFlight, e
<1>5. Outdate(mid, e)[r] = mid[r]
  BY <1>1, <1>3 DEF Outdate
<1>6. ASSUME NEW o \in Request, o # r
      PROVE  Outdate(mid, e)[o] = request[o]
  BY <1>3, <1>4, <1>6 DEF Outdate, InFlight
<1>7. QED
  BY <1>1, <1>3, <1>5, <1>6 DEF pc

LEMMA StartApart ==
  ASSUME Exclusive, TypeOK, Apart, NEW r \in Request, NEW e \in Execution,
         \/ Create(r, e) \/ \E op, target : Load(r, e, op, target)
  PROVE  Apart'
<1>1. PICK job : /\ request' = [request EXCEPT ![r] = job]
                 /\ job.exec = e /\ (job.pc = "loaded" => ~job.stale)
  <2>1. CASE Create(r, e)
    <3> DEFINE job == [pc |-> "written", op |-> "create", exec |-> e,
                       target |-> InitialStatus, seen |-> UNBORN,
                       seenEnd |-> FALSE, stale |-> FALSE]
    <3>1. request' = [request EXCEPT ![r] = job]
      BY <2>1 DEF Create
    <3>2. job.pc = "written" /\ job.exec = e
      OBVIOUS
    <3> HIDE DEF job
    <3>3. QED
      BY <3>1, <3>2
  <2>2. ASSUME NEW op, NEW target, Load(r, e, op, target)
        PROVE  \E job : /\ request' = [request EXCEPT ![r] = job]
                        /\ job.exec = e /\ (job.pc = "loaded" => ~job.stale)
    <3> DEFINE job == [pc |-> "loaded", op |-> op, exec |-> e,
                       target |-> target, seen |-> status[e],
                       seenEnd |-> finishTime[e], stale |-> FALSE]
    <3>1. request' = [request EXCEPT ![r] = job]
      BY <2>2 DEF Load
    <3>2. ~job.stale /\ job.exec = e
      OBVIOUS
    <3> HIDE DEF job
    <3>3. QED
      BY <3>1, <3>2
  <2>3. QED
    BY <2>1, <2>2
<1>2. Free(r, e)
  BY DEF Create, Load
<1>3. Alone'
  BY <1>1, <1>2, StartAlone DEF Apart
<1>4. /\ request'[r] = job
      /\ \A o \in Request : o # r => request'[o] = request[o]
  BY <1>1 DEF TypeOK
<1>5. QED
  BY <1>1, <1>3, <1>4 DEF Apart, NoStaleCopy

\* Requests stay apart, whatever fails.
LEMMA NextApart ==
  ASSUME Exclusive, TypeOK, Apart, [Next]_vars
  PROVE  Apart'
<1>1. ASSUME NEW r \in Request, NEW e \in Execution,
             \/ Create(r, e) \/ Run(r, e) \/ Pause(r, e) \/ Finish(r, e)
             \/ Terminate(r, e) \/ Unstop(r, e) \/ Put(r, e)
      PROVE  Apart'
  <2>1. Create(r, e) \/ \E op, target : Load(r, e, op, target)
    BY <1>1 DEF Run, Pause, Finish, Terminate, Unstop, Put
  <2>2. QED
    BY <2>1, StartApart
<1>2. ASSUME NEW r \in Request, \/ Leave(r) \/ Announce(r) \/ AnnounceInPart(r)
             \/ Crash(r)
      PROVE  Apart'
  <2>1. request' = [request EXCEPT ![r] = NoJob]
    BY <1>2 DEF Leave, Announce, AnnounceInPart, Crash
  <2>2. /\ request'[r].pc = "idle"
        /\ \A o \in Request : o # r => request'[o] = request[o]
    BY <2>1 DEF TypeOK, NoJob
  <2>3. \A x \in Execution : InFlight(r, x)' => InFlight(r, x)
    BY <2>2 DEF InFlight
  <2>4. QED
    BY <2>2, <2>3, MoveApart
<1>3. ASSUME NEW r \in Request, Stamp(r) \/ WriteFails(r)
      PROVE  Apart'
  <2>1. request' = [request EXCEPT ![r].pc = "written"] /\ request[r] \in Job
    BY <1>3, JobType DEF Stamp, WriteFails
  <2>2. /\ request'[r].pc = "written" /\ request'[r].exec = request[r].exec
        /\ \A o \in Request : o # r => request'[o] = request[o]
    BY <2>1 DEF TypeOK, Job
  <2>3. \A x \in Execution : InFlight(r, x)' => InFlight(r, x)
    BY <1>3, <2>2 DEF InFlight, Stamp, WriteFails
  <2>4. QED
    BY <2>2, <2>3, MoveApart
<1>4. ASSUME NEW r \in Request, Write(r)
      PROVE  Apart'
  <2>1. request[r].pc = "loaded" /\ request[r] \in Job
    BY <1>4, JobType DEF Write
  <2>2. /\ request'[r].pc \in {"stamping", "written"}
        /\ request'[r].exec = request[r].exec
        /\ \A o \in Request : o # r => request'[o] = request[o]
    BY <1>4, <2>1, WriteAlone DEF Apart, Job
  <2>3. \A x \in Execution : InFlight(r, x)' => InFlight(r, x)
    BY <2>1, <2>2 DEF InFlight
  <2>4. QED
    BY <2>2, <2>3, MoveApart
<1>5. ASSUME NEW e \in Execution, Delete(e)
      PROVE  Apart'
  <2>1. \A o \in Request : request'[o] = request[o]
    BY <1>5 DEF Delete, Outdate, InFlight
  <2>2. QED
    BY <2>1 DEF Apart, Alone, NoStaleCopy, InFlight
<1>6. CASE UNCHANGED vars
  BY <1>6 DEF vars, Apart, Alone, NoStaleCopy, InFlight
<1>7. QED
  BY <1>1, <1>2, <1>3, <1>4, <1>5, <1>6 DEF Next

LEMMA ApartInvariant ==
  ASSUME Exclusive
  PROVE  Spec => []Apart
<1>1. Init => Apart
  BY DEF Init, Apart, Alone, NoStaleCopy, InFlight, NoJob
<1>2. TypeOK /\ Apart /\ [Next]_vars => Apart'
  BY NextApart
<1>3. Trail => TypeOK
  BY DEF Trail
<1>4. QED
  BY TrailInvariant, <1>1, <1>2, <1>3, PTL DEF Spec

\* A run resumes a stored execution from a resumable state: that
\* runDeliveryExecution validates a copy does no harm while requests for one
\* execution do not overlap, whatever else fails.
THEOREM ResumeTheorem ==
  ASSUME Exclusive
  PROVE  Spec => RunResumesResumable
<1>1. ASSUME Trail, Apart, NEW r \in Request, Write(r), request[r].op = "run"
      PROVE  status[request[r].exec] \in ResumableStates
  BY <1>1 DEF Write, Apart, NoStaleCopy, Trail, CopyFresh, CopyAccepted
<1>2. Trail /\ Apart =>
        [\A r \in Request : Write(r) /\ request[r].op = "run" =>
           status[request[r].exec] \in ResumableStates \cup {GONE}]_vars
  BY <1>1
<1>3. QED
  BY TrailInvariant, ApartInvariant, <1>2, PTL DEF RunResumesResumable

\* What ended stays ended: a step that leaves an ended state would need an
\* outdated copy, an operation that tests nothing, or a state to unstop.
LEMMA NextEnded ==
  ASSUME {"pause", "put"} \cap Ops = {},
         "unstop" \in Ops => ReactivableStates \subseteq InteractiveStates,
         Trail, Apart, JobsMeant, [Next]_vars,
         NEW e \in Execution, status[e] \in EndedStates
  PROVE  status'[e] \in EndedStates
<1>1. /\ EndedStates = {FINISHED, TERMINATED, GONE} /\ UNBORN \notin EndedStates
      /\ EndedStates \cap ResumableStates = {}
      /\ EndedStates \cap InteractiveStates = {}
  BY DEF EndedStates, FINISHED, TERMINATED, GONE, UNBORN, ACTIVE, PAUSED,
         ResumableStates, InteractiveStates
<1>2. status \in [Execution -> Stored]
  BY DEF Trail, TypeOK
<1>3. ASSUME NEW r \in Request, NEW x \in Execution, Create(r, x)
      PROVE  status'[e] \in EndedStates
  BY <1>1, <1>2, <1>3 DEF Create
<1>4. ASSUME NEW x \in Execution, Delete(x)
      PROVE  status'[e] \in EndedStates
  BY <1>1, <1>2, <1>4 DEF Delete
<1>5. ASSUME NEW r \in Request, Write(r), request[r].exec = e
      PROVE  request[r].target \in EndedStates
  <2>1. request[r].pc = "loaded" /\ request[r].seen = status[e]
    BY <1>5 DEF Write, Apart, NoStaleCopy, Trail, CopyFresh
  <2>2. request[r].op \in AllOps \ {"pause", "put"}
    BY <2>1, ConstantsAssumption DEF JobsMeant
  <2>3. request[r].op # "run" /\ request[r].op # "unstop"
    BY <1>1, <2>1 DEF Trail, CopyAccepted, JobsMeant
  <2>4. QED
    BY <1>1, <2>1, <2>2, <2>3 DEF AllOps, JobsMeant
<1>6. ASSUME NEW r \in Request, Write(r)
      PROVE  status'[e] \in EndedStates
  <2>1. \/ status' = status
        \/ status' = [status EXCEPT ![request[r].exec] = request[r].target]
    BY <1>6 DEF Write
  <2>2. QED
    BY <1>2, <1>5, <1>6, <2>1
<1>7. CASE status' = status
  BY <1>7
<1>8. QED
  BY <1>3, <1>4, <1>6, <1>7
     DEF Next, vars, Run, Pause, Finish, Terminate, Unstop, Put, Load, Leave,
         Stamp, WriteFails, Announce, AnnounceInPart, Crash

\* An execution that is finished, terminated or deleted never becomes active
\* or paused again, by however long a sequence of requests, where neither a
\* pause nor a state set over REST is exposed, which test no state, and no
\* ended state is reactivable: requests for one execution must not overlap,
\* but processes may die and updates fail.
THEOREM EndedForGood ==
  ASSUME Exclusive, {"pause", "put"} \cap Ops = {},
         "unstop" \in Ops => ReactivableStates \subseteq InteractiveStates,
         NEW e \in Execution
  PROVE  Spec => [](status[e] \in EndedStates => [](status[e] \in EndedStates))
<1>1. Trail /\ Apart /\ JobsMeant /\ [Next]_vars /\ status[e] \in EndedStates
        => (status[e] \in EndedStates)'
  BY NextEnded
<1>2. QED
  BY TrailInvariant, ApartInvariant, JobsMeantInvariant, <1>1, PTL DEF Spec

-----------------------------------------------------------------------------
\* What keeps the finish time and the state together: a copy with a finish
\* time is of a finished execution, and so is what is about to be stamped.
TimesFinished ==
  /\ NoTimeUnlessFinished
  /\ \A r \in Request : request[r].pc = "loaded" =>
       /\ request[r].op \in {"run", "finish", "unstop"}
       /\ request[r].target # FINISHED => request[r].seen # FINISHED
       /\ request[r].seenEnd => request[r].seen = FINISHED
  /\ \A r \in Request : request[r].pc = "stamping" =>
       status[request[r].exec] = FINISHED

LEMMA LoadTimes ==
  ASSUME TypeOK, TimesFinished, NEW r \in Request, NEW e \in Execution,
         NEW op \in {"run", "finish", "unstop"}, NEW target,
         Load(r, e, op, target),
         target # FINISHED => status[e] # FINISHED
  PROVE  TimesFinished'
<1> DEFINE job == [pc |-> "loaded", op |-> op, exec |-> e, target |-> target,
                   seen |-> status[e], seenEnd |-> finishTime[e],
                   stale |-> FALSE]
<1>1. /\ request' = [request EXCEPT ![r] = job]
      /\ UNCHANGED <<status, finishTime>>
  BY DEF Load
<1>2. /\ job.pc = "loaded" /\ job.op = op /\ job.target = target
      /\ job.seen = status[e] /\ job.seenEnd = finishTime[e]
  OBVIOUS
<1> HIDE DEF job
<1>3. /\ request'[r] = job
      /\ \A o \in Request : o # r => request'[o] = request[o]
  BY <1>1 DEF TypeOK
<1>4. QED
  BY <1>1, <1>2, <1>3 DEF TimesFinished, NoTimeUnlessFinished

\* A write stores a finish time with the finished state only.
LEMMA WriteTimes ==
  ASSUME Trail, Apart, TimesFinished, NEW r \in Request, Write(r)
  PROVE  TimesFinished'
<1>1. /\ TypeOK /\ Alone /\ request[r].pc = "loaded"
      /\ ~request[r].stale
  BY DEF Trail, Apart, NoStaleCopy, Write
<1>2. request[r] \in Job
  BY <1>1, JobType
<1> PICK e \in Execution : e = request[r].exec
  BY <1>2 DEF Job
<1>3. /\ status[e] = request[r].seen /\ status[e] \in State
  BY <1>1 DEF Trail, CopyFresh, CopyAccepted
<1>4. /\ status' = [status EXCEPT ![e] = request[r].target]
      /\ finishTime' = [finishTime EXCEPT ![e] = EndAfter(request[r])]
  BY <1>3 DEF Write
<1>5. /\ status'[e] = request[r].target
      /\ finishTime'[e] = EndAfter(request[r])
      /\ \A x \in Execution : x # e =>
           status'[x] = status[x] /\ finishTime'[x] = finishTime[x]
  BY <1>1, <1>4 DEF TypeOK
<1>6. EndAfter(request[r]) => request[r].target = FINISHED
  <2>1. engine \in AllEngines
    BY <1>1, ConstantsAssumption DEF TypeOK
  <2>2. finishTime[e] \/ request[r].seenEnd => request[r].target = FINISHED
    BY <1>1, <1>3 DEF TimesFinished, NoTimeUnlessFinished
  <2>3. QED
    BY <2>1, <2>2 DEF EndAfter, AllEngines
<1>7. NoTimeUnlessFinished'
  BY <1>5, <1>6 DEF TimesFinished, NoTimeUnlessFinished
<1>8. /\ request'[r].exec = e /\ request'[r].pc # "loaded"
      /\ request'[r].pc = "stamping" => request[r].target = FINISHED
      /\ \A o \in Request : o # r => request'[o] = request[o]
  BY <1>1, <1>2, WriteAlone DEF Job
<1>9. ASSUME NEW o \in Request, request'[o].pc = "stamping"
      PROVE  status'[request'[o].exec] = FINISHED
  <2>1. CASE o = r
    BY <1>5, <1>8, <1>9, <2>1
  <2>2. CASE o # r
    <3>1. request'[o] = request[o] /\ request[o].exec \in Execution
      BY <1>1, <1>8, <1>9, <2>2, Fields
    <3>2. request[o].exec # e
      BY <1>1, <1>9, <2>2, <3>1 DEF Alone, InFlight
    <3>3. QED
      BY <1>5, <1>9, <3>1, <3>2 DEF TimesFinished
  <2>3. QED
    BY <2>1, <2>2
<1>10. QED
  BY <1>7, <1>8, <1>9 DEF TimesFinished

\* A request ends, fails or goes on without touching storage.
LEMMA RequestTimes ==
  ASSUME TimesFinished, NEW r \in Request, UNCHANGED <<status, finishTime>>,
         \A o \in Request : o # r => request'[o] = request[o],
         request'[r].pc \in {"idle", "written"}
  PROVE  TimesFinished'
BY DEF TimesFinished, NoTimeUnlessFinished

\* The second write of the ontology stamps an execution that is finished.
LEMMA StampTimes ==
  ASSUME TypeOK, TimesFinished, NEW r \in Request, Stamp(r)
  PROVE  TimesFinished'
<1>1. /\ request[r].pc = "stamping" /\ status[request[r].exec] = FINISHED
      /\ finishTime' = [finishTime EXCEPT ![request[r].exec] = TRUE]
      /\ request' = [request EXCEPT ![r].pc = "written"]
      /\ status' = status
  BY DEF Stamp, TimesFinished
<1>2. request[r] \in Job
  BY <1>1, JobType
<1>3. /\ request'[r].pc = "written"
      /\ \A o \in Request : o # r => request'[o] = request[o]
  BY <1>1, <1>2 DEF TypeOK, Job
<1>4. NoTimeUnlessFinished'
  BY <1>1 DEF TypeOK, TimesFinished, NoTimeUnlessFinished
<1>5. QED
  BY <1>1, <1>3, <1>4 DEF TimesFinished

\* A new execution is busy with its creation only; one that is deleted is
\* busy with nothing.
LEMMA StorageTimes ==
  ASSUME Exclusive, Trail, TimesFinished, NEW e \in Execution,
         Delete(e) \/ \E r \in Request : Create(r, e)
  PROVE  TimesFinished'
<1>1. \A o \in Request : ~InFlight(o, e)
  BY DEF Delete, Trail, UnbornUntouched, Create
<1>2. \A x \in Execution : x # e =>
        status'[x] = status[x] /\ finishTime'[x] = finishTime[x]
  BY DEF Trail, TypeOK, Create, Delete
<1>3. finishTime'[e] => FALSE
  <2>1. CASE Delete(e)
    BY <2>1 DEF Trail, TypeOK, Delete
  <2>2. CASE \E r \in Request : Create(r, e)
    BY <2>2 DEF TimesFinished, NoTimeUnlessFinished, Create, UNBORN, FINISHED
  <2>3. QED
    BY <2>1, <2>2
<1>4. \A o \in Request : request'[o] = request[o] \/ request'[o].pc = "written"
  <2>1. CASE Delete(e)
    BY <1>1, <2>1 DEF Delete, Outdate, InFlight
  <2>2. ASSUME NEW r \in Request, Create(r, e)
        PROVE  \A o \in Request :
                 request'[o] = request[o] \/ request'[o].pc = "written"
    BY <2>2 DEF Create, Trail, TypeOK
  <2>3. QED
    BY <2>1, <2>2
<1>5. ASSUME NEW o \in Request, request'[o].pc = "stamping"
      PROVE  status'[request'[o].exec] = FINISHED
  <2>1. request'[o] = request[o] /\ request[o].exec \in Execution \ {e}
    BY <1>1, <1>4, <1>5, Fields DEF Trail, InFlight
  <2>2. QED
    BY <1>2, <1>5, <2>1 DEF TimesFinished
<1>6. QED
  BY <1>2, <1>3, <1>4, <1>5 DEF TimesFinished, NoTimeUnlessFinished

LEMMA NextTimes ==
  ASSUME Exclusive, Ops \subseteq {"run", "finish", "unstop"},
         FINISHED \notin ReactivableStates,
         Trail, Apart, TimesFinished, [Next]_vars
  PROVE  TimesFinished'
<1>1. TypeOK
  BY DEF Trail
<1>2. ASSUME NEW r \in Request, NEW e \in Execution,
             \/ Run(r, e) \/ Pause(r, e) \/ Finish(r, e)
             \/ Terminate(r, e) \/ Unstop(r, e) \/ Put(r, e)
      PROVE  TimesFinished'
  <2>1. FINISHED \notin ResumableStates
    BY DEF FINISHED, ResumableStates, ACTIVE, PAUSED
  <2>2. PICK op, target :
          /\ op \in {"run", "finish", "unstop"}
          /\ Load(r, e, op, target)
          /\ target # FINISHED => status[e] # FINISHED
    BY <1>2, <2>1
       DEF Run, Pause, Finish, Terminate, Unstop, Put, Load
  <2>3. QED
    BY <1>1, <2>2, LoadTimes
<1>3. ASSUME NEW r \in Request,
             \/ Leave(r) \/ Announce(r) \/ AnnounceInPart(r)
             \/ Crash(r) \/ WriteFails(r)
      PROVE  TimesFinished'
  <2>1. /\ request' = [request EXCEPT ![r] = NoJob]
           \/ /\ request' = [request EXCEPT ![r].pc = "written"]
              /\ request[r] \in Job
        /\ UNCHANGED <<status, finishTime>>
    BY <1>1, <1>3, JobType
       DEF Leave, Announce, AnnounceInPart, Crash, WriteFails
  <2>2. /\ request'[r].pc \in {"idle", "written"}
        /\ \A o \in Request : o # r => request'[o] = request[o]
    BY <1>1, <2>1 DEF TypeOK, Job, NoJob
  <2>3. QED
    BY <2>1, <2>2, RequestTimes
<1>4. ASSUME NEW r \in Request, Stamp(r) \/ Write(r)
      PROVE  TimesFinished'
  BY <1>1, <1>4, StampTimes, WriteTimes
<1>5. ASSUME NEW e \in Execution, Delete(e) \/ \E r \in Request : Create(r, e)
      PROVE  TimesFinished'
  BY <1>5, StorageTimes
<1>6. CASE UNCHANGED vars
  BY <1>6 DEF vars, TimesFinished, NoTimeUnlessFinished
<1>7. QED
  BY <1>2, <1>3, <1>4, <1>5, <1>6 DEF Next

\* Where executions are run, finished and unstopped only, finished ones are
\* not reactivable, and requests for one execution do not overlap, only a
\* finished execution has a finish time (getFinishTime), in every engine and
\* whatever fails.
THEOREM FinishTimeExactTheorem ==
  ASSUME Exclusive, Ops \subseteq {"run", "finish", "unstop"},
         FINISHED \notin ReactivableStates
  PROVE  Spec => []NoTimeUnlessFinished
<1>1. Init => TimesFinished
  BY DEF Init, TimesFinished, NoTimeUnlessFinished, NoJob
<1>2. Trail /\ Apart /\ TimesFinished /\ [Next]_vars => TimesFinished'
  BY NextTimes
<1>3. TimesFinished => NoTimeUnlessFinished
  BY DEF TimesFinished
<1>4. QED
  BY TrailInvariant, ApartInvariant, <1>1, <1>2, <1>3, PTL DEF Spec

\* Requests that do not overlap and do not fail disturb no execution: then
\* the invariants of the state service hold without their exceptions.
THEOREM UndisturbedTheorem ==
  ASSUME Undisturbed
  PROVE  Spec => [](disturbed = {})
<1>1. Init => Serial
  BY InitSerial
<1>2. Trail /\ Serial /\ [Next]_vars => Serial'
  BY NextSerial
<1>3. Serial => disturbed = {}
  BY DEF Serial, Fresh
<1>4. QED
  BY TrailInvariant, <1>1, <1>2, <1>3, PTL DEF Spec
=============================================================================
