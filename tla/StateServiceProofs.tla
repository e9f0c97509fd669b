------------------------- MODULE StateServiceProofs -------------------------
(***************************************************************************)
(* Proofs about the state service for any executions, requests, operations *)
(* and engines. The inductive invariant Trail says what ties the copies in *)
(* the requests to the storage and to what the listeners were told.        *)
(***************************************************************************)
EXTENDS StateService, TLAPS

Pending(r) == request[r].pc \in {"stamping", "written"}

\* Two requests that both wrote have disturbed the execution.
WriterAlone ==
  \A r1, r2 \in Request : \A e \in Execution :
    e \notin disturbed /\ Wrote(r1, e) /\ Wrote(r2, e) => r1 = r2

\* What a pending request wrote is what is stored.
WriterStored ==
  \A r \in Request : \A e \in Execution :
    e \notin disturbed /\ Wrote(r, e) /\ status[e] \in State
      => status[e] = request[r].target

\* A copy that is not stale agrees with the storage.
CopyFresh ==
  \A r \in Request :
    request[r].pc = "loaded" /\ ~request[r].stale
      => status[request[r].exec] = request[r].seen

\* A loaded copy was taken from a stored execution and passed its test.
CopyAccepted ==
  \A r \in Request : request[r].pc = "loaded" =>
    /\ request[r].seen \in State
    /\ request[r].op # "create"
    /\ request[r].op = "run" => request[r].seen \in ResumableStates

\* A pending request started from the state the listeners know.
TrailFollows ==
  \A r \in Request : \A e \in Execution :
    e \notin disturbed /\ Wrote(r, e) => request[r].seen = announced[e]

\* A due Reactivated event has a request that will emit it, and conversely.
DebtHasWriter ==
  \A e \in Execution : e \in owed \ disturbed =>
    \E r \in Request : Wrote(r, e) /\ Reactivates(request[r])

WriterOwes ==
  \A r \in Request : \A e \in Execution :
    e \notin disturbed /\ Wrote(r, e) /\ Reactivates(request[r]) => e \in owed

\* Only the gap between the two ontology writes separates the finished state
\* from its time.
FinishStamped ==
  \A e \in Execution :
    /\ status[e] = FINISHED
    /\ e \notin disturbed
    /\ \A r \in Request : ~(request[r].pc = "stamping" /\ request[r].exec = e)
    => finishTime[e]

\* Nothing is in flight for an identifier not yet used.
UnbornUntouched ==
  \A e \in Execution : status[e] = UNBORN =>
    announced[e] = UNBORN /\ \A r \in Request : ~InFlight(r, e)

Trail ==
  /\ TypeOK
  /\ WriterAlone /\ WriterStored /\ CopyFresh /\ CopyAccepted
  /\ TrailFollows /\ DebtHasWriter /\ WriterOwes
  /\ FinishStamped /\ UnbornUntouched /\ AuditExact
-----------------------------------------------------------------------------
LEMMA StateFacts ==
  /\ State \subseteq Stored /\ UNBORN \in Stored /\ GONE \in Stored
  /\ UNBORN \notin State /\ GONE \notin State
  /\ InitialStatus \in State
  /\ ResumableStates = InteractiveStates
  /\ {ACTIVE, PAUSED, FINISHED, TERMINATED} \subseteq State
  /\ DeliveriesStates \subseteq State
BY DEF State, Stored, UNBORN, GONE, InitialStatus, ACTIVE, PAUSED, FINISHED,
       TERMINATED, ResumableStates, InteractiveStates, DeliveriesStates

\* A request that is not idle holds a job.
LEMMA JobType ==
  ASSUME TypeOK, NEW r \in Request, request[r].pc # "idle"
  PROVE  request[r] \in Job
BY DEF TypeOK, NoJob

\* Outdating copies changes nothing but the stale flag of loaded requests.
LEMMA OutdateFields ==
  ASSUME NEW req \in [Request -> Job \cup {NoJob}], NEW e \in Execution
  PROVE  /\ Outdate(req, e) \in [Request -> Job \cup {NoJob}]
         /\ \A r \in Request :
              /\ Outdate(req, e)[r].pc = req[r].pc
              /\ Outdate(req, e)[r].pc # "loaded" => Outdate(req, e)[r] = req[r]
              /\ Outdate(req, e)[r].pc # "idle" =>
                   /\ Outdate(req, e)[r].exec = req[r].exec
                   /\ Outdate(req, e)[r].op = req[r].op
                   /\ Outdate(req, e)[r].target = req[r].target
                   /\ Outdate(req, e)[r].seen = req[r].seen
              /\ Outdate(req, e)[r].pc = "loaded" =>
                   IF req[r].exec = e THEN Outdate(req, e)[r].stale
                   ELSE Outdate(req, e)[r] = req[r]
<1>1. ASSUME NEW r \in Request, req[r].pc = "loaded"
      PROVE  req[r] \in Job
  BY <1>1 DEF NoJob
<1>2. ASSUME NEW r \in Request
      PROVE  Outdate(req, e)[r] =
               IF req[r].pc = "loaded" /\ req[r].exec = e
               THEN [req[r] EXCEPT !.stale = TRUE] ELSE req[r]
  BY DEF Outdate
<1>3. ASSUME NEW r \in Request
      PROVE  Outdate(req, e)[r] \in Job \cup {NoJob}
  BY <1>1, <1>2 DEF Job
<1>4. Outdate(req, e) \in [Request -> Job \cup {NoJob}]
  BY <1>3 DEF Outdate
<1>5. ASSUME NEW r \in Request, req[r].pc = "loaded", req[r].exec = e
      PROVE  /\ Outdate(req, e)[r].pc = "loaded"
             /\ Outdate(req, e)[r].exec = req[r].exec
             /\ Outdate(req, e)[r].op = req[r].op
             /\ Outdate(req, e)[r].target = req[r].target
             /\ Outdate(req, e)[r].seen = req[r].seen
             /\ Outdate(req, e)[r].stale
  BY <1>1, <1>2, <1>5 DEF Job
<1>6. ASSUME NEW r \in Request, ~(req[r].pc = "loaded" /\ req[r].exec = e)
      PROVE  Outdate(req, e)[r] = req[r]
  BY <1>2, <1>6
<1>7. QED
  BY <1>4, <1>5, <1>6

-----------------------------------------------------------------------------
\* The initial states satisfy the invariant.
LEMMA InitTrail == Init => Trail
BY StateFacts
   DEF Init, Trail, TypeOK, WriterAlone, WriterStored, CopyFresh,
       CopyAccepted, TrailFollows, DebtHasWriter, WriterOwes, FinishStamped,
       UnbornUntouched, AuditExact, Wrote, InFlight, NoJob, Stored, UNBORN,
       FINISHED, State, ACTIVE, PAUSED, TERMINATED

\* What an idle request is, and what the fields of a job are.
LEMMA Fields ==
  ASSUME TypeOK, NEW r \in Request
  PROVE  /\ request[r].pc = "idle" <=> request[r] = NoJob
         /\ request[r].pc # "idle" =>
              /\ request[r].pc \in {"loaded", "stamping", "written"}
              /\ request[r].op \in AllOps \cup {"create"}
              /\ request[r].exec \in Execution
              /\ request[r].target \in State
              /\ request[r].seen \in Stored
              /\ request[r].seenEnd \in BOOLEAN
              /\ request[r].stale \in BOOLEAN
<1>1. NoJob.pc = "idle"
  BY DEF NoJob
<1>2. \A q \in Job : q.pc # "idle"
  BY DEF Job
<1>3. request[r] \in Job \/ request[r] = NoJob
  BY DEF TypeOK
<1>4. QED
  BY <1>1, <1>2, <1>3 DEF Job

-----------------------------------------------------------------------------
\* A new execution.
LEMMA CreateTrail ==
  ASSUME Trail, NEW r \in Request, NEW e \in Execution, Create(r, e)
  PROVE  Trail'
<1> DEFINE job == [pc |-> "written", op |-> "create", exec |-> e,
                   target |-> InitialStatus, seen |-> UNBORN,
                   seenEnd |-> FALSE, stale |-> FALSE]
<1>1. TypeOK
  BY DEF Trail
<1>2. job \in Job
  BY StateFacts DEF Job
<1>3. /\ request' = [request EXCEPT ![r] = job]
      /\ status' = [status EXCEPT ![e] = InitialStatus]
      /\ UNCHANGED <<engine, finishTime, announced, owed, disturbed>>
  BY DEF Create
<1> HIDE DEF job
<1>4. TypeOK'
  BY <1>1, <1>2, <1>3, StateFacts DEF TypeOK
<1>5. /\ request'[r] = job
      /\ \A o \in Request : o # r => request'[o] = request[o]
      /\ status'[e] = InitialStatus
      /\ \A x \in Execution : x # e => status'[x] = status[x]
  BY <1>1, <1>3 DEF TypeOK
<1>6. /\ job.pc = "written" /\ job.exec = e /\ job.seen = UNBORN
      /\ job.target = InitialStatus /\ ~Reactivates(job)
  BY DEF job, Reactivates
<1>7. /\ announced[e] = UNBORN
      /\ \A o \in Request : ~InFlight(o, e)
  BY DEF Trail, UnbornUntouched, Create
<1>8. request[r] = NoJob /\ request[r].pc = "idle"
  BY <1>1, Fields DEF Create, Free
<1>9. \A o \in Request, x \in Execution :
        Wrote(o, x)' <=> Wrote(o, x) \/ (o = r /\ x = e)
  BY <1>5, <1>6, <1>8 DEF Wrote
<1>10. WriterAlone'
  BY <1>3, <1>7, <1>9 DEF Trail, WriterAlone, Wrote, InFlight
<1>11. WriterStored'
  BY <1>3, <1>5, <1>6, <1>7, <1>9 DEF Trail, WriterStored, Wrote, InFlight
<1>12. CopyFresh'
  <2> SUFFICES ASSUME NEW o \in Request, request'[o].pc = "loaded",
                      ~request'[o].stale
               PROVE  status'[request'[o].exec] = request'[o].seen
    BY DEF CopyFresh
  <2>1. o # r /\ request'[o] = request[o]
    BY <1>5, <1>6
  <2>2. request[o].exec # e
    BY <1>7, <2>1 DEF InFlight
  <2>3. QED
    BY <1>1, <1>5, <2>1, <2>2, Fields DEF Trail, CopyFresh
<1>13. CopyAccepted'
  BY <1>5, <1>6 DEF Trail, CopyAccepted
<1>14. TrailFollows'
  <2> SUFFICES ASSUME NEW o \in Request, NEW x \in Execution,
                      x \notin disturbed, Wrote(o, x)'
               PROVE  request'[o].seen = announced[x]
    BY <1>3 DEF TrailFollows
  <2>1. CASE o = r
    BY <1>5, <1>6, <1>7, <2>1 DEF Wrote
  <2>2. CASE o # r
    BY <1>5, <1>9, <2>2 DEF Trail, TrailFollows
  <2>3. QED
    BY <2>1, <2>2
<1>15. DebtHasWriter'
  <2> SUFFICES ASSUME NEW x \in Execution, x \in owed, x \notin disturbed
               PROVE  \E o \in Request : Wrote(o, x)' /\ Reactivates(request'[o])
    BY <1>3 DEF DebtHasWriter, Reactivates
  <2>1. PICK o \in Request : Wrote(o, x) /\ Reactivates(request[o])
    BY DEF Trail, DebtHasWriter
  <2>2. o # r
    BY <1>8, <2>1 DEF Wrote
  <2>3. QED
    BY <1>5, <1>9, <2>1, <2>2
<1>16. WriterOwes'
  BY <1>3, <1>5, <1>6, <1>9 DEF Trail, WriterOwes, Reactivates
<1>17. FinishStamped'
  <2> SUFFICES ASSUME NEW x \in Execution, status'[x] = FINISHED,
                      x \notin disturbed,
                      \A o \in Request : ~(request'[o].pc = "stamping"
                                            /\ request'[o].exec = x)
               PROVE  finishTime[x]
    BY <1>3 DEF FinishStamped
  <2>1. x # e
    BY <1>5 DEF InitialStatus, ACTIVE, FINISHED
  <2>2. \A o \in Request : ~(request[o].pc = "stamping" /\ request[o].exec = x)
    BY <1>5, <1>8
  <2>3. QED
    BY <1>5, <2>1, <2>2 DEF Trail, FinishStamped
<1>18. UnbornUntouched'
  BY <1>3, <1>5, <1>6, StateFacts DEF Trail, UnbornUntouched, InFlight
<1>19. AuditExact'
  BY <1>3, <1>5, <1>9 DEF Trail, AuditExact, Settled
<1>20. QED
  BY <1>4, <1>10, <1>11, <1>12, <1>13, <1>14, <1>15, <1>16, <1>17, <1>18,
     <1>19 DEF Trail

\* The execution object is loaded; a run has tested its state.
LEMMA LoadTrail ==
  ASSUME Trail, NEW r \in Request, NEW e \in Execution, NEW op,
         NEW target \in State, Load(r, e, op, target),
         op = "run" => status[e] \in ResumableStates
  PROVE  Trail'
<1> DEFINE job == [pc |-> "loaded", op |-> op, exec |-> e, target |-> target,
                   seen |-> status[e], seenEnd |-> finishTime[e],
                   stale |-> FALSE]
<1>1. TypeOK
  BY DEF Trail
<1>2. op \in AllOps /\ op # "create"
  BY ConstantsAssumption DEF AllOps, Load
<1>3. /\ request' = [request EXCEPT ![r] = job]
      /\ UNCHANGED <<engine, status, finishTime, announced, owed, disturbed>>
      /\ status[e] \in State
      /\ op = "run" => status[e] \in ResumableStates
      /\ request[r] = NoJob
  BY DEF Load, Free
<1>4. job \in Job
  BY <1>1, <1>2, StateFacts DEF Job, TypeOK
<1>5. /\ job.pc = "loaded" /\ job.exec = e /\ job.seen = status[e]
      /\ job.op = op
  OBVIOUS
<1> HIDE DEF job
<1>6. TypeOK'
  BY <1>1, <1>3, <1>4 DEF TypeOK
<1>7. /\ request'[r] = job
      /\ \A o \in Request : o # r => request'[o] = request[o]
  BY <1>1, <1>3 DEF TypeOK
<1>8. request[r].pc = "idle"
  BY <1>1, <1>3, Fields
<1>9. \A o \in Request, x \in Execution : Wrote(o, x)' <=> Wrote(o, x)
  BY <1>5, <1>7, <1>8 DEF Wrote
<1>10. \A o \in Request, x \in Execution : Wrote(o, x) => o # r
  BY <1>8 DEF Wrote
<1>11. WriterAlone'
  BY <1>3, <1>9 DEF Trail, WriterAlone
<1>12. WriterStored'
  BY <1>3, <1>7, <1>9, <1>10 DEF Trail, WriterStored
<1>13. CopyFresh'
  BY <1>3, <1>5, <1>7 DEF Trail, CopyFresh
<1>14. CopyAccepted'
  BY <1>2, <1>3, <1>5, <1>7 DEF Trail, CopyAccepted
<1>15. TrailFollows'
  BY <1>3, <1>7, <1>9, <1>10 DEF Trail, TrailFollows
<1>16. DebtHasWriter'
  <2> SUFFICES ASSUME NEW x \in Execution, x \in owed, x \notin disturbed
               PROVE  \E o \in Request : Wrote(o, x)' /\ Reactivates(request'[o])
    BY <1>3 DEF DebtHasWriter, Reactivates
  <2>1. PICK o \in Request : Wrote(o, x) /\ Reactivates(request[o])
    BY DEF Trail, DebtHasWriter
  <2>2. QED
    BY <1>7, <1>9, <1>10, <2>1
<1>17. WriterOwes'
  <2> SUFFICES ASSUME NEW o \in Request, NEW x \in Execution,
                      x \notin disturbed, Wrote(o, x)',
                      Reactivates(request'[o])
               PROVE  x \in owed
    BY <1>3 DEF WriterOwes, Reactivates
  <2>1. QED
    BY <1>7, <1>9, <1>10 DEF Trail, WriterOwes
<1>18. FinishStamped'
  BY <1>3, <1>7, <1>8 DEF Trail, FinishStamped
<1>19. UnbornUntouched'
  BY <1>3, <1>5, <1>7, StateFacts DEF Trail, UnbornUntouched, InFlight
<1>20. AuditExact'
  BY <1>3, <1>9 DEF Trail, AuditExact, Settled
<1>21. QED
  BY <1>6, <1>11, <1>12, <1>13, <1>14, <1>15, <1>16, <1>17, <1>18, <1>19,
     <1>20 DEF Trail

\* A request ends before its write.
LEMMA LeaveTrail ==
  ASSUME Trail, NEW r \in Request, Leave(r)
  PROVE  Trail'
<1>1. TypeOK /\ NoJob.pc = "idle"
  BY DEF Trail, NoJob
<1>2. /\ request' = [request EXCEPT ![r] = NoJob]
      /\ request[r].pc = "loaded"
      /\ UNCHANGED <<engine, status, finishTime, announced, owed, disturbed>>
  BY DEF Leave
<1>3. TypeOK'
  BY <1>1, <1>2 DEF TypeOK
<1>4. /\ request'[r].pc = "idle"
      /\ \A o \in Request : o # r => request'[o] = request[o]
  BY <1>1, <1>2 DEF TypeOK
<1>5. \A o \in Request, x \in Execution :
        /\ Wrote(o, x)' <=> Wrote(o, x)
        /\ Wrote(o, x) => request'[o] = request[o]
  BY <1>2, <1>4 DEF Wrote
<1>6. WriterAlone' /\ WriterStored' /\ TrailFollows'
  BY <1>2, <1>5 DEF Trail, WriterAlone, WriterStored, TrailFollows
<1>7. CopyFresh' /\ CopyAccepted'
  BY <1>2, <1>4 DEF Trail, CopyFresh, CopyAccepted
<1>8. DebtHasWriter' /\ WriterOwes'
  BY <1>2, <1>5 DEF Trail, DebtHasWriter, WriterOwes, Reactivates
<1>9. FinishStamped' /\ UnbornUntouched' /\ AuditExact'
  BY <1>2, <1>4, <1>5
     DEF Trail, FinishStamped, UnbornUntouched, InFlight, AuditExact, Settled
<1>10. QED
  BY <1>3, <1>6, <1>7, <1>8, <1>9 DEF Trail

\* A process dies after its write, before or between its events: its execution
\* counts as disturbed.
LEMMA CrashTrail ==
  ASSUME Trail, NEW r \in Request, Crash(r) \/ AnnounceInPart(r)
  PROVE  Trail'
<1> DEFINE e == request[r].exec
<1>1. TypeOK /\ NoJob.pc = "idle"
  BY DEF Trail, NoJob
<1>2. /\ request' = [request EXCEPT ![r] = NoJob]
      /\ request[r].pc \in {"stamping", "written"}
      /\ disturbed' = disturbed \cup {e}
      /\ \/ announced' = announced
         \/ announced' = [announced EXCEPT ![e] = request[r].target]
      /\ UNCHANGED <<engine, status, finishTime, owed>>
  BY DEF Crash, AnnounceInPart
<1>3. e \in Execution /\ request[r].target \in Stored /\ Wrote(r, e)
  BY <1>1, <1>2, Fields, StateFacts DEF Wrote
<1> HIDE DEF e
<1>4. TypeOK' /\ \A x \in Execution : x # e => announced'[x] = announced[x]
  BY <1>1, <1>2, <1>3 DEF TypeOK
<1>5. /\ request'[r].pc = "idle"
      /\ \A o \in Request : o # r => request'[o] = request[o]
  BY <1>1, <1>2 DEF TypeOK
<1>6. \A o \in Request, x \in Execution :
        x # e => /\ Wrote(o, x)' <=> Wrote(o, x)
                 /\ Wrote(o, x) => request'[o] = request[o]
  BY <1>2, <1>5 DEF Wrote, e
<1>7. WriterAlone' /\ WriterStored' /\ TrailFollows'
  BY <1>2, <1>4, <1>6 DEF Trail, WriterAlone, WriterStored, TrailFollows
<1>8. CopyFresh' /\ CopyAccepted'
  BY <1>2, <1>5 DEF Trail, CopyFresh, CopyAccepted
<1>9. DebtHasWriter' /\ WriterOwes'
  BY <1>2, <1>6 DEF Trail, DebtHasWriter, WriterOwes, Reactivates
<1>10. FinishStamped'
  BY <1>2, <1>5 DEF Trail, FinishStamped, e
<1>11. UnbornUntouched' /\ AuditExact'
  BY <1>2, <1>3, <1>4, <1>5, <1>6
     DEF Trail, UnbornUntouched, InFlight, AuditExact, Settled, Wrote
<1>12. QED
  BY <1>4, <1>7, <1>8, <1>9, <1>10, <1>11 DEF Trail

\* The second write of a finish in the ontology.
LEMMA StampTrail ==
  ASSUME Trail, NEW r \in Request, Stamp(r)
  PROVE  Trail'
<1> DEFINE e == request[r].exec
<1>1. TypeOK
  BY DEF Trail
<1>2. /\ request' = [request EXCEPT ![r].pc = "written"]
      /\ request[r].pc = "stamping"
      /\ finishTime' = [finishTime EXCEPT ![e] = TRUE]
      /\ UNCHANGED <<engine, status, announced, owed, disturbed>>
  BY DEF Stamp
<1>3. e \in Execution /\ request[r] \in Job
  BY <1>1, <1>2, Fields, JobType
<1> HIDE DEF e
<1>4. [request[r] EXCEPT !.pc = "written"] \in Job
  BY <1>3 DEF Job
<1>5. TypeOK'
  BY <1>1, <1>2, <1>3, <1>4 DEF TypeOK
<1>6. /\ request'[r] = [request[r] EXCEPT !.pc = "written"]
      /\ \A o \in Request : o # r => request'[o] = request[o]
      /\ finishTime'[e]
      /\ \A x \in Execution : x # e => finishTime'[x] = finishTime[x]
  BY <1>1, <1>2, <1>3 DEF TypeOK
<1>7. /\ request'[r].pc = "written"
      /\ request'[r].exec = request[r].exec
      /\ request'[r].op = request[r].op
      /\ request'[r].target = request[r].target
      /\ request'[r].seen = request[r].seen
  BY <1>3, <1>6 DEF Job
<1>8. \A o \in Request :
        /\ \A x \in Execution : Wrote(o, x)' <=> Wrote(o, x)
        /\ request'[o].target = request[o].target
        /\ request'[o].seen = request[o].seen
        /\ Reactivates(request'[o]) <=> Reactivates(request[o])
        /\ request'[o].pc = "loaded" => o # r
  BY <1>2, <1>6, <1>7 DEF Wrote, Reactivates
<1>9. WriterAlone' /\ WriterStored' /\ TrailFollows'
  BY <1>2, <1>8 DEF Trail, WriterAlone, WriterStored, TrailFollows
<1>10. CopyFresh' /\ CopyAccepted'
  BY <1>2, <1>6, <1>8 DEF Trail, CopyFresh, CopyAccepted
<1>11. DebtHasWriter'
  <2> SUFFICES ASSUME NEW x \in Execution, x \in owed, x \notin disturbed
               PROVE  \E o \in Request : Wrote(o, x)' /\ Reactivates(request'[o])
    BY <1>2 DEF DebtHasWriter, Reactivates
  <2>1. PICK o \in Request : Wrote(o, x) /\ Reactivates(request[o])
    BY DEF Trail, DebtHasWriter
  <2>2. QED
    BY <1>8, <2>1
<1>12. WriterOwes'
  <2> SUFFICES ASSUME NEW o \in Request, NEW x \in Execution,
                      x \notin disturbed, Wrote(o, x)',
                      Reactivates(request'[o])
               PROVE  x \in owed
    BY <1>2 DEF WriterOwes, Reactivates
  <2>1. QED
    BY <1>8 DEF Trail, WriterOwes
<1>13. FinishStamped'
  <2> SUFFICES ASSUME NEW x \in Execution, status[x] = FINISHED,
                      x \notin disturbed, x # e,
                      \A o \in Request : ~(request'[o].pc = "stamping"
                                            /\ request'[o].exec = x)
               PROVE  finishTime[x]
    BY <1>2, <1>6 DEF FinishStamped
  <2>1. \A o \in Request : ~(request[o].pc = "stamping" /\ request[o].exec = x)
    BY <1>6 DEF e
  <2>2. QED
    BY <2>1 DEF Trail, FinishStamped
<1>14. UnbornUntouched'
  BY <1>2, <1>6, <1>7 DEF Trail, UnbornUntouched, InFlight
<1>15. AuditExact'
  BY <1>2, <1>8 DEF Trail, AuditExact, Settled
<1>16. QED
  BY <1>5, <1>9, <1>10, <1>11, <1>12, <1>13, <1>14, <1>15 DEF Trail

\* A failed update leaves the storage alone but the events follow.
LEMMA WriteFailsTrail ==
  ASSUME Trail, NEW r \in Request, WriteFails(r)
  PROVE  Trail'
<1> DEFINE e == request[r].exec
<1>1. TypeOK
  BY DEF Trail
<1>2. /\ request' = [request EXCEPT ![r].pc = "written"]
      /\ request[r].pc = "loaded"
      /\ disturbed' = disturbed \cup {e}
      /\ UNCHANGED <<engine, status, finishTime, announced, owed>>
  BY DEF WriteFails
<1>3. e \in Execution /\ request[r] \in Job
  BY <1>1, <1>2, Fields, JobType
<1> HIDE DEF e
<1>4. [request[r] EXCEPT !.pc = "written"] \in Job
  BY <1>3 DEF Job
<1>5. TypeOK'
  BY <1>1, <1>2, <1>3, <1>4 DEF TypeOK
<1>6. /\ request'[r] = [request[r] EXCEPT !.pc = "written"]
      /\ \A o \in Request : o # r => request'[o] = request[o]
  BY <1>1, <1>2, <1>3 DEF TypeOK
<1>7. request'[r].pc = "written" /\ request'[r].exec = e
  BY <1>3, <1>6 DEF Job, e
<1>8. \A o \in Request, x \in Execution :
        x # e => /\ Wrote(o, x)' <=> Wrote(o, x)
                 /\ Wrote(o, x) => request'[o] = request[o]
  BY <1>2, <1>6, <1>7 DEF Wrote, e
<1>9. WriterAlone' /\ WriterStored' /\ TrailFollows'
  BY <1>2, <1>8 DEF Trail, WriterAlone, WriterStored, TrailFollows
<1>10. CopyFresh' /\ CopyAccepted'
  BY <1>2, <1>6, <1>7 DEF Trail, CopyFresh, CopyAccepted
<1>11. DebtHasWriter' /\ WriterOwes'
  BY <1>2, <1>8 DEF Trail, DebtHasWriter, WriterOwes, Reactivates
<1>12. FinishStamped'
  BY <1>2, <1>6, <1>7 DEF Trail, FinishStamped
<1>13. UnbornUntouched' /\ AuditExact'
  BY <1>2, <1>6, <1>7, <1>8
     DEF Trail, UnbornUntouched, InFlight, AuditExact, Settled, e
<1>14. QED
  BY <1>5, <1>9, <1>10, <1>11, <1>12, <1>13 DEF Trail

\* The listeners hear the state the pending request wrote.
LEMMA AnnounceTrail ==
  ASSUME Trail, NEW r \in Request, Announce(r)
  PROVE  Trail'
<1>1. TypeOK /\ NoJob.pc = "idle"
  BY DEF Trail, NoJob
<1> PICK e \in Execution : e = request[r].exec
  BY <1>1, Fields DEF Announce
<1>2. /\ request' = [request EXCEPT ![r] = NoJob]
      /\ request[r].pc = "written"
      /\ announced' = [announced EXCEPT ![e] = request[r].target]
      /\ owed' = IF Reactivates(request[r]) THEN owed \ {e} ELSE owed
      /\ UNCHANGED <<engine, status, finishTime, disturbed>>
  BY DEF Announce
<1>3. request[r].target \in Stored /\ Wrote(r, e)
  BY <1>1, <1>2, Fields, StateFacts DEF Wrote
<1>4. TypeOK'
  BY <1>1, <1>2, <1>3 DEF TypeOK
<1>5. /\ request'[r].pc = "idle"
      /\ \A o \in Request : o # r => request'[o] = request[o]
      /\ announced'[e] = request[r].target
      /\ \A x \in Execution : x # e => announced'[x] = announced[x]
  BY <1>1, <1>2, <1>3 DEF TypeOK
<1>6. \A o \in Request, x \in Execution :
        /\ Wrote(o, x)' <=> Wrote(o, x) /\ o # r
        /\ Wrote(o, x)' => request'[o] = request[o]
        /\ Wrote(r, x) => x = e
  BY <1>5 DEF Wrote
<1>7. WriterAlone' /\ WriterStored'
  BY <1>2, <1>6 DEF Trail, WriterAlone, WriterStored
<1>8. ASSUME e \notin disturbed
      PROVE  \A o \in Request : ~Wrote(o, e)'
  BY <1>3, <1>6, <1>8 DEF Trail, WriterAlone
<1>9. TrailFollows'
  BY <1>2, <1>5, <1>6, <1>8 DEF Trail, TrailFollows
<1>10. CopyFresh' /\ CopyAccepted'
  BY <1>2, <1>5 DEF Trail, CopyFresh, CopyAccepted
<1>11. DebtHasWriter'
  <2> SUFFICES ASSUME NEW x \in Execution, x \in owed', x \notin disturbed
               PROVE  \E o \in Request : Wrote(o, x)' /\ Reactivates(request'[o])
    BY <1>2 DEF DebtHasWriter, Reactivates
  <2>1. x \in owed
    BY <1>2
  <2>2. PICK o \in Request : Wrote(o, x) /\ Reactivates(request[o])
    BY <2>1 DEF Trail, DebtHasWriter
  <2>3. o # r
    BY <1>2, <1>6, <2>2
  <2>4. QED
    BY <1>6, <2>2, <2>3
<1>12. WriterOwes'
  <2> SUFFICES ASSUME NEW o \in Request, NEW x \in Execution,
                      x \notin disturbed, Wrote(o, x)',
                      Reactivates(request'[o])
               PROVE  x \in owed'
    BY <1>2 DEF WriterOwes, Reactivates
  <2>1. x # e
    BY <1>8
  <2>2. x \in owed
    BY <1>6 DEF Trail, WriterOwes
  <2>3. QED
    BY <1>2, <2>1, <2>2
<1>13. FinishStamped'
  BY <1>2, <1>5 DEF Trail, FinishStamped
<1>14. UnbornUntouched'
  BY <1>2, <1>3, <1>5 DEF Trail, UnbornUntouched, InFlight, Wrote
<1>15. AuditExact'
  <2> SUFFICES ASSUME NEW x \in Execution, status[x] \in State,
                      x \notin disturbed, \A o \in Request : ~Wrote(o, x)'
               PROVE  announced'[x] = status[x]
    BY <1>2 DEF AuditExact, Settled
  <2>1. CASE x = e
    BY <1>3, <1>5, <2>1 DEF Trail, WriterStored
  <2>2. CASE x # e
    BY <1>5, <1>6, <2>2 DEF Trail, AuditExact, Settled
  <2>3. QED
    BY <2>1, <2>2
<1>16. QED
  BY <1>4, <1>7, <1>9, <1>10, <1>11, <1>12, <1>13, <1>14, <1>15 DEF Trail

\* A request writes over whatever is stored.
LEMMA WriteTrail ==
  ASSUME Trail, NEW r \in Request, Write(r)
  PROVE  Trail'
<1>1. TypeOK
  BY DEF Trail
<1> PICK e \in Execution : e = request[r].exec
  BY <1>1, Fields DEF Write
<1> DEFINE t == request[r].target
           found == status[e] \in State \/ engine # "Rds"
           pc == IF engine = "Ontology" /\ t = FINISHED
                 THEN "stamping" ELSE "written"
           mid == [request EXCEPT ![r].pc = pc]
<1>2. /\ request[r].pc = "loaded"
      /\ request[r].seen # t
      /\ status' = IF found THEN [status EXCEPT ![e] = t] ELSE status
      /\ finishTime' = IF found
           THEN [finishTime EXCEPT ![e] = EndAfter(request[r])] ELSE finishTime
      /\ owed' = IF found /\ ~Interactive(status[e]) /\ Interactive(t)
                 THEN owed \cup {e} ELSE owed
      /\ request' = Outdate(mid, e)
      /\ disturbed' = IF request[r].stale \/ \E o \in Request : Wrote(o, e)
                      THEN disturbed \cup {e} ELSE disturbed
      /\ UNCHANGED <<engine, announced>>
  BY DEF Write
<1>3. /\ request[r] \in Job /\ t \in State
      /\ pc \in {"stamping", "written"}
      /\ pc = "stamping" <=> engine = "Ontology" /\ t = FINISHED
  BY <1>1, <1>2, Fields, JobType
<1> HIDE DEF pc, found, t
<1>4. /\ mid \in [Request -> Job \cup {NoJob}]
      /\ mid[r].pc = pc
      /\ mid[r].exec = e /\ mid[r].target = t
      /\ mid[r].seen = request[r].seen /\ mid[r].op = request[r].op
      /\ \A o \in Request : o # r => mid[o] = request[o]
  <2>1. [request[r] EXCEPT !.pc = pc] \in Job
    BY <1>3 DEF Job
  <2>2. mid[r] = [request[r] EXCEPT !.pc = pc]
    BY <1>1 DEF TypeOK
  <2>3. mid \in [Request -> Job \cup {NoJob}]
    BY <1>1, <2>1 DEF TypeOK
  <2>4. QED
    BY <1>1, <1>3, <2>2, <2>3 DEF Job, TypeOK, t
<1> HIDE DEF mid
<1>5. EndAfter(request[r]) \in BOOLEAN
  <2>1. engine \in AllEngines
    BY <1>1, ConstantsAssumption DEF TypeOK
  <2>2. request[r].seenEnd \in BOOLEAN /\ finishTime[e] \in BOOLEAN
    BY <1>1, <1>2, Fields DEF TypeOK
  <2>3. QED
    BY <2>1, <2>2 DEF EndAfter, AllEngines
<1>6. TypeOK'
  <2>1. request' \in [Request -> Job \cup {NoJob}]
    BY <1>2, <1>4, OutdateFields
  <2>2. t \in Stored
    BY <1>3, StateFacts
  <2>3. QED
    BY <1>1, <1>2, <1>5, <2>1, <2>2 DEF TypeOK
<1>7. /\ request'[r].pc = pc
      /\ request'[r].exec = e /\ request'[r].target = t
      /\ request'[r].seen = request[r].seen /\ request'[r].op = request[r].op
  BY <1>2, <1>3, <1>4, OutdateFields
<1>8. ASSUME NEW o \in Request, o # r
      PROVE  /\ request'[o].pc = request[o].pc
             /\ request[o].pc # "loaded" => request'[o] = request[o]
             /\ request[o].pc = "loaded" =>
                  /\ request'[o].exec = request[o].exec
                  /\ request'[o].op = request[o].op
                  /\ request'[o].seen = request[o].seen
                  /\ IF request[o].exec = e THEN request'[o].stale
                     ELSE request'[o] = request[o]
  BY <1>2, <1>4, <1>8, OutdateFields
<1>9. /\ \A o \in Request, x \in Execution :
           /\ Wrote(o, x)' <=> Wrote(o, x) \/ (o = r /\ x = e)
           /\ Wrote(o, x) => o # r /\ request'[o] = request[o]
  BY <1>2, <1>3, <1>7, <1>8 DEF Wrote
<1>10. \A x \in Execution : x # e =>
         /\ status'[x] = status[x] /\ finishTime'[x] = finishTime[x]
         /\ x \in owed' <=> x \in owed
  BY <1>1, <1>2 DEF TypeOK
<1>11. ASSUME e \notin disturbed'
       PROVE  /\ e \notin disturbed
              /\ \A o \in Request : ~Wrote(o, e)
              /\ status[e] = request[r].seen /\ status[e] \in State
              /\ announced[e] = status[e]
              /\ status'[e] = t /\ finishTime'[e] = EndAfter(request[r])
              /\ e \notin owed
  <2>1. /\ e \notin disturbed /\ ~request[r].stale
        /\ \A o \in Request : ~Wrote(o, e)
    BY <1>2, <1>11
  <2>2. status[e] = request[r].seen /\ status[e] \in State
    BY <1>2, <2>1 DEF Trail, CopyFresh, CopyAccepted
  <2>3. announced[e] = status[e] /\ e \notin owed
    BY <2>1, <2>2 DEF Trail, AuditExact, Settled, DebtHasWriter
  <2>4. QED
    BY <1>1, <1>2, <2>1, <2>2, <2>3 DEF found, TypeOK
<1>12. \A x \in Execution : x \notin disturbed' => x \notin disturbed
  BY <1>2
<1>13. WriterAlone'
  <2> SUFFICES ASSUME NEW r1 \in Request, NEW r2 \in Request,
                      NEW x \in Execution, x \notin disturbed',
                      Wrote(r1, x)', Wrote(r2, x)'
               PROVE  r1 = r2
    BY DEF WriterAlone
  <2>1. QED
    BY <1>9, <1>11, <1>12 DEF Trail, WriterAlone
<1>14. WriterStored'
  <2> SUFFICES ASSUME NEW o \in Request, NEW x \in Execution,
                      x \notin disturbed', Wrote(o, x)', status'[x] \in State
               PROVE  status'[x] = request'[o].target
    BY DEF WriterStored
  <2>1. CASE x = e
    BY <1>7, <1>9, <1>11, <2>1
  <2>2. CASE x # e
    BY <1>9, <1>10, <1>12, <2>2 DEF Trail, WriterStored
  <2>3. QED
    BY <2>1, <2>2
<1>15. CopyFresh'
  <2> SUFFICES ASSUME NEW o \in Request, request'[o].pc = "loaded",
                      ~request'[o].stale
               PROVE  status'[request'[o].exec] = request'[o].seen
    BY DEF CopyFresh
  <2>1. o # r /\ request[o].pc = "loaded"
    BY <1>3, <1>7, <1>8
  <2>2. request[o].exec # e /\ request'[o] = request[o]
    BY <1>8, <2>1
  <2>3. request[o].exec \in Execution
    BY <1>1, <2>1, Fields
  <2>4. QED
    BY <1>10, <2>1, <2>2, <2>3 DEF Trail, CopyFresh
<1>16. CopyAccepted'
  <2> SUFFICES ASSUME NEW o \in Request, request'[o].pc = "loaded"
               PROVE  /\ request'[o].seen \in State
                      /\ request'[o].op # "create"
                      /\ request'[o].op = "run"
                           => request'[o].seen \in ResumableStates
    BY DEF CopyAccepted
  <2>1. o # r /\ request[o].pc = "loaded"
    BY <1>3, <1>7, <1>8
  <2>2. QED
    BY <1>8, <2>1 DEF Trail, CopyAccepted
<1>17. TrailFollows'
  <2> SUFFICES ASSUME NEW o \in Request, NEW x \in Execution,
                      x \notin disturbed', Wrote(o, x)'
               PROVE  request'[o].seen = announced[x]
    BY <1>2 DEF TrailFollows
  <2>1. CASE x = e
    BY <1>7, <1>9, <1>11, <2>1
  <2>2. CASE x # e
    BY <1>9, <1>12, <2>2 DEF Trail, TrailFollows
  <2>3. QED
    BY <2>1, <2>2
<1>18. DebtHasWriter'
  <2> SUFFICES ASSUME NEW x \in Execution, x \in owed', x \notin disturbed'
               PROVE  \E o \in Request : Wrote(o, x)' /\ Reactivates(request'[o])
    BY DEF DebtHasWriter, Reactivates
  <2>1. CASE x = e
    <3>1. ~Interactive(status[e]) /\ Interactive(t)
      BY <1>2, <1>11, <2>1
    <3>2. Reactivates(request'[r])
      BY <1>2, <1>7, <1>11, <2>1, <3>1 DEF Trail, CopyAccepted, Reactivates
    <3>3. QED
      BY <1>9, <2>1, <3>2
  <2>2. CASE x # e
    <3>1. PICK o \in Request : Wrote(o, x) /\ Reactivates(request[o])
      BY <1>10, <1>12, <2>2 DEF Trail, DebtHasWriter
    <3>2. QED
      BY <1>9, <3>1
  <2>3. QED
    BY <2>1, <2>2
<1>19. WriterOwes'
  <2> SUFFICES ASSUME NEW o \in Request, NEW x \in Execution,
                      x \notin disturbed', Wrote(o, x)',
                      Reactivates(request'[o])
               PROVE  x \in owed'
    BY DEF WriterOwes, Reactivates
  <2>1. CASE x = e
    <3>1. o = r
      BY <1>9, <1>11, <2>1
    <3>2. ~Interactive(status[e]) /\ Interactive(t)
      BY <1>7, <1>11, <2>1, <3>1 DEF Reactivates
    <3>3. QED
      BY <1>2, <1>11, <2>1, <3>2 DEF found
  <2>2. CASE x # e
    BY <1>9, <1>10, <1>12, <2>2 DEF Trail, WriterOwes
  <2>3. QED
    BY <2>1, <2>2
<1>20. FinishStamped'
  <2> SUFFICES ASSUME NEW x \in Execution, status'[x] = FINISHED,
                      x \notin disturbed',
                      \A o \in Request : ~(request'[o].pc = "stamping"
                                            /\ request'[o].exec = x)
               PROVE  finishTime'[x]
    BY DEF FinishStamped
  <2>1. CASE x = e
    <3>1. t = FINISHED /\ finishTime'[e] = EndAfter(request[r])
      BY <1>11, <2>1
    <3>2. engine \in AllEngines \ {"Ontology"}
      BY <1>1, <1>3, <1>7, <2>1, <3>1, ConstantsAssumption DEF TypeOK
    <3>3. EndAfter(request[r])
      BY <3>1, <3>2 DEF EndAfter, AllEngines, t
    <3>4. QED
      BY <2>1, <3>1, <3>3
  <2>2. CASE x # e
    <3>1. \A o \in Request : ~(request[o].pc = "stamping"
                                /\ request[o].exec = x)
      BY <1>2, <1>8
    <3>2. QED
      BY <1>10, <1>12, <2>2, <3>1 DEF Trail, FinishStamped
  <2>3. QED
    BY <2>1, <2>2
<1>21. UnbornUntouched'
  <2> SUFFICES ASSUME NEW x \in Execution, status'[x] = UNBORN
               PROVE  announced[x] = UNBORN
                      /\ \A o \in Request : ~InFlight(o, x)'
    BY <1>2 DEF UnbornUntouched
  <2>1. status[e] # UNBORN
    BY <1>2 DEF Trail, UnbornUntouched, InFlight
  <2>2. x # e
    BY <1>1, <1>2, <1>3, <2>1, StateFacts DEF TypeOK
  <2>3. announced[x] = UNBORN /\ \A o \in Request : ~InFlight(o, x)
    BY <1>10, <2>2 DEF Trail, UnbornUntouched
  <2>4. QED
    BY <1>7, <1>8, <2>2, <2>3 DEF InFlight
<1>22. AuditExact'
  <2> SUFFICES ASSUME NEW x \in Execution, status'[x] \in State,
                      x \notin disturbed', \A o \in Request : ~Wrote(o, x)'
               PROVE  announced[x] = status'[x]
    BY <1>2 DEF AuditExact, Settled
  <2>1. x # e
    BY <1>9
  <2>2. QED
    BY <1>9, <1>10, <1>12, <2>1 DEF Trail, AuditExact, Settled
<1>23. QED
  BY <1>6, <1>13, <1>14, <1>15, <1>16, <1>17, <1>18, <1>19, <1>20, <1>21,
     <1>22 DEF Trail

\* The execution is deleted under the requests that hold a copy of it.
LEMMA DeleteTrail ==
  ASSUME Trail, NEW e \in Execution, Delete(e)
  PROVE  Trail'
<1>1. TypeOK /\ request \in [Request -> Job \cup {NoJob}]
  BY DEF Trail, TypeOK
<1>2. /\ status[e] \in State
      /\ status' = [status EXCEPT ![e] = GONE]
      /\ finishTime' = [finishTime EXCEPT ![e] = FALSE]
      /\ request' = Outdate(request, e)
      /\ UNCHANGED <<engine, announced, owed, disturbed>>
  BY DEF Delete
<1>3. request' \in [Request -> Job \cup {NoJob}]
  BY <1>1, <1>2, OutdateFields
<1>4. TypeOK'
  BY <1>1, <1>2, <1>3, StateFacts DEF TypeOK
<1>5. /\ status'[e] = GONE
      /\ \A x \in Execution : x # e =>
           status'[x] = status[x] /\ finishTime'[x] = finishTime[x]
  BY <1>1, <1>2 DEF TypeOK
<1>6. ASSUME NEW o \in Request
      PROVE  /\ request'[o].pc = request[o].pc
             /\ request[o].pc # "loaded" => request'[o] = request[o]
             /\ request[o].pc = "loaded" =>
                  /\ request'[o].exec = request[o].exec
                  /\ request'[o].op = request[o].op
                  /\ request'[o].seen = request[o].seen
                  /\ IF request[o].exec = e THEN request'[o].stale
                     ELSE request'[o] = request[o]
  <2>1. /\ request'[o].pc = request[o].pc
        /\ request'[o].pc # "loaded" => request'[o] = request[o]
        /\ request'[o].pc # "idle" =>
             /\ request'[o].exec = request[o].exec
             /\ request'[o].op = request[o].op
             /\ request'[o].seen = request[o].seen
        /\ request'[o].pc = "loaded" =>
             IF request[o].exec = e THEN request'[o].stale
             ELSE request'[o] = request[o]
    BY <1>1, <1>2, OutdateFields
  <2>2. QED
    BY <2>1
<1>7. \A o \in Request, x \in Execution :
        /\ Wrote(o, x)' <=> Wrote(o, x)
        /\ Wrote(o, x) => request'[o] = request[o]
        /\ InFlight(o, x)' <=> InFlight(o, x)
  BY <1>6 DEF Wrote, InFlight
<1>8. WriterAlone' /\ TrailFollows'
  BY <1>2, <1>7 DEF Trail, WriterAlone, TrailFollows
<1>9. WriterStored'
  <2> SUFFICES ASSUME NEW o \in Request, NEW x \in Execution,
                      x \notin disturbed, Wrote(o, x)', status'[x] \in State
               PROVE  status'[x] = request'[o].target
    BY <1>2 DEF WriterStored
  <2>1. x # e
    BY <1>5, StateFacts
  <2>2. QED
    BY <1>5, <1>7, <2>1 DEF Trail, WriterStored
<1>10. CopyFresh'
  <2> SUFFICES ASSUME NEW o \in Request, request'[o].pc = "loaded",
                      ~request'[o].stale
               PROVE  status'[request'[o].exec] = request'[o].seen
    BY DEF CopyFresh
  <2>1. request[o].pc = "loaded" /\ request[o].exec # e
        /\ request'[o] = request[o] /\ request[o].exec \in Execution
    BY <1>1, <1>6, Fields
  <2>2. QED
    BY <1>5, <2>1 DEF Trail, CopyFresh
<1>11. CopyAccepted'
  BY <1>6 DEF Trail, CopyAccepted
<1>12. DebtHasWriter'
  <2> SUFFICES ASSUME NEW x \in Execution, x \in owed, x \notin disturbed
               PROVE  \E o \in Request : Wrote(o, x)' /\ Reactivates(request'[o])
    BY <1>2 DEF DebtHasWriter, Reactivates
  <2>1. PICK o \in Request : Wrote(o, x) /\ Reactivates(request[o])
    BY DEF Trail, DebtHasWriter
  <2>2. QED
    BY <1>7, <2>1
<1>13. WriterOwes'
  <2> SUFFICES ASSUME NEW o \in Request, NEW x \in Execution,
                      x \notin disturbed, Wrote(o, x)',
                      Reactivates(request'[o])
               PROVE  x \in owed
    BY <1>2 DEF WriterOwes, Reactivates
  <2>1. QED
    BY <1>7 DEF Trail, WriterOwes
<1>14. FinishStamped'
  <2> SUFFICES ASSUME NEW x \in Execution, status'[x] = FINISHED,
                      x \notin disturbed,
                      \A o \in Request : ~(request'[o].pc = "stamping"
                                            /\ request'[o].exec = x)
               PROVE  finishTime'[x]
    BY <1>2 DEF FinishStamped
  <2>1. x # e
    BY <1>5 DEF GONE, FINISHED
  <2>2. \A o \in Request : ~(request[o].pc = "stamping" /\ request[o].exec = x)
    BY <1>6
  <2>3. QED
    BY <1>5, <2>1, <2>2 DEF Trail, FinishStamped
<1>15. UnbornUntouched'
  BY <1>2, <1>5, <1>7 DEF Trail, UnbornUntouched, GONE, UNBORN
<1>16. AuditExact'
  <2> SUFFICES ASSUME NEW x \in Execution, status'[x] \in State,
                      x \notin disturbed, \A o \in Request : ~Wrote(o, x)'
               PROVE  announced[x] = status'[x]
    BY <1>2 DEF AuditExact, Settled
  <2>1. x # e
    BY <1>5, StateFacts
  <2>2. QED
    BY <1>5, <1>7, <2>1 DEF Trail, AuditExact, Settled
<1>17. QED
  BY <1>4, <1>8, <1>9, <1>10, <1>11, <1>12, <1>13, <1>14, <1>15, <1>16
     DEF Trail

-----------------------------------------------------------------------------
\* Every step of the state service preserves the invariant.
LEMMA NextTrail == Trail /\ [Next]_vars => Trail'
<1> SUFFICES ASSUME Trail, [Next]_vars
             PROVE  Trail'
  OBVIOUS
<1>1. ASSUME NEW r \in Request, NEW e \in Execution, Create(r, e)
      PROVE  Trail'
  BY <1>1, CreateTrail
<1>2. ASSUME NEW r \in Request, NEW e \in Execution,
             \/ Run(r, e) \/ Pause(r, e) \/ Finish(r, e)
             \/ Terminate(r, e) \/ Unstop(r, e) \/ Put(r, e)
      PROVE  Trail'
  <2>1. CASE Run(r, e)
    <3>1. Load(r, e, "run", ACTIVE) /\ status[e] \in ResumableStates
      BY <2>1 DEF Run
    <3>2. QED
      BY <3>1, LoadTrail, StateFacts
  <2>2. CASE Pause(r, e)
    <3>1. Load(r, e, "pause", PAUSED)
      BY <2>2 DEF Pause
    <3>2. QED
      BY <3>1, LoadTrail, StateFacts
  <2>3. CASE Finish(r, e)
    <3>1. Load(r, e, "finish", FINISHED)
      BY <2>3 DEF Finish
    <3>2. QED
      BY <3>1, LoadTrail, StateFacts
  <2>4. CASE Terminate(r, e)
    <3>1. Load(r, e, "terminate", TERMINATED)
      BY <2>4 DEF Terminate
    <3>2. QED
      BY <3>1, LoadTrail, StateFacts
  <2>5. CASE Unstop(r, e)
    <3>1. Load(r, e, "unstop", PAUSED)
      BY <2>5 DEF Unstop
    <3>2. QED
      BY <3>1, LoadTrail, StateFacts
  <2>6. CASE Put(r, e)
    <3>1. PICK target \in DeliveriesStates : Load(r, e, "put", target)
      BY <2>6 DEF Put
    <3>2. QED
      BY <3>1, LoadTrail, StateFacts
  <2>7. QED
    BY <1>2, <2>1, <2>2, <2>3, <2>4, <2>5, <2>6
<1>3. ASSUME NEW r \in Request,
             Leave(r) \/ Write(r) \/ Stamp(r) \/ WriteFails(r)
               \/ Announce(r) \/ AnnounceInPart(r) \/ Crash(r)
      PROVE  Trail'
  BY <1>3, LeaveTrail, WriteTrail, StampTrail, WriteFailsTrail, AnnounceTrail,
     CrashTrail
<1>4. ASSUME NEW e \in Execution, Delete(e)
      PROVE  Trail'
  BY <1>4, DeleteTrail
<1>5. CASE UNCHANGED vars
  BY <1>5 DEF vars, Trail, TypeOK, WriterAlone, WriterStored, CopyFresh,
       CopyAccepted, TrailFollows, DebtHasWriter, WriterOwes, FinishStamped,
       UnbornUntouched, AuditExact, Settled, Wrote, InFlight, Reactivates
<1>6. QED
  BY <1>1, <1>2, <1>3, <1>4, <1>5 DEF Next

THEOREM TrailInvariant == Spec => []Trail
BY InitTrail, NextTrail, PTL DEF Spec

\* The variables keep their types.
THEOREM TypeCorrect == Spec => []TypeOK
<1>1. Trail => TypeOK
  BY DEF Trail
<1>2. QED
  BY TrailInvariant, <1>1, PTL

\* The listeners know the state of every settled execution.
THEOREM AuditTheorem == Spec => []AuditExact
<1>1. Trail => AuditExact
  BY DEF Trail
<1>2. QED
  BY TrailInvariant, <1>1, PTL

\* No settled execution owes its listeners a Reactivated event.
THEOREM ReactivationTheorem == Spec => []ReactivationsHeard
<1>1. Trail => ReactivationsHeard
  BY DEF Trail, DebtHasWriter, ReactivationsHeard, Settled
<1>2. QED
  BY TrailInvariant, <1>1, PTL

\* Settled finished executions carry a finish time.
THEOREM FinishTimeTheorem == Spec => []FinishedHasTime
<1>1. Trail => FinishedHasTime
  BY DEF Trail, FinishStamped, FinishedHasTime, Settled, Wrote
<1>2. QED
  BY TrailInvariant, <1>1, PTL

\* The events of an undisturbed execution form a chain.
THEOREM ChainTheorem == Spec => EventsChain
<1>1. Trail /\ [Next]_vars =>
        [\A r \in Request :
           Announce(r) /\ request[r].exec \notin disturbed
             => request[r].seen = announced[request[r].exec]]_vars
  <2> SUFFICES ASSUME Trail, NEW r \in Request, Announce(r),
                      request[r].exec \notin disturbed
               PROVE  request[r].seen = announced[request[r].exec]
    OBVIOUS
  <2>1. request[r].exec \in Execution
    BY Fields DEF Trail, Announce
  <2>2. QED
    BY <2>1 DEF Trail, TrailFollows, Wrote, Announce
<1>2. QED
  BY TrailInvariant, <1>1, PTL DEF Spec, EventsChain

\* A Reactivated event is owed whenever it is emitted.
THEOREM NoSpuriousTheorem == Spec => NoSpuriousReactivation
<1>1. Trail /\ [Next]_vars =>
        [\A r \in Request :
           /\ Announce(r) /\ Reactivates(request[r])
           /\ request[r].exec \notin disturbed
           => request[r].exec \in owed]_vars
  <2> SUFFICES ASSUME Trail, NEW r \in Request, Announce(r),
                      Reactivates(request[r]),
                      request[r].exec \notin disturbed
               PROVE  request[r].exec \in owed
    OBVIOUS
  <2>1. request[r].exec \in Execution
    BY Fields DEF Trail, Announce
  <2>2. QED
    BY <2>1 DEF Trail, WriterOwes, Wrote, Announce
<1>2. QED
  BY TrailInvariant, <1>1, PTL DEF Spec, NoSpuriousReactivation

\* Nothing that ended or was deleted comes back but through a stale copy.
THEOREM RevivalTheorem == Spec => RevivalNeedsStaleCopy
<1>1. Trail /\ [Next]_vars =>
        [\A r \in Request : Write(r) =>
           LET q == request[r] IN
           \/ q.stale
           \/ /\ status'[q.exec] # GONE => status[q.exec] \in State
              /\ q.op = "run" => status[q.exec] \in ResumableStates]_vars
  <2> SUFFICES ASSUME Trail, NEW r \in Request, Write(r), ~request[r].stale
               PROVE  /\ status[request[r].exec] \in State
                      /\ request[r].op = "run"
                           => status[request[r].exec] \in ResumableStates
    OBVIOUS
  <2>1. request[r].pc = "loaded"
    BY DEF Write
  <2>2. QED
    BY <2>1 DEF Trail, CopyFresh, CopyAccepted
<1>2. QED
  BY TrailInvariant, <1>1, PTL DEF Spec, RevivalNeedsStaleCopy

-----------------------------------------------------------------------------
\* A copy of the key-value record that is not stale has its finish time; only
\* the ontology stores it in a second write.
TimeCopied ==
  /\ engine = "KeyValue" =>
       \A r \in Request : request[r].pc = "loaded" /\ ~request[r].stale =>
         request[r].seenEnd = finishTime[request[r].exec]
  /\ engine # "Ontology" => \A r \in Request : request[r].pc # "stamping"

\* Requests whose copies are neither new nor of a changed record.
LEMMA CopiesSame ==
  ASSUME TypeOK, TimeCopied, engine' = engine, NEW e \in Execution,
         \A x \in Execution : x # e => finishTime'[x] = finishTime[x],
         \A r \in Request : request'[r].pc = "loaded" /\ ~request'[r].stale =>
           /\ request'[r] = request[r]
           /\ request[r].exec # e \/ finishTime'[e] = finishTime[e],
         \A r \in Request : request'[r].pc = "stamping" =>
           request[r].pc = "stamping" \/ engine = "Ontology"
  PROVE  TimeCopied'
<1>1. ASSUME engine = "KeyValue", NEW r \in Request,
             request'[r].pc = "loaded", ~request'[r].stale
      PROVE  request'[r].seenEnd = finishTime'[request'[r].exec]
  <2>1. request'[r] = request[r] /\ request[r].exec \in Execution
    BY <1>1, Fields
  <2>2. request[r].seenEnd = finishTime[request[r].exec]
    BY <1>1, <2>1 DEF TimeCopied
  <2>3. QED
    BY <1>1, <2>1, <2>2
<1>2. QED
  BY <1>1 DEF TimeCopied

LEMMA LoadCopies ==
  ASSUME TypeOK, TimeCopied, NEW r \in Request, NEW e \in Execution, NEW op,
         NEW target, Load(r, e, op, target)
  PROVE  TimeCopied'
<1> DEFINE job == [pc |-> "loaded", op |-> op, exec |-> e, target |-> target,
                   seen |-> status[e], seenEnd |-> finishTime[e],
                   stale |-> FALSE]
<1>1. /\ request' = [request EXCEPT ![r] = job]
      /\ UNCHANGED <<engine, finishTime>>
  BY DEF Load
<1>2. job.pc = "loaded" /\ job.exec = e /\ job.seenEnd = finishTime[e]
  OBVIOUS
<1> HIDE DEF job
<1>3. /\ request'[r] = job
      /\ \A o \in Request : o # r => request'[o] = request[o]
  BY <1>1 DEF TypeOK
<1>4. QED
  BY <1>1, <1>2, <1>3 DEF TimeCopied

\* A write outdates the other copies of its record and has used its own.
LEMMA WriteCopies ==
  ASSUME TypeOK, TimeCopied, NEW r \in Request, Write(r)
  PROVE  TimeCopied'
<1> DEFINE e == request[r].exec
           pc == IF engine = "Ontology" /\ request[r].target = FINISHED
                 THEN "stamping" ELSE "written"
           mid == [request EXCEPT ![r].pc = pc]
<1>1. /\ request[r].pc = "loaded" /\ request' = Outdate(mid, e)
      /\ pc \in {"stamping", "written"}
      /\ pc = "stamping" => engine = "Ontology"
      /\ engine' = engine
  BY DEF Write
<1>2. request[r] \in Job /\ e \in Execution
  BY <1>1, Fields, JobType
<1>3. \A x \in Execution : x # e => finishTime'[x] = finishTime[x]
  BY DEF Write, TypeOK
<1> HIDE DEF pc, e
<1>4. /\ mid \in [Request -> Job \cup {NoJob}] /\ mid[r].pc = pc
      /\ \A o \in Request : o # r => mid[o] = request[o]
  BY <1>1, <1>2 DEF TypeOK, Job
<1> HIDE DEF mid
<1>5. ASSUME NEW o \in Request
      PROVE  /\ request'[o].pc = mid[o].pc
             /\ request'[o].pc = "loaded" /\ ~request'[o].stale =>
                  o # r /\ request'[o] = request[o] /\ request[o].exec # e
  BY <1>1, <1>2, <1>4, OutdateFields
<1>6. \A o \in Request : request'[o].pc = "stamping" =>
        request[o].pc = "stamping" \/ engine = "Ontology"
  BY <1>1, <1>4, <1>5
<1>7. QED
  BY <1>1, <1>2, <1>3, <1>5, <1>6, CopiesSame

LEMMA DeleteCopies ==
  ASSUME TypeOK, TimeCopied, NEW e \in Execution, Delete(e)
  PROVE  TimeCopied'
<1>1. /\ request' = Outdate(request, e) /\ engine' = engine
      /\ \A x \in Execution : x # e => finishTime'[x] = finishTime[x]
      /\ request \in [Request -> Job \cup {NoJob}]
  BY DEF Delete, TypeOK
<1>2. ASSUME NEW o \in Request
      PROVE  /\ request'[o].pc = request[o].pc
             /\ request'[o].pc = "loaded" /\ ~request'[o].stale =>
                  request'[o] = request[o] /\ request[o].exec # e
  BY <1>1, OutdateFields
<1>3. QED
  BY <1>1, <1>2, CopiesSame

\* Steps that leave every other request alone and after which this one is idle
\* or has its listeners to call: it has no copy left that it could write.
LEMMA RequestGoesOn ==
  ASSUME TypeOK, NEW r \in Request,
         \/ \E e \in Execution : Create(r, e)
         \/ Leave(r) \/ Stamp(r) \/ WriteFails(r)
         \/ Announce(r) \/ AnnounceInPart(r) \/ Crash(r)
  PROVE  /\ \A o \in Request : o # r => request'[o] = request[o]
         /\ request'[r].pc \in {"idle", "written"}
         /\ engine' = engine
<1>1. CASE \E e \in Execution : Create(r, e)
  BY <1>1 DEF Create, TypeOK
<1>2. CASE Leave(r) \/ Announce(r) \/ AnnounceInPart(r) \/ Crash(r)
  BY <1>2 DEF Leave, Announce, AnnounceInPart, Crash, TypeOK, NoJob
<1>3. CASE Stamp(r) \/ WriteFails(r)
  <2>1. request[r] \in Job /\ request' = [request EXCEPT ![r].pc = "written"]
    BY <1>3, JobType DEF Stamp, WriteFails
  <2>2. QED
    BY <1>3, <2>1 DEF Stamp, WriteFails, TypeOK, Job
<1>4. QED
  BY <1>1, <1>2, <1>3

LEMMA RequestCopies ==
  ASSUME TypeOK, TimeCopied, NEW r \in Request,
         \/ \E e \in Execution : Create(r, e)
         \/ Leave(r) \/ Stamp(r) \/ WriteFails(r)
         \/ Announce(r) \/ AnnounceInPart(r) \/ Crash(r)
  PROVE  TimeCopied'
<1>1. engine = "KeyValue" => finishTime' = finishTime
  BY DEF TimeCopied, Create, Leave, Stamp, WriteFails, Announce,
         AnnounceInPart, Crash
<1>2. QED
  BY <1>1, RequestGoesOn DEF TimeCopied

LEMMA TimeCopiedInvariant == Spec => []TimeCopied
<1>1. Init => TimeCopied
  <2>1. Init => \A r \in Request : request[r].pc = "idle"
    BY DEF Init, NoJob
  <2>2. QED
    BY <2>1 DEF TimeCopied
<1>2. TypeOK /\ TimeCopied /\ [Next]_vars => TimeCopied'
  <2> SUFFICES ASSUME TypeOK, TimeCopied, [Next]_vars PROVE TimeCopied'
    OBVIOUS
  <2>1. ASSUME NEW r \in Request, NEW e \in Execution,
               \/ Run(r, e) \/ Pause(r, e) \/ Finish(r, e)
               \/ Terminate(r, e) \/ Unstop(r, e) \/ Put(r, e)
        PROVE  TimeCopied'
    <3>1. \E op, target : Load(r, e, op, target)
      BY <2>1 DEF Run, Pause, Finish, Terminate, Unstop, Put
    <3>2. QED
      BY <3>1, LoadCopies
  <2>2. ASSUME NEW r \in Request, Write(r) PROVE TimeCopied'
    BY <2>2, WriteCopies
  <2>3. ASSUME NEW e \in Execution, Delete(e) PROVE TimeCopied'
    BY <2>3, DeleteCopies
  <2>4. CASE UNCHANGED vars
    BY <2>4 DEF vars, TimeCopied
  <2>5. QED
    BY <2>1, <2>2, <2>3, <2>4, RequestCopies DEF Next
<1>3. QED
  BY TypeCorrect, <1>1, <1>2, PTL DEF Spec

\* No engine loses a stored finish time but with its execution, unless a
\* request writes an outdated copy of the record (KVDeliveryExecution::setState
\* writes its whole copy back), however requests interleave or fail.
THEOREM TimeKeptTheorem == Spec => TimeKept
<1>1. ASSUME TypeOK, TimeCopied, [Next]_vars, NEW e \in Execution,
             finishTime[e], ~finishTime'[e]
      PROVE  \/ status'[e] = GONE
             \/ \E r \in Request :
                  Write(r) /\ request[r].exec = e /\ request[r].stale
  <2>1. ASSUME NEW r \in Request, Write(r), ~request[r].stale
        PROVE  FALSE
    <3>1. /\ request[r].pc = "loaded" /\ request[r].exec = e
          /\ finishTime'[e] = EndAfter(request[r])
      BY <1>1, <2>1 DEF Write, TypeOK
    <3>2. engine = "KeyValue" => request[r].seenEnd
      BY <1>1, <2>1, <3>1 DEF TimeCopied
    <3>3. engine \in AllEngines
      BY <1>1, ConstantsAssumption DEF TypeOK
    <3>4. EndAfter(request[r])
      BY <1>1, <3>1, <3>2, <3>3 DEF EndAfter, AllEngines
    <3>5. QED
      BY <1>1, <3>1, <3>4
  <2>2. ASSUME NEW r \in Request, Write(r), request[r].stale
        PROVE  request[r].exec = e
    BY <1>1, <2>2 DEF Write, TypeOK
  <2>3. ASSUME NEW x \in Execution, Delete(x)
        PROVE  status'[e] = GONE
    BY <1>1, <2>3 DEF Delete, TypeOK
  <2>4. ASSUME NEW r \in Request, Stamp(r)
        PROVE  FALSE
    BY <1>1, <2>4 DEF Stamp, TypeOK
  <2>5. CASE finishTime' = finishTime
    BY <1>1, <2>5
  <2>6. QED
    BY <1>1, <2>1, <2>2, <2>3, <2>4, <2>5
       DEF Next, vars, Create, Run, Pause, Finish, Terminate, Unstop, Put,
           Load, Leave, WriteFails, Announce, AnnounceInPart, Crash
<1>2. TypeOK /\ TimeCopied /\ [Next]_vars =>
        [\A e \in Execution : finishTime[e] /\ ~finishTime'[e] =>
           \/ status'[e] = GONE
           \/ \E r \in Request :
                Write(r) /\ request[r].exec = e /\ request[r].stale]_vars
  BY <1>1
<1>3. QED
  BY TypeCorrect, TimeCopiedInvariant, <1>2, PTL DEF Spec, TimeKept

-----------------------------------------------------------------------------
\* What a loaded request is about to do is what its operation, one of those
\* exposed, stands for, and an unstop has passed the two tests of
\* RestExecution::unstop.
JobsMeant ==
  \A r \in Request : request[r].pc = "loaded" =>
    /\ request[r].op \in Ops
    /\ request[r].op = "finish" => request[r].target = FINISHED
    /\ request[r].op = "terminate" => request[r].target = TERMINATED
    /\ request[r].op = "unstop" =>
         engine # "Rds" /\ request[r].seen \in ReactivableStates

LEMMA JobsMeantInvariant == Spec => []JobsMeant
<1>1. Init => JobsMeant
  <2>1. Init => \A r \in Request : request[r].pc = "idle"
    BY DEF Init, NoJob
  <2>2. QED
    BY <2>1 DEF JobsMeant
<1>2. TypeOK /\ JobsMeant /\ [Next]_vars => JobsMeant'
  <2> SUFFICES ASSUME TypeOK, JobsMeant, [Next]_vars PROVE JobsMeant'
    OBVIOUS
  <2>1. ASSUME engine' = engine,
               \A o \in Request : request'[o].pc = "loaded" =>
                 /\ request[o].pc = "loaded"
                 /\ request'[o].op = request[o].op
                 /\ request'[o].target = request[o].target
                 /\ request'[o].seen = request[o].seen
        PROVE  JobsMeant'
    BY <2>1 DEF JobsMeant
  <2>2. ASSUME NEW r \in Request, NEW e \in Execution, NEW op, NEW target,
               Load(r, e, op, target),
               op = "finish" => target = FINISHED,
               op = "terminate" => target = TERMINATED,
               op = "unstop" => engine # "Rds" /\ status[e] \in ReactivableStates
        PROVE  JobsMeant'
    <3>1. /\ op \in Ops
          /\ request'[r].op = op /\ request'[r].target = target
          /\ request'[r].seen = status[e]
          /\ \A o \in Request : o # r => request'[o] = request[o]
          /\ engine' = engine
      BY <2>2 DEF Load, TypeOK
    <3>2. QED
      BY <2>2, <3>1 DEF JobsMeant
  <2>3. ASSUME NEW r \in Request, NEW e \in Execution,
               \/ Run(r, e) \/ Pause(r, e) \/ Finish(r, e)
               \/ Terminate(r, e) \/ Unstop(r, e) \/ Put(r, e)
        PROVE  JobsMeant'
    BY <2>2, <2>3 DEF Run, Pause, Finish, Terminate, Unstop, Put
  <2>4. ASSUME NEW r \in Request, Write(r) PROVE JobsMeant'
    <3> DEFINE e == request[r].exec
               pc == IF engine = "Ontology" /\ request[r].target = FINISHED
                     THEN "stamping" ELSE "written"
               mid == [request EXCEPT ![r].pc = pc]
    <3>1. /\ request[r].pc = "loaded" /\ request' = Outdate(mid, e)
          /\ pc \in {"stamping", "written"} /\ engine' = engine
      BY <2>4 DEF Write
    <3>2. request[r] \in Job /\ e \in Execution
      BY <3>1, Fields, JobType
    <3> HIDE DEF pc, e
    <3>3. /\ mid \in [Request -> Job \cup {NoJob}] /\ mid[r].pc = pc
          /\ \A o \in Request : o # r => mid[o] = request[o]
      BY <3>1, <3>2 DEF TypeOK, Job
    <3> HIDE DEF mid
    <3>4. ASSUME NEW o \in Request, request'[o].pc = "loaded"
          PROVE  /\ request[o].pc = "loaded"
                 /\ request'[o].op = request[o].op
                 /\ request'[o].target = request[o].target
                 /\ request'[o].seen = request[o].seen
      <4>1. /\ request'[o].pc = mid[o].pc
            /\ request'[o].op = mid[o].op
            /\ request'[o].target = mid[o].target
            /\ request'[o].seen = mid[o].seen
        BY <3>1, <3>2, <3>3, <3>4, OutdateFields
      <4>2. mid[o] = request[o]
        BY <3>1, <3>3, <3>4, <4>1
      <4>3. QED
        BY <3>4, <4>1, <4>2
    <3>5. QED
      BY <2>1, <3>1, <3>4
  <2>5. ASSUME NEW e \in Execution, Delete(e) PROVE JobsMeant'
    <3>1. request' = Outdate(request, e) /\ engine' = engine
          /\ request \in [Request -> Job \cup {NoJob}]
      BY <2>5 DEF Delete, TypeOK
    <3>2. QED
      BY <2>1, <3>1, OutdateFields
  <2>6. ASSUME NEW r \in Request,
               \/ \E e \in Execution : Create(r, e)
               \/ Leave(r) \/ Stamp(r) \/ WriteFails(r) \/ Announce(r)
               \/ AnnounceInPart(r) \/ Crash(r)
        PROVE  JobsMeant'
    BY <2>1, <2>6, RequestGoesOn
  <2>7. CASE UNCHANGED vars
    BY <2>1, <2>7 DEF vars
  <2>8. QED
    BY <2>3, <2>4, <2>5, <2>6, <2>7 DEF Next
<1>3. QED
  BY TypeCorrect, <1>1, <1>2, PTL DEF Spec

\* Only an outdated copy, a pause or a state set over REST, or an unstop from
\* a reactivable state on an engine that can answer it, brings an execution
\* that ended back, however requests interleave or fail.
THEOREM RevivalPermittedTheorem == Spec => RevivalPermitted
<1>1. ASSUME TypeOK, CopyFresh, CopyAccepted, JobsMeant, [Next]_vars,
             NEW e \in Execution, ~Interactive(status[e]),
             status[e] \in State, Interactive(status'[e])
      PROVE  \E r \in Request :
               /\ Write(r) /\ request[r].exec = e
               /\ \/ request[r].stale
                  \/ request[r].op \in {"pause", "put"}
                  \/ /\ request[r].op = "unstop" /\ engine # "Rds"
                     /\ status[e] \in ReactivableStates
  <2>1. status'[e] # status[e] /\ status[e] # UNBORN /\ status'[e] # GONE
    BY <1>1 DEF Interactive, InteractiveStates, State, ACTIVE, PAUSED,
                FINISHED, TERMINATED, UNBORN, GONE
  <2>2. \E r \in Request : Write(r)
    <3>1. ASSUME NEW r \in Request, NEW x \in Execution, Create(r, x)
          PROVE  FALSE
      BY <1>1, <2>1, <3>1 DEF Create, TypeOK
    <3>2. ASSUME NEW x \in Execution, Delete(x)
          PROVE  FALSE
      BY <1>1, <2>1, <3>2 DEF Delete, TypeOK
    <3>3. status' # status
      BY <2>1
    <3>4. QED
      BY <1>1, <3>1, <3>2, <3>3
         DEF Next, vars, Run, Pause, Finish, Terminate, Unstop, Put, Load,
             Leave, Stamp, WriteFails, Announce, AnnounceInPart, Crash
  <2>3. PICK r \in Request : Write(r)
    BY <2>2
  <2>4. request[r].pc = "loaded" /\ request[r].exec = e
        /\ status'[e] = request[r].target
    BY <1>1, <2>1, <2>3 DEF Write, TypeOK
  <2>5. CASE request[r].stale
    BY <2>3, <2>4, <2>5
  <2>6. CASE ~request[r].stale
    <3>1. request[r].seen = status[e]
      BY <1>1, <2>4, <2>6 DEF CopyFresh
    <3>2. request[r].op \in AllOps
      BY <1>1, <2>4, Fields DEF CopyAccepted
    <3>3. request[r].op # "run"
      BY <1>1, <2>4, <3>1, StateFacts DEF CopyAccepted, Interactive
    <3>4. request[r].op # "finish" /\ request[r].op # "terminate"
      BY <1>1, <2>4 DEF JobsMeant, Interactive, InteractiveStates, ACTIVE,
                        PAUSED, FINISHED, TERMINATED
    <3>5. request[r].op = "unstop" =>
            engine # "Rds" /\ status[e] \in ReactivableStates
      BY <1>1, <2>4, <3>1 DEF JobsMeant
    <3>6. QED
      BY <2>3, <2>4, <3>2, <3>3, <3>4, <3>5 DEF AllOps
  <2>7. QED
    BY <2>5, <2>6
<1>2. TypeOK /\ CopyFresh /\ CopyAccepted /\ JobsMeant /\ [Next]_vars =>
        [\A e \in Execution :
           ~Interactive(status[e]) /\ status[e] \in State
             /\ Interactive(status'[e]) =>
             \E r \in Request :
               /\ Write(r) /\ request[r].exec = e
               /\ \/ request[r].stale
                  \/ request[r].op \in {"pause", "put"}
                  \/ /\ request[r].op = "unstop" /\ engine # "Rds"
                     /\ status[e] \in ReactivableStates]_vars
  BY <1>1
<1>3. Trail => TypeOK /\ CopyFresh /\ CopyAccepted
  BY DEF Trail
<1>4. QED
  BY TrailInvariant, JobsMeantInvariant, <1>2, <1>3, PTL
     DEF Spec, RevivalPermitted
=============================================================================
