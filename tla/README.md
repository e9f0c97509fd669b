# A TLA+ model of the delivery extension

This directory holds the formal model of `extension-tao-delivery`: what the
extension does with *delivery executions* (one test-taker taking one delivery
once), how their state changes, where it is stored, and what the rest of the
platform is told, and with the pages the test-taker sees it through. The models
are translated from the PHP and the JavaScript under `src/`; the run, mutant, theorem and line tables are in `PROJECT.json`.

## 1. The system

A test-taker starts a delivery; the extension *spawns* an execution, runs it,
and eventually finishes, pauses or terminates it. PHP gives every HTTP request
a process of its own. There is no lock around an execution: a request loads it,
keeps what it read in an object for the length of the request, writes, and
calls the listeners of its events synchronously. Sessions are per user, so they
do not order a test-taker against a proctor, a REST client or a CLI script, and
nothing below relies on them.

| Component | State it keeps | Operations | Talks to | What makes it correct |
|---|---|---|---|---|
| State service (`AbstractStateService`, `StateService`) | none of its own | create, run, pause, finish, terminate, reactivate, legacy transition | storage engine, event manager | moves along permitted edges; every move announced once, with the state it started from |
| Controllers (`DeliveryServer`, `DeliveryExecutionState`, `RestExecution`) | the copy in the execution object | start, run, finish, PUT state, unstop | state service, authorization | what they checked still holds when they act |
| Ontology, SQL and key-value engines | the execution's record; the copy in the object | spawn, get, set state, delete, lists | persistence | the record changes as asked; a finished one has a finish time |
| Key-value service | lists of executions by user and status and by user and delivery | as above, with lists that mend themselves when read | key-value persistence | lists agree with records |
| Delivery server service, attempt service | none | resumable executions, attempts | execution service | answers are complete |
| Execution counter | one count per state | listens to created and changed | key-value persistence | counts follow the events |
| Deletion service and script | none | delete everything about an execution | every registered service | nothing is left, nothing else is lost |
| Capacity service, load metrics | two cached counters with a lifetime, two locks | get capacity, consume, recalculate | cache, cloud metrics | no more starts than capacity; capacity returns |
| Restrictions, authorization, assignment | provider lists | may a start or resume proceed | capacity, user data | a refusal by one is a refusal |
| Theme details | cache of theme by delivery | theme of the current execution | ontology, cache | the cached theme is the delivery's |
| Score-empty script | static cache of test definitions | page through executions, store missing scores | result storage | each missing score stored once, with the right item |
| Launch page (`DeliveryServer/index.js`) | launch flag | click or key on an entry point | server | one launch per page; a launch is followed by leaving |
| Player page (`deliveryExecution.js`) | loading bar and its timers, throttled resize | start; finish, exit, loading and resize events | frame, server, full screen | the bar shows loading; the frame fits; a finish reaches the server |
| Full screen (`fullScreen.js`) | prompt, interval, class name, listeners | init, change event, key, click, interval | browser | without full screen the prompt is there or comes |
| Containers, context, metadata, fields, templates, installation | - | rendering, value objects, one-off scripts | - | not modelled |

Hard behaviours: two requests on one execution (their checks, writes and events
interleave); a write from a copy read before another request's write; a process
that dies between its write and its events; an SQL update that fails and is
reported as `false`; the two writes of a finish in the ontology; lists that are
rewritten while they are iterated; a deletion under a running request; locks and
cache entries that expire in use; in the browser, scripts that go on while the
next page is fetched, requests whose answer nobody waits for, timers that are
never cleared, and a full screen that is requested without waiting for the
browser's decision. `PROJECT.json` lists each hazard at its line.

## 2. Modules

| Module | What it is |
|---|---|
| `ExecutionStates` | the four states and the sets of states the code tests membership of |
| `ExecutionLifecycle` | abstract: an execution moves along the edges of the exposed operations, and each move is heard |
| `StateService` | requests that load, decide, write and announce as separate steps, over any of the three engines, with faults; refines `ExecutionLifecycle` when requests do not overlap |
| `MCStateService` | instance for TLC: symmetry of processes and executions |
| `StateServiceProofs` | the inductive invariants and nine theorems |
| `SerialProofs` | requests that do not overlap: they implement `ExecutionLifecycle`; where nothing exposed leads back, what has ended has ended for good; two expected violations become theorems |
| `ExecutionRegistry` | abstract: what the execution service answers, from the records alone |
| `KeyValueService` | the key-value engine with its records, its two families of lists and their mending; refines `ExecutionRegistry` |
| `MCKeyValueService` | instance for TLC: who owns which execution |
| `KeyValueServiceProofs` | the lists are exact; the refinement, proved; when an answer by delivery is complete, and how it ceases to be |
| `ExecutionCounter` | extends `StateService`: the listener that counts executions per state, call by call inside the requests whose events it hears |
| `MCExecutionCounter`, `CounterProofs` | instance for TLC; the invariant and five theorems |
| `Capacity` | two cached numbers with a lifetime, two locks with a lifetime, `getCapacity` and `consume` of concurrent processes |
| `MCCapacity`, `CapacityProofs` | instance for TLC; the invariants and six theorems |
| `Browser` | the tab: the page it shows, the address it is going to, a request it has forgotten |
| `LaunchPage` | extends `Browser`: the controller of the index and the waiting page |
| `FrameSize` | extends `Browser`: the frame's height and two throttled functions |
| `FullScreen` | extends `FrameSize`: the full-screen watcher |
| `PlayerPage` | extends `FullScreen`: the page around the frame of a delivery |
| `FrontEnd` | composes `PlayerPage` and `LaunchPage` in one tab with the server |
| `MCFrontEnd`, `FrontEndProofs` | instance for TLC; the invariants and seven theorems |
| `FrontEndLiveness` | the six liveness properties, proved from fairness and the hypothesis `NothingStuck` |

Definitions marked *Mutant* in a comment are deliberately wrong versions of the
definition after them. Nothing uses them; `PROJECT.json` names, for each
property, the one that breaks it.

### StateService

`request[r]` is what process `r` is doing. A request starts with the action of
its operation (`Run`, `Pause`, `Finish`, `Terminate`, `Unstop`, `Put`), which
loads the record (`Load`) and makes the test that operation makes: `run`
requires a resumable state, `unstop` a reactivable one and an engine whose
execution object has the `exists` method it calls, PUT a known and different
state; the others test nothing. Then follow `Leave` (refused, not the owner, or nothing to do) or `Write`, for
a finish in the ontology `Stamp`, and last `Announce`, which triggers the State event
and, where it is due, the Reactivated event. Neither touches the storage, and a write
in between is a write while events are due, so they are one step; a process that dies
between the two is `AnnounceInPart`, one that dies before both is `Crash`. `seen` is the copy in the
execution object; every decision after the load and the event's previous state
use it, as in the code, where the record is cached by `KVDeliveryExecution`
(`$data`), by the resource of `OntologyDeliveryExecution` and by the fields of
`RdsDeliveryExecution`. `Write` replaces whatever is stored now. The engines
differ in three ways, all modelled: the key-value engine writes its whole copy
back (also for a deleted execution, which returns), the ontology writes twice,
an SQL update of a deleted row does nothing and an SQL failure is swallowed
(`WriteFails`).

Three variables record history for the properties: `announced[e]` is what the
last event about `e` said; `owed` holds the executions brought back to an
interactive state by a write whose `DeliveryExecutionReactivated` is still to
come; `disturbed` marks an execution the first time one of four *named* mishaps
befalls it - a write from an outdated copy, a write while another request's
events are due, a crash after a write and before its last event, a failed SQL update. The safety
properties say that whatever goes wrong, goes wrong only through these.

Abstractions: authorization is a choice (`Leave`); a user is not modelled, for
ownership is checked before any write; identifiers are fresh
(`common_Utils::getNewUri`), so each is spawned once; the states taoProctoring
adds are outside the repository; labels, start times and contexts of events
play no part.

### KeyValueService

One step per public operation, with all the reads and writes it makes. The
lists are sets: the code keys the arrays it rebuilds by identifier, so an entry
occurs once. `Mended` is what `getDeliveryExecutionsByStatus` with `fixStatus`
leaves behind; it is part of every status change (`Dropped`, `Added`), because
`updateDeliveryExecutionStatus` reads both lists through it after the record
has changed. The entry itself is therefore moved by the mending of the old
list, which the model shows and the proof of `MovedExact` retraces. The owner
and delivery of an identifier never change, so they are constants. `deliveries`
holds the deliveries that exist; `DeleteDelivery` takes one away and leaves its
executions, their records and the lists as they are. `Resumable` is the answer of
`DeliveryServerService::getResumableDeliveries`, which leaves out the executions
whose delivery does not exist; so does the `Resumable` of `ExecutionRegistry`, over
the records. The other queries do not ask for the delivery. `unlisted`
and `unattempted` name the executions that a deletion took off a list: the
code removes the user's lists of every status and the user's whole list of the
delivery to delete one execution.

### ExecutionCounter

`Hear` is the moment at which `StateService` announces and the event manager
calls the listener: it is `Announce` conjoined with the start of a count in the
same process. The listener's calls to the persistence follow one by one:
`LookUpOld` (exists and get; one step, for no key is ever removed: the pair answers
as if both were asked at the last of them), `Decrement`, `LookUpNew`,
`First` or `Increment`. Everything else a process or another one may do
meanwhile is `Serve`. `located[e]` is history: the state whose count includes
`e`. Three mishaps are named, and the properties hold but for them: `disturbed`
(from `StateService`), `muddled` (two events of one execution are being counted
at the same time, or a process died while it counted) and `clobbered` (two
listeners found no key and both set it to 1). The Created event carries the
execution object; in the ontology the listener asks it for its state and so reads
the storage (`Entered`), which is why `HearInVain` exists.

### Capacity

`job[p].pc` is where process `p` stands in `getCapacity` or `consume`, the call
told by the key it works on. `recalculateCapacity` is `Miss`, `Enter` (its lock,
then `exists`), `Reread` or `SetProvide` and `SetConsume`, the two writes of a
calculation. `Take` is the decrement; of a key that has expired it makes one that
holds -1 and has no lifetime (`lasting`), which is what the drivers' `decr` does.
A read of a missing key answers false, which the code compares with 0. `Expire`
ends the lifetime of a key, `Reap` that of a dead process's lock and `LoseLock`
that of a slow one's. `granted`, `taken` and `drawing` are history: the result of
the last calculation, the units consumed of it, and who is about to consume one.

### The front end

One tab and the server. `page` is what the tab shows, `nav` where it is going:
an assignment to `window.location` changes nothing until the answer comes, so
the scripts of the old page go on, and a second assignment takes the place of the
first, whose request may have been sent (`lost`; at most one is kept) and may
still be handled (`ValidateLost`, `AnswerLost`) or not (`Drop`: it does not reach the
server, or its handler breaks off). `interrupted` is history: the
user, or an event the user cannot foresee, chose another way while the tab was
on its way. `Back` is the browser's back-forward cache, which shows the list as it
was left, the launch flag included. A request to run an execution takes two steps, for
`runDeliveryExecution` checks a state at line 236 and writes at line 268, and a
finish, a proctor or a forgotten request may come in between: `Validate` makes of
`<<"run", e>>` the address `<<"resume", e>>` (for a forgotten request
`ValidateLost`), and `AnswerRun` (`AnswerLost`) writes `ACTIVE` without looking
again. Every other request is one step here; its reads and
writes apart are the subject of `StateService`. The deliveries exist throughout:
to delete one under its test-taker is the subject of `KeyValueService`.

`LaunchPage`. `LaunchDelivery` and `RunDelivery` are the two functions of
`index.js`; `ClickEntry` and `KeyUpEntry` their two callers. An entry may be the
start of a delivery, an execution to resume, a delivery that is not takable
(class `disabled`) or, on the waiting page, blank.

`FullScreen`. `browser` is one of three kinds: `native` (supported, the change
event has the name `fs` finds), `mute` (supported, under a name it does not find)
and `legacy` (not supported: `awaitFsChange` looks every two seconds). `screen`
tells a full screen that was granted from a window that covers the screen.
`changeInterval` counts steps to the next look; it is 0 when there is no interval.
Opening and closing the prompt trigger its listeners at once, so `OpenDialog` and
`CloseDialog` contain them. Whether closing a closed prompt triggers the listener
is up to the modal of another extension: both are modelled. `marks` counts the
class names `fullscreen`; `remarked` is history.

`FrameSize` has the throttle of lodash as three states (`idle`, `wait`, `again`):
it runs at once, and once more at the end if it was called meanwhile. `PlayerPage`
adds the loading bar: `stops` counts the timers that will stop it, none of which
is ever cleared; `overlapped` is history.

`FrontEnd` adds the server's answers (`AnswerInit`, `Validate`, `AnswerRun`, `RedirectRun`,
`AnswerFinish`, `AnswerIndex` and so on), a proctor who pauses or terminates active
executions, and the waiting page of an
authorization provider. `activity` says what goes on in a behaviour (see the
bounds below). Left out: the text of messages, the LTI error parameters, alerts,
the writing direction, extra routes, and `shutdown-com`, which removes listeners
of other extensions. `routes.js` defines an empty controller.

## 3. Runs

| Run | Instance | Shows |
|---|---|---|
| `lifecycle_serial` | 2 executions, 2 processes, one request per execution at a time, no faults; every operation but PUT | the requests implement `ExecutionLifecycle` |
| `lifecycle_concurrent` | 1 execution, 2 processes, all 6 operations, 3 engines, crash and SQL failure | the type invariant and the eight properties below |
| `kv_index` | 2 users, 2 deliveries, 3 executions (two of one delivery); deliveries and executions are deleted | lists exact, every answer the registry's |
| `finish_time` | expected violation | a finished execution that is put back keeps its finish time, against the doc of `getFinishTime` |
| `resume_race` | expected violation | a run resumes an execution finished since its check |
| `unstop_sql` | expected violation; 1 process, terminate and unstop, three engines | a terminated execution stored in SQL cannot be unstopped over REST |
| `kv_delete` | expected violation | deleting one execution hides its siblings |
| `counter` | 2 executions, 2 processes, pause, finish and unstop, 3 engines, both faults; cut at the first mishap | counts follow the events, and the storage but for deletions; none is negative |
| `counter_deleted` | expected violation; 1 execution, 1 process | a deleted execution stays counted |
| `capacity` | 3 processes, loads 0 % and 80 % of a limit of 75 %, 2 units, death and loss of locks | no calculation is overdrawn by `consume`, nor by `getCapacity` beyond one unit per process; none discards units on offer; what is stuck stays stuck |
| `front_end` | 2 executions, 3 kinds of browsers, one lost request, full screen required or not | thirteen properties: four invariants, three about what steps may never do, six liveness |
| `capacity_stuck` | expected violation, with fairness; 2 processes, idle infrastructure, 1 unit, no mishaps | capacity may be refused for ever |

Properties of `front_end`:

* `NoAttemptWasted` - an execution is created only for a tab that is then on its
  way to it, unless the user interrupted the launch: repeated clicks and keys
  spend no second attempt.
* `LaunchLeaves` - a page that has launched is left; a flag set without leaving
  would make every entry dead.
* `SubmittedFinishes` - a finish its frame reported reaches the server, whatever
  a proctor does meanwhile, unless the tab was told to go elsewhere.
* `EndedStaysEnded` - an execution that has ended while no checked request to run it was on
  its way has ended for good: an open list, a reload, the back button and a forgotten
  request do not bring it back. The exception is the window of `resume_race`.
* `PromptLapses` - a page that requires full screen stops being watched in three
  ways only: a denied request, a full screen left that no event tells of (F11), an
  event under another name.
* `OlderIsWatched`, `PromptedInTime` - without native support the interval runs
  exactly while the prompt is closed, and the prompt comes, unless the user types
  for ever (every key starts the interval anew).
* `PromptedByEvent` - with native support, a page that is not in full screen when
  its change event is due shows the prompt, or is back in full screen.
* `PromptUnmarked` - under the prompt the page is not styled as full screen, but
  after a repeated request.
* `LoadingShown` - while the frame loads the bar is shown, unless the frame began to
  load before a timer of its last unloading ran out (such a timer hides the bar of the
  next loading: no timer is cleared).
* `BarStops` - when the frame has loaded the bar goes, whatever timers overlap.
* `FrameFits` - however the window's changes fall into the throttle, the frame
  fits again.

Properties of `lifecycle_concurrent`:

* `AuditExact` - when no write is being announced and no mishap occurred, the
  last event about an execution carries its stored state.
* `EventsChain` - each event starts where the previous one ended.
* `ReactivationsHeard`, `NoSpuriousReactivation` - a Reactivated event follows
  every return to an interactive state, by whatever operation, and no other
  change.
* `FinishedHasTime` - a finished execution has its finish time once the finish
  is complete, in each engine.
* `RevivalNeedsStaleCopy` - a run resumes an ended execution, or a write brings
  a deleted one back, only from an outdated copy.
* `RevivalPermitted` - the ways back from an ended state are an outdated copy, the
  pause and the PUT that test nothing, and an unstop from a reactivable state; no
  run, and for an SQL execution no unstop.
* `TimeKept` - a stored finish time is lost with its execution only, or to a write
  of an outdated copy of the record.

Properties of `counter` and `capacity`:

* `CountsHeard` - at rest the count of a state is the number of executions whose
  last event named it.
* `NeverNegative` - no count falls below zero, even between the look-up and the
  decrement of two executions that leave a state together.
* `CountsStoredOrDeleted` - once everything rests, each count is the number of
  executions stored in that state and of those deleted from it.
* `GrantRespected` - between two calculations no more units are consumed than
  the first one found, whatever expires and whoever dies, unless a consumer
  outlived its lock.
* `NoUnitsDiscarded` - of the processes that find a key missing, one calculates
  and the others read its result.
* `OverdrawBounded` - `getCapacity` reads and decrements without a lock, so several
  callers may be told of the same unit; the number a calculation left is
  overdrawn by less than one unit per process.
* `StuckForGood` - once both keys have lost their lifetime and nobody is about to
  set one, that stays so, and no further process is given a unit.

Bounds. No counter grows in the state service and the key-value service; the
only bounds are the sets. The counts of `ExecutionCounter` are bounded by
the constraint `Orderly` of its run: it cuts a behaviour once an execution
has met a mishap, after which counts may grow with every change. Nothing is
hidden by it: a mishap is never undone, and the three properties say nothing once
there was one (the states the cut is made at are still checked).
The numbers of `Capacity` stay small of themselves: a calculation puts them back to
at most `TaoLimit`, and each process takes at most one unit below zero. A load above the limit gives a calculation below zero, and two units with
three processes allow the race for the last one.

Two processes suffice
for each race here, for every clause relates one write to one other request; an
execution shares no variable with another but the process, so one execution
suffices for the races and two show that nothing crosses over. Three executions
are the least with a sibling in the same delivery and one in another. The
theorems remove these bounds.

Bounds of `front_end`. Two executions tell an attempt that is wasted from one that is taken, and
a second start from a resumption. `Period` is 2, the least at which a key can come between two
steps of the interval and start it anew. `MaxMarks` 2 allows the second request that
`PromptUnmarked` excludes; `MaxStops` 2 is two timers of the loading bar pending at once, which
may overlap the next loading. `Activities` splits the run in two: the window and the frame in one part, the
detours (reload, stop, back button, proctor, waiting page, leaving the frame) in the other. The
product is many times larger, and no property relates the two, for the window changes nothing
on the server. Clicks, launches and answers go on in both. The theorems hold for any mixture,
and for any executions and bounds, and (but for `PromptedInTime`, see section 4) any period.

`CHECK_DEADLOCK FALSE` appears in the runs of
`StateService` because an instance really stops when every identifier has been
spawned and deleted. Symmetry is used in runs without liveness only.

Fairness. The safety runs of the server go without. A PHP process may die or be cut off at any
time, so the code justifies none for `Announce`; that is why a missing event is a
named mishap and not a violation. `front_end` assumes that the server answers a tab that waits, that
timers run out and that events due are delivered (`Fairness`): the web server, the
event loop and `setInterval` do that. It assumes nothing of the user, the proctor,
the frame, or whether and when a request for full screen is decided.
`capacity_stuck` assumes the most that could be
granted (`LiveSpec`): lifetimes end, processes that have begun a call go on, and
both calls keep being made. Capacity is refused for ever in spite of it.

## 4. Theorems

All proofs are checked by `tlapm` and hold for every set of executions,
processes, users and deliveries, every choice of exposed operations, reactivable
states, engines and faults. Each module's only assumptions are the named ones
about its constants (they have their types; what more is needed is said below).

`StateServiceProofs`. None of the properties is inductive: `AuditExact` says
nothing of a request in flight. The invariant `Trail` does. For an undisturbed
execution at most one request has written and not announced (`WriterAlone`),
what it wrote is stored (`WriterStored`), it started from what the listeners know
(`TrailFollows`), it is the one that owes the Reactivated event and owes it only
if due (`DebtHasWriter`, `WriterOwes`), a copy not marked stale agrees with the
storage (`CopyFresh`) and passed the test of its operation (`CopyAccepted`).
One lemma per action shows that it preserves each part; `TypeCorrect`,
`AuditTheorem`, `ReactivationTheorem`, `FinishTimeTheorem`, `ChainTheorem`,
`NoSpuriousTheorem` and `RevivalTheorem` follow from it. `TimeKeptTheorem` needs a
further invariant, `TimeCopied`: a copy of a key-value record that is not stale has
the record's finish time, for no other engine writes the time apart from a state.
`RevivalPermittedTheorem` needs `JobsMeant`: between its load and its write a
request keeps to what its operation stands for, and an unstop has passed both tests of
`RestExecution::unstop`. It gives the extent of the finding of `unstop_sql`: an SQL
execution that was terminated comes back by a pause, a PUT or an outdated copy only.

`SerialProofs`. Under `Undisturbed == Exclusive /\ Faults = {}` the requests
implement the life cycle (`LifecycleTheorem`). On top of `Trail` the argument
needs `Serial`: a busy execution is busy with one request (`Alone`) and stays
stored (`Present`), no copy goes out of date (`Fresh`), and what a request is
about to write is an edge of its operation from the state it read
(`Permitted`); then `Create` and `Write` are moves of the life cycle, whose
listeners count as informed while the event is due (`Heard`), and every other
step stutters. The run leaves PUT out, which permits every edge of the life cycle and
would hide a request that tests too little; the theorem holds for any operations.
`UndisturbedTheorem` says
that under `Undisturbed` no execution ever counts as disturbed, so that the
exceptions in the invariants of `StateService` are then never taken.

Three more theorems of that module assume `Exclusive` only, whatever crashes or fails.
`EndedForGood` says when an end is final: where neither a pause nor a PUT is exposed,
which test no state, and no ended state is reactivable, an execution that has
finished, was terminated or was deleted never becomes active or paused again,
however long the sequence of requests. Each condition is needed: a terminate, which
tests no state either, followed by an unstop brings a finished execution back where
terminated ones are reactivable. The other two show how far two findings reach. While requests for one execution do not
overlap no copy goes stale (`Apart`), so that what `runDeliveryExecution` validated is
what it resumes (`ResumeTheorem`: the violation of `resume_race` needs an overlap).
Where executions are run, finished and unstopped only, and finished ones are not
reactivable, only a finished execution has a finish time (`FinishTimeExactTheorem`:
the violation of `finish_time` needs PUT, pause, terminate or an overlap). Its
invariant `TimesFinished` follows the time through the copies: one that has it is of a
finished execution and is never moved on, and what the ontology is about to stamp
is still finished.

`KeyValueServiceProofs`. The invariant is `TypeOK`, `IndexExact`,
`AttemptsExact` and `BornFirst` (an identifier is hidden only after it was
spawned, without which a spawn could not make its execution visible). `MendedSame`,
`AddedExact` and `MovedExact` say what mending, adding and moving do to exact
lists; the lemmas per action rest on them. `Refinement` proves
`Spec => ImplementsRegistry`: step by step, the lists answer what the records say, and
what can be resumed is told of the same deliveries, those that still exist.
`AttemptsCompleteTheorem` gives the extent of the defect of `kv_delete`: an answer by
delivery lacks the executions a deletion took off the list and no other (`Told`), so
it is complete as long as none of those is alive. Two theorems say how that comes about
and that it does not pass: an execution leaves the list of its user and delivery only
when an execution of the same user and delivery is deleted (`OffListByDeletion`), and
one that is off the list never returns to it (`OffListForGood`, a theorem about whole
behaviours: for good, as the finding says). Both rest on `MatesChange`, the ways such a
list changes.

`CounterProofs`, on top of `Trail`. `CountsHeard` is about rest; the invariant `CInv`
accounts for every moment: each execution is counted where its last event says
(`Resting`) or, while a listener is moving it, still where it came from or nowhere
yet (`Moving`), one listener at a time (`OneCounts`), and each count is the number
of executions located there (`CountsLocated`). `MoveSizes` relates the move of one
execution to the two cardinalities. The decrement is safe because the listener's
own execution is still located in the old state: that is the unit it takes. The
assumption is `FiniteAssumption`: there are finitely many executions.
`CountsStoredTheorem` composes `CInv` with `AuditExact` and `UnbornUntouched` of the
state service: what the listeners were told is what is stored, or was before a
deletion. `CountsUndeletedTheorem` draws the conclusion for the violation of
`counter_deleted`: it needs a deletion. `ObserverTheorem` (`CountSpec => Spec`)
says that the counter disturbs nothing, so that the theorems about the state service
hold with it as well.

`CapacityProofs`. A process that consumes holds the lock (`Guarded`), and only such a
process draws on a calculation (`DrawersTake`); what the cache offers is never more
than the calculation has left, and what a consumer is about to take is left too
(`Covered`); and the key of a process that calculates is missing, or was made by a
late decrement and is below zero, for only the holder of the second lock sets it
(`MissingWhileCalculating`). Expiry only shrinks what is on offer, and the -1 it may
leave offers nothing. The formula needs nothing but that its result
is an integer.

Outside the lock nothing is exact, and the other theorems say how inexact it gets. A
process that has been told of a unit has it as a promise until it takes it. As long
as the key of `getCapacity` has its lifetime, the cached number less the promises not
yet redeemed stays above some calculated number (or 0) less the number of processes
(`PromisesCovered`): a calculation may put the number up while promises of the old one
are open, but then there are fewer processes to promise anything to. `OverdrawTheorem`
follows; it assumes that there are finitely many processes (`FiniteAssumption`), without which
the bound is no number. Three theorems settle `capacity_stuck` for every instance. A
key without a lifetime holds at most -1 (`LastingOffersNothing`), so nobody is promised
a unit by it: what is `Stuck` stays so (`StuckTheorem`) and `CapacityReturns` is false
of every behaviour that comes to it, with fairness or without
(`RefusedForGoodTheorem`). Conversely, under the fairness of `Expire` in `LiveSpec` a refusal for
ever means a key that has lost its lifetime for ever (`RefusedByLastingTheorem`): there is no
other way to be refused. Its hypothesis is what the prover cannot see for itself, that
`Expire` is enabled wherever its guard holds.

`FrontEndProofs`. Three invariants about separate parts of the state. `FsInv`: an
older browser has its interval or its prompt, a page under its prompt is unmarked,
and without a repeated request there is one mark at most (`SingleMark`): one
class name is all that a change event takes away (`OlderIsWatchedTheorem`,
`PromptUnmarkedTheorem`, `PromptLapsesOnly`). `BarInv`: no timer is left while the frame loads without an
overlap (`LoadingInvariant`). `SessionInv`: a tab on its way to a start shows the
list it launched from, flag set (`LaunchGuarded`), a forgotten start implies an
interruption (`LostLaunch`), and an execution that is shown or being finished was
created, as was one whose request to run it has been checked (`ShownExists`); from it
follows `NoAttemptIsWasted`. `EndedStaysEndedTheorem` rests on `SealedStep`: an
execution that has ended, with no checked request to run it left, stays so with
every step, for only a resumable one passes the check. The
assumptions are those the modules name: `NoExecution` is no execution, the
bounds are positive, and a page may require full screen or not
(`RequireFullScreen` has a value).

`FrontEndLiveness`. The six liveness properties of `front_end`, each as
`Spec /\ []NothingStuck => ...`. The prover reasons about temporal formulas, weak
fairness included, but knows nothing of `ENABLED`; what it would have to be told is
exactly `NothingStuck` (an answer, event or timer that is due is enabled), which stands in
every one of these theorems as a hypothesis. It is read off the guards of the actions and
is no property of the code; the run checks the liveness properties themselves, for which
TLC evaluates `ENABLED`. What is proved is the rest of the argument: that what
is due stays due until a fair step ends it, and that this step brings what was promised.
`BarStopsTheorem` rests on `BarTimed` (a bar that shows while the frame is loaded
has a timer), `FrameFitsTheorem` on `FramePending` (a frame that does not fit has an
event or the end of a throttle before it), `PromptedByEventTheorem` on the
event that is due. `LaunchLeavesTheorem` and `SubmittedFinishesTheorem` follow the tab
through its redirections: whatever answer comes, the next address is nearer to the
page, the list or the log-out (`NextWay`, `AnswerWay`), and a proctor can only change which one
(`DivertWay`); `WayInvariant` says that a launched or submitted page is on such a
way. `PromptedInTime` counts: from the time on at which no keys are pressed, whatever is
left of the interval becomes one step less, or the wait is over, for an interval of any
length (`CountdownTheorem`, by `WaitSteps` and `CountSteps`). That the count then gets
to its end is an induction over a number in a temporal formula, for which the prover
would need an induction theorem it cannot instantiate; `PromptedInTimeTheorem` follows the count by
hand and therefore assumes a `Period` of at most three steps. The step is the model's
unit: `Period` 1 is the interval as a whole, and 2 already separates a key that comes
early in it from one that comes late.

Every invariant and action property of every passing run is proved; so are the
refinements, and the liveness properties from the hypothesis `NothingStuck`,
`PromptedInTime` for intervals of up to three steps. What stays with TLC: the liveness
properties without that hypothesis, `PromptedInTime` for a longer interval, and that
the expected violations happen. `UnstopPossible` speaks of `ENABLED`. That `Stuck` is
reached, without which `StuckTheorem` would be empty, is what the counterexample of
`capacity_stuck` shows.

## 5. Findings

1. *Finish time kept* (`finish_time`): `DeliveryExecutionInterface::getFinishTime`
   is documented to be null for an execution not yet finished; no engine clears
   it when a finished execution is moved on.
2. *Check of a copy* (`resume_race`): `runDeliveryExecution` and
   `StateValidation` check the state the object read; the write that follows
   overwrites a finish stored in between with `ACTIVE`. (`EndedStaysEnded` shows that,
   of the requests of a test-taker, only one checked before the end does so.)
3. *Siblings hidden by a deletion* (`kv_delete`): the key-value engine drops whole
   lists to delete one execution; by delivery its siblings never return
   (`OffListForGood`), so `AttemptService` undercounts.
4. *Unstop of an SQL execution* (`unstop_sql`): `RestExecution::unstop` calls
   `exists()`, which `RdsDeliveryExecution` does not have. (A pause, a PUT or an outdated copy brings such
   an execution back, nothing else: `RevivalPermittedTheorem`.)
5. *Deleted executions counted* (`counter_deleted`): a deletion sends no event, so
   `count()` never falls; `refresh()`, which should recalculate, is empty.
6. *Capacity stuck* (`capacity_stuck`): a key that expires between its read and its
   decrement comes back as -1 without lifetime; when this has befallen both keys
   nothing calculates again. (Where `consume` alone is called, one is enough:
   nothing in this repository outside tests calls `getCapacity`.) `RefusedForGoodTheorem`
   says so of any number of processes, `RefusedByLastingTheorem` that nothing else can.

Noted while modelling, without a run of their own:

* A Created or State event is sent although the SQL update failed (`WriteFails`;
  the event's doc says "should be triggered after changing").
* List updates of two processes on one user overwrite each other.
* The score-empty script keys its item cache by test.
* A denied request for full screen leaves the test without full screen and
  without prompt, though the prompt says "This test needs to be taken in full
  screen mode": nobody listens for a refusal. `PromptLapses` names it.
* `fullScreen.js:133` removes one class name where `:106` may have added two; the
  expression has no `g` flag. `PromptUnmarked` names it.
* An Enter pressed after full screen was left and before the change event is
  handled asks for full screen again; if that is granted after the handler has
  run, the prompt stays open over a page on full screen.
* The back button shows the list with its launch flag set, where the browser
  keeps pages: no entry can be launched until it is reloaded. `LaunchLeaves`
  names it as an interruption.
* `index.js:118` tests the LTI message before the text for an empty one is
  chosen, so an empty message shows nothing.

## 6. Not modelled, and what is left

Left, in order of weight:

1. The key-value service with each `get`, `set` and `del` a step of concurrent
   requests: lost entries, double entries, what mending repairs and what it
   cannot (the list by delivery), crashes in between. Abstract side:
   `ExecutionRegistry` restricted to queries at rest. `KeyValueService` takes each
   operation in one step; the three hazards of its lists that need smaller steps
   are listed without a property.
2. The deletion service: it calls services of other extensions, one of which may
   throw; their data is not in this repository.
3. The theme cache and the score-empty script: each is one process over data that
   other extensions change.

Not planned: rendering, translations, languages, session attributes, installation
and update scripts, feedback and alerts: they keep no state that another step
depends on. `routes.js` is empty, and the `messages_po.js` files are generated
tables of translations.
