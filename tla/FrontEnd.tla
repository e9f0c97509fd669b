------------------------------- MODULE FrontEnd -------------------------------
(***************************************************************************)
(* A test-taker's tab and the server: the list of entry points, the page   *)
(* of an execution, and what the controllers of the server answer and      *)
(* change. A request is handled in one step here, the one that runs an     *)
(* execution in two, its check and its write; StateService has all steps.  *)
(***************************************************************************)
EXTENDS PlayerPage, LaunchPage

CONSTANTS RequireFullScreen,   \* values of the option requireFullScreen
          Activities           \* what goes on in a behaviour

Activity == {"screen", "frame", "detour"}

ASSUME FrontEndAssumption ==
  /\ RequireFullScreen \subseteq BOOLEAN /\ RequireFullScreen # {}
  /\ Activities \subseteq SUBSET Activity

VARIABLES
  status,     \* status[e]: the stored state of execution e
  activity    \* one of Activities: the window changes, the frame loads, and
              \* the tab, a proctor or an authorization provider make detours

serverVars == <<status, activity>>

vars == <<browserVars, sizeVars, fsVars, playerVars, launchVars, serverVars>>

Init ==
  /\ page = "list" /\ nav = NoUrl /\ lost = NoUrl /\ interrupted = FALSE
  /\ PlayerInit /\ LaunchInit
  /\ status = [e \in Execution |-> UNBORN]
  /\ activity \in Activities

\* What the index offers: the executions in progress, and the delivery as long
\* as an attempt is left.
Offers ==
  {<<"run", e>> : e \in {x \in Execution : status[x] \in ResumableStates}}
  \cup IF \E e \in Execution : status[e] = UNBORN
       THEN {<<"init">>} ELSE {Disabled}

Become(e, s) == status' = [status EXCEPT ![e] = s] /\ UNCHANGED activity

Arrive(p) == page' = p /\ UNCHANGED <<lost, interrupted>>

\* initDeliveryExecution: the execution is created and the tab sent on to it.
AnswerInit ==
  /\ nav = <<"init">>
  /\ \E e \in Execution :
       status[e] = UNBORN /\ Become(e, InitialStatus) /\ nav' = <<"run", e>>
  /\ UNCHANGED <<page, lost, interrupted, playerVars, sizeVars, fsVars,
                 launchVars>>

\* No attempt is left: the answer is an error.
RefuseInit ==
  /\ nav = <<"init">>
  /\ \A e \in Execution : status[e] # UNBORN
  /\ Arrive("out") /\ nav' = NoUrl
  /\ UNCHANGED <<playerVars, sizeVars, fsVars, launchVars, serverVars>>

\* Mutant: the state is not compared with the resumable ones.
ValidateAnyState(e) ==
  /\ nav = <<"run", e>>
  /\ nav' = <<"resume", e>>
  /\ UNCHANGED <<page, lost, interrupted, playerVars, sizeVars, fsVars,
                 launchVars, serverVars>>

\* runDeliveryExecution: the execution is one that can be resumed.
Validate(e) ==
  /\ nav = <<"run", e>>
  /\ status[e] \in ResumableStates
  /\ nav' = <<"resume", e>>
  /\ UNCHANGED <<page, lost, interrupted, playerVars, sizeVars, fsVars,
                 launchVars, serverVars>>

\* Later the execution becomes active, whatever its state is by then, and its
\* page is shown.
AnswerRun(e) ==
  /\ nav = <<"resume", e>>
  /\ Become(e, ACTIVE)
  /\ Arrive("player") /\ nav' = NoUrl
  /\ \E s \in {"windowed", "window"}, required \in RequireFullScreen :
       StartPlayer(e, s, required)
  /\ UNCHANGED launchVars

\* The execution cannot be resumed any more: back to the index.
RedirectRun(e) ==
  /\ nav = <<"run", e>>
  /\ status[e] \notin ResumableStates
  /\ nav' = <<"index">>
  /\ UNCHANGED <<page, lost, interrupted, playerVars, sizeVars, fsVars,
                 launchVars, serverVars>>

\* The authorization provider's error page is a waiting page, with the address
\* of the execution or, by mistake, none.
Wait(e) ==
  /\ "detour" \in activity
  /\ nav = <<"resume", e>>
  /\ Arrive("list") /\ nav' = NoUrl
  /\ \E entry \in {<<"run", e>>, Blank} : StartList({entry})
  /\ LeavePlayer
  /\ UNCHANGED serverVars

\* Mutant: only an active execution is finished.
AnswerFinishActive(e) ==
  /\ nav = <<"finish", e>>
  /\ Become(e, IF status[e] = ACTIVE THEN FINISHED ELSE status[e])
  /\ nav' = <<"index">>
  /\ UNCHANGED <<page, lost, interrupted, playerVars, sizeVars, fsVars,
                 launchVars>>

\* Mutant: the answer leads to an address that does not exist.
AnswerFinishAstray(e) ==
  /\ nav = <<"finish", e>>
  /\ Become(e, FINISHED)
  /\ nav' = <<"finished">>
  /\ UNCHANGED <<page, lost, interrupted, playerVars, sizeVars, fsVars,
                 launchVars>>

\* finishDeliveryExecution, whatever the state it leaves.
AnswerFinish(e) ==
  /\ nav = <<"finish", e>>
  /\ Become(e, FINISHED)
  /\ nav' = <<"index">>
  /\ UNCHANGED <<page, lost, interrupted, playerVars, sizeVars, fsVars,
                 launchVars>>

\* A fresh list makes up for an interruption.
AnswerIndex ==
  /\ nav = <<"index">>
  /\ page' = "list" /\ nav' = NoUrl
  /\ interrupted' = (interrupted /\ lost # NoUrl)
  /\ UNCHANGED lost
  /\ StartList(Offers)
  /\ LeavePlayer
  /\ UNCHANGED serverVars

AnswerLogout ==
  /\ nav = <<"logout">>
  /\ Arrive("out") /\ nav' = NoUrl
  /\ LeavePlayer
  /\ UNCHANGED <<launchVars, serverVars>>

\* A request the tab has forgotten is handled all the same: checked, and later
\* carried out. A redirection in its answer is not followed.
ValidateLost(e) ==
  /\ lost = <<"run", e>>
  /\ lost' = IF status[e] \in ResumableStates THEN <<"resume", e>> ELSE NoUrl
  /\ UNCHANGED <<page, nav, interrupted, playerVars, sizeVars, fsVars,
                 launchVars, serverVars>>

AnswerLost ==
  /\ lost # NoUrl
  /\ lost' = NoUrl
  /\ \/ /\ lost = <<"init">>
        /\ \/ \E e \in Execution :
                status[e] = UNBORN /\ Become(e, InitialStatus)
           \/ (\A e \in Execution : status[e] # UNBORN) /\ UNCHANGED serverVars
     \/ \E e \in Execution :
          \/ lost = <<"resume", e>> /\ Become(e, ACTIVE)
          \/ lost = <<"finish", e>> /\ Become(e, FINISHED)
  /\ UNCHANGED <<page, nav, interrupted, playerVars, sizeVars, fsVars,
                 launchVars>>

\* A proctor ends an active execution, or the delivery in its frame pauses it.
Proctor ==
  /\ \E e \in Execution, s \in {PAUSED, TERMINATED} :
       status[e] = ACTIVE /\ Become(e, s)
  /\ UNCHANGED <<browserVars, playerVars, sizeVars, fsVars, launchVars>>

\* The browser's back button shows the list as it was left, flag and all.
Back ==
  /\ playing
  /\ page' = "list"
  /\ Forget /\ nav' = NoUrl
  /\ interrupted' = TRUE
  /\ LeavePlayer
  /\ UNCHANGED <<launchVars, serverVars>>

Roam ==
  /\ Stop \/ Reload
  /\ UNCHANGED <<playerVars, sizeVars, fsVars, launchVars, serverVars>>

Drop ==
  /\ DropLost
  /\ UNCHANGED <<playerVars, sizeVars, fsVars, launchVars, serverVars>>

Launch ==
  /\ ClickEntry \/ KeyUpEntry
  /\ UNCHANGED <<playerVars, sizeVars, fsVars, serverVars>>

Play ==
  /\ \/ "screen" \in activity /\ UseScreen
     \/ "frame" \in activity /\ UseFrame
     \/ "detour" \in activity /\ LeaveFrame
     \/ Timers
  /\ UNCHANGED <<launchVars, serverVars>>

Answer ==
  \/ AnswerInit \/ RefuseInit \/ AnswerIndex \/ AnswerLogout
  \/ \E e \in Execution :
       \/ Validate(e) \/ AnswerRun(e) \/ RedirectRun(e) \/ Wait(e)
       \/ AnswerFinish(e)

LateAnswer == AnswerLost \/ \E e \in Execution : ValidateLost(e)

Next ==
  \/ Launch \/ Play \/ Answer \/ LateAnswer \/ Drop
  \/ "detour" \in activity /\ (Roam \/ Back \/ Proctor)

Alone(A) == A /\ UNCHANGED <<playerVars, launchVars, serverVars>>
WindowOnly(A) == A /\ UNCHANGED <<fsVars, browserVars>>

\* The server answers, timers run out and events are delivered. Nothing is
\* assumed of the user, the proctor, the frame, or how a request for full
\* screen is decided.
Fairness ==
  /\ WF_vars(Answer)
  /\ WF_vars(Alone(ChangeEvent))
  /\ WF_vars(Alone(Elapse \/ IntervalFires))
  /\ WF_vars(Alone(WindowOnly(ResizeEvent)))
  /\ WF_vars(Alone(WindowOnly(ThrottleEnds)))
  /\ WF_vars(StopBar /\ UNCHANGED <<launchVars, serverVars>>)

Spec == Init /\ [][Next]_vars /\ Fairness

-----------------------------------------------------------------------------
TypeOK ==
  /\ page \in Page /\ nav \in Url \cup {NoUrl}
  /\ lost \in Changing \cup {NoUrl} /\ interrupted \in BOOLEAN
  /\ PlayerTypeOK /\ LaunchTypeOK
  /\ status \in [Execution -> State \cup {UNBORN}]
  /\ activity \in Activities

\* A page is watched, for the prompt to come, if it is on full screen, shows
\* the prompt, waits for an answer or an event, or is looked at in intervals.
Watched ==
  installed => \/ fullScreen \/ dialog = "open"
               \/ requested \/ changed \/ changeInterval > 0

\* A page that requires full screen stops being watched in three ways only:
\* the browser denies the request, the user leaves a full screen the page was
\* not told of, or the change event has a name fs does not know.
PromptLapses ==
  [][Watched /\ ~Watched' =>
       /\ isSupported
       /\ \/ Deny \/ UncoverScreen
          \/ browser = "mute" /\ LeaveElement]_vars

\* Without native support the interval runs whenever the prompt is closed.
OlderIsWatched ==
  installed /\ ~isSupported => (dialog = "closed" <=> changeInterval > 0)

\* The page under the prompt is not marked as being on full screen, unless a
\* request was made while it was marked.
PromptUnmarked == dialog = "open" /\ ~remarked => marks = 0

\* While the frame loads the loading bar is shown, unless the frame began to
\* load before a timer of its last unloading ran out.
LoadingShown == frameLoads /\ ~overlapped => bar

\* An execution is created only for a tab that is then on its way to it,
\* unless the user had interrupted the launch: no click or key, however often
\* repeated, spends an attempt that nobody takes.
NoAttemptWasted ==
  [][\A e \in Execution :
       status[e] = UNBORN /\ status'[e] # UNBORN
         => nav' = <<"run", e>> \/ interrupted]_vars

\* A request to run e has been checked and has not yet been carried out.
Resuming(e) == <<"resume", e>> \in {nav, lost}

Ended(e) == status[e] \in {FINISHED, TERMINATED}

\* What has ended while no checked request to run it was on its way has ended
\* for good: no list left open, no button of the browser and no forgotten
\* request brings it back. With such a request on its way it may come back, for
\* the handler does not look again before it writes. (Proctor stands for one
\* who acts on active executions; RevivalPermitted says what others may do.)
EndedStaysEnded ==
  \A e \in Execution : [](Ended(e) /\ ~Resuming(e) => []Ended(e))

\* A page that has launched a delivery is left.
LaunchLeaves ==
  (page = "list" /\ deliveryStarted)
    ~> (page # "list" \/ ~deliveryStarted \/ interrupted)

\* A delivery that its frame says is finished becomes finished on the server,
\* whatever happened to the execution meanwhile.
SubmittedFinishes ==
  \A e \in Execution :
    nav = <<"finish", e>> ~> (status[e] = FINISHED \/ interrupted)

\* When the frame has loaded the bar goes.
BarStops == (bar /\ ~frameLoads) ~> (~bar \/ frameLoads)

\* However often the window changes, the frame fits it again.
FrameFits == ~fitted ~> fitted

\* A page that is not on full screen prompts after a change event, whatever
\* the user does meanwhile.
PromptedByEvent ==
  (installed /\ ~fullScreen /\ changed)
    ~> (dialog = "open" \/ fullScreen \/ ~installed)

\* Without native support it prompts in any case, unless the user keeps
\* pressing keys, each of which starts the interval anew.
PromptedInTime ==
  \/ []<><<UserKeys>>_fsVars
  \/ (installed /\ ~fullScreen /\ ~isSupported)
       ~> (dialog = "open" \/ fullScreen \/ ~installed)
=============================================================================
