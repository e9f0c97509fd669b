--------------------------- MODULE FrontEndLiveness ---------------------------
(***************************************************************************)
(* What the tab and the server eventually do, derived from their fairness. *)
(* The provers know nothing of ENABLED, so each theorem has as hypothesis  *)
(* []NothingStuck: an action whose guard holds is enabled, which one reads *)
(* off the actions. The rest of the rule for weak fairness is proved: what *)
(* is due stays due until it happens, and what happens then.               *)
(***************************************************************************)
EXTENDS FrontEndProofs

\* What is due can happen: the server has an answer for every address a tab
\* can be sent to, in every state of the executions, and no handler of a timer
\* or an event waits for another one.
NothingStuck ==
  /\ nav # NoUrl => ENABLED <<Answer>>_vars
  /\ installed /\ changed => ENABLED <<Alone(ChangeEvent)>>_vars
  /\ changeInterval > 0 => ENABLED <<Alone(Elapse \/ IntervalFires)>>_vars
  /\ resized => ENABLED <<Alone(WindowOnly(ResizeEvent))>>_vars
  /\ throttle # "idle" => ENABLED <<Alone(WindowOnly(ThrottleEnds))>>_vars
  /\ stops > 0 => ENABLED <<StopBar /\ UNCHANGED <<launchVars, serverVars>>>>_vars

-----------------------------------------------------------------------------
\* A bar over a frame that has loaded has a timer that will stop it.
BarTimed == bar /\ ~frameLoads => stops > 0

LEMMA BarTimedInvariant == Spec => []BarTimed
<1> DEFINE I == BarInv /\ BarTimed
<1>1. Init => I
  <2>1. 0 \in 0..MaxStops
    BY MaxStopsAssumption
  <2> QED BY <2>1 DEF Init, PlayerInit, BarInv, BarTimed
<1>2. I /\ [Next]_vars => I'
  <2> SUFFICES ASSUME BarInv, BarTimed, [Next]_vars PROVE I'
    OBVIOUS
  <2>1. BarInv'
    BY NextBarInv
  <2>2. Loading \/ StopBar \/ ResetBar => BarTimed'
    <3>1. Loading => frameLoads'
      BY DEF Loading
    <3>2. StopBar \/ ResetBar => bar' = FALSE
      BY DEF StopBar, ResetBar
    <3> QED BY <3>1, <3>2 DEF BarTimed
  <2>3. UNCHANGED barVars => BarTimed'
    <3>1. UNCHANGED barVars =>
            bar' = bar /\ frameLoads' = frameLoads /\ stops' = stops
      BY DEF barVars
    <3> QED BY <3>1 DEF BarTimed, BarInv
  <2>4. Unloading => BarTimed'
    BY DEF Unloading, BarInv, BarTimed
  <2> QED BY <2>1, <2>2, <2>3, <2>4, BarSteps
<1> QED BY <1>1, <1>2, PTL DEF Spec

\* When the frame has loaded, the bar that 'loading' started goes.
THEOREM BarStopsTheorem == Spec /\ []NothingStuck => BarStops
<1> DEFINE A == StopBar /\ UNCHANGED <<launchVars, serverVars>>
<1>1. bar /\ ~frameLoads /\ <<A>>_vars => (~bar \/ frameLoads)'
  BY DEF StopBar
<1>2. bar /\ ~frameLoads /\ BarTimed /\ NothingStuck => ENABLED <<A>>_vars
  BY DEF BarTimed, NothingStuck
<1> QED
  BY <1>1, <1>2, BarTimedInvariant, PTL DEF Spec, Fairness, BarStops

-----------------------------------------------------------------------------
\* A frame that does not fit awaits the resize event, or a second run of the
\* throttled handler.
FramePending == ~fitted => resized \/ throttle = "again"

LEMMA FramePendingInvariant == Spec => [](SizeTypeOK /\ FramePending)
<1>1. Init => SizeTypeOK /\ FramePending
  BY DEF Init, PlayerInit, SizeInit, SizeTypeOK, Throttle, FramePending
<1>2. SizeTypeOK /\ FramePending /\ [Next]_vars => SizeTypeOK' /\ FramePending'
  <2> SUFFICES ASSUME SizeTypeOK, FramePending, [Next]_vars
               PROVE  SizeTypeOK' /\ FramePending'
    OBVIOUS
  <2>1. SizeTypeOK'
    BY SizeSteps
  <2>2. ASSUME OnResize PROVE ~fitted' => throttle' = "again"
    BY <2>2 DEF OnResize, ResizeMainFrame, Throttled
  <2>3. ASSUME Trigger, UNCHANGED resized PROVE FramePending'
    BY <2>2, <2>3 DEF Trigger, FramePending
  <2>4. TriggerResize /\ UNCHANGED resized => FramePending'
    BY <2>3 DEF TriggerResize, FramePending
  <2>5. UNCHANGED sizeVars \/ ResetSize \/ WindowChanges => FramePending'
    BY DEF sizeVars, ResetSize, WindowChanges, FramePending
  <2>6. ResizeEvent => FramePending'
    BY <2>2 DEF ResizeEvent, FramePending
  <2>7. ThrottleEnds => FramePending'
    BY DEF ThrottleEnds, ResizeMainFrame, FramePending
  <2>8. TriggersEnd => FramePending'
    BY <2>3 DEF TriggersEnd, FramePending
  <2> QED
    BY <2>1, <2>4, <2>5, <2>6, <2>7, <2>8, SizeMoves DEF SizeMove
<1> QED BY <1>1, <1>2, PTL DEF Spec

\* However often the window changes, the frame fits it again: no call of the
\* throttled handler is lost.
THEOREM FrameFitsTheorem == Spec /\ []NothingStuck => FrameFits
<1> DEFINE Event == Alone(WindowOnly(ResizeEvent))
           End == Alone(WindowOnly(ThrottleEnds))
           Due == ~fitted /\ resized
           Again == ~fitted /\ throttle = "again"
<1>1. SizeTypeOK /\ Due /\ [Next]_vars => Due' \/ Again' \/ fitted'
  <2> SUFFICES ASSUME SizeTypeOK, Due, [Next]_vars, ~fitted', ~resized'
               PROVE  throttle' = "again"
    BY SizeSteps DEF SizeTypeOK
  <2> QED
    BY SizeMoves
       DEF SizeMove, sizeVars, ResetSize, WindowChanges, ResizeEvent, OnResize,
           ResizeMainFrame, Throttled, ThrottleEnds, TriggersEnd
<1>2. SizeTypeOK /\ Due /\ <<Event>>_vars => Again' \/ fitted'
  BY DEF Alone, WindowOnly, ResizeEvent, OnResize, ResizeMainFrame, Throttled
<1>3. SizeTypeOK /\ Again /\ [Next]_vars => Again' \/ fitted'
  <2> SUFFICES ASSUME Again, [Next]_vars, ~fitted' PROVE throttle' = "again"
    OBVIOUS
  <2>1. OnResize => throttle' = "again"
    BY DEF OnResize, Throttled
  <2> QED
    BY <2>1, SizeMoves
       DEF SizeMove, sizeVars, ResetSize, WindowChanges, TriggerResize, Trigger,
           ResizeEvent, ResizeMainFrame, ThrottleEnds, TriggersEnd
<1>4. Again /\ <<End>>_vars => fitted'
  BY DEF Alone, WindowOnly, ThrottleEnds, ResizeMainFrame
<1>5. NothingStuck => /\ Due => ENABLED <<Event>>_vars
                      /\ Again => ENABLED <<End>>_vars
  BY DEF NothingStuck
<1>6. FramePending => (~fitted => Due \/ Again)
  BY DEF FramePending
<1> HIDE DEF Due, Again
<1> QED
  BY <1>1, <1>2, <1>3, <1>4, <1>5, <1>6, FramePendingInvariant, PTL
     DEF Spec, Fairness, FrameFits

-----------------------------------------------------------------------------
\* A page that has launched a delivery goes somewhere, unless the user
\* interrupted it.
LaunchPending == page = "list" /\ deliveryStarted => interrupted \/ nav # NoUrl

\* The frame has submitted: its page is shown until the user interrupts it.
SubmitShown ==
  \A e \in Execution : nav = <<"finish", e>> => playing \/ interrupted

WayInv == SessionInv /\ LaunchPending /\ SubmitShown

\* The tab is diverted, or goes back to the list it came from.
LEMMA DivertWay ==
  ASSUME SessionInv, NEW url, Divert(url), UNCHANGED <<page, launchVars>>,
         nav # NoUrl \/ url # NoUrl,
         \A e \in Execution : url = <<"finish", e>> => playing
  PROVE  LaunchPending' /\ SubmitShown'
<1>1. /\ nav' = url /\ interrupted' = (interrupted \/ nav # NoUrl)
      /\ page' = page
  BY DEF Divert, GoTo
<1>2. LaunchPending'
  BY <1>1 DEF LaunchPending
<1>3. SubmitShown'
  BY <1>1 DEF SubmitShown, playing
<1> QED BY <1>2, <1>3

\* What an answer makes of the way of the tab.
LEMMA AnswerWay ==
  ASSUME WayInv, Answer PROVE LaunchPending' /\ SubmitShown'
<1>1. CASE AnswerInit
  <2>1. PICK e \in Execution : nav' = <<"run", e>>
    BY <1>1 DEF AnswerInit
  <2> QED BY <2>1, UrlsDiffer, UrlMembers DEF LaunchPending, SubmitShown
<1>2. CASE RefuseInit \/ AnswerLogout
  <2>1. page' = "out" /\ nav' = NoUrl
    BY <1>2 DEF RefuseInit, AnswerLogout, Arrive
  <2> QED BY <2>1, UrlsDiffer, UrlMembers DEF LaunchPending, SubmitShown
<1>3. CASE AnswerIndex
  <2>1. deliveryStarted' = FALSE /\ nav' = NoUrl
    BY <1>3 DEF AnswerIndex, StartList
  <2> QED BY <2>1, UrlsDiffer, UrlMembers DEF LaunchPending, SubmitShown
<1>4. ASSUME NEW e \in Execution, AnswerRun(e)
      PROVE  LaunchPending' /\ SubmitShown'
  <2>1. page' = "player" /\ nav' = NoUrl
    BY <1>4 DEF AnswerRun, Arrive
  <2> QED BY <2>1, UrlsDiffer, UrlMembers DEF LaunchPending, SubmitShown
<1>7. ASSUME NEW e \in Execution, Validate(e)
      PROVE  LaunchPending' /\ SubmitShown'
  <2>1. nav' = <<"resume", e>>
    BY <1>7 DEF Validate
  <2> QED BY <2>1, UrlsDiffer, UrlMembers DEF LaunchPending, SubmitShown
<1>5. ASSUME NEW e \in Execution, RedirectRun(e) \/ AnswerFinish(e)
      PROVE  LaunchPending' /\ SubmitShown'
  <2>1. nav' = <<"index">>
    BY <1>5 DEF RedirectRun, AnswerFinish
  <2> QED BY <2>1, UrlsDiffer, UrlMembers DEF LaunchPending, SubmitShown
<1>6. ASSUME NEW e \in Execution, Wait(e) PROVE LaunchPending' /\ SubmitShown'
  <2>1. deliveryStarted' = FALSE /\ nav' = NoUrl
    BY <1>6 DEF Wait, StartList, Arrive
  <2> QED BY <2>1, UrlsDiffer, UrlMembers DEF LaunchPending, SubmitShown
<1> QED BY <1>1, <1>2, <1>3, <1>4, <1>5, <1>6, <1>7 DEF Answer

\* No entry point of a list is the address that ends an attempt.
LEMMA NoEntryFinishes ==
  ASSUME NEW entry \in Entry, NEW e \in Execution
  PROVE  entry # <<"finish", e>>
<1>1. Blank # <<"finish", e>>
  BY UrlsDiffer, UrlMembers DEF Blank
<1>2. Disabled # <<"finish", e>>
  BY DEF Disabled
<1> QED BY <1>1, <1>2, UrlsDiffer DEF Entry

LEMMA NextWay == WayInv /\ [Next]_vars => WayInv'
<1> SUFFICES ASSUME WayInv, [Next]_vars PROVE WayInv'
  OBVIOUS
<1>1. SessionInv'
  BY NextSession DEF WayInv
<1> SUFFICES LaunchPending' /\ SubmitShown'
  BY <1>1 DEF WayInv
<1>2. UNCHANGED <<page, nav, interrupted, deliveryStarted>> =>
        LaunchPending' /\ SubmitShown'
  BY DEF WayInv, LaunchPending, SubmitShown, playing
<1>3. CASE Launch
  <2>1. PICK entry \in offered : Launches(entry)
    BY <1>3 DEF Launch, ClickEntry, KeyUpEntry
  <2>2. /\ \/ entry # Blank /\ nav' = entry
           \/ UNCHANGED <<nav, deliveryStarted>>
        /\ UNCHANGED <<page, interrupted>>
    BY <2>1 DEF Launches, LaunchDelivery, RunDelivery, GoTo
  <2>3. \A e \in Execution : entry # <<"finish", e>>
    <3>1. entry \in Entry
      BY <2>1 DEF WayInv, SessionInv, SessionTypeOK, LaunchTypeOK
    <3> QED BY <3>1, NoEntryFinishes
  <2> QED
    BY <1>2, <2>2, <2>3 DEF LaunchPending, SubmitShown, Blank
<1>4. CASE Play
  <2>1. CASE LeaveFrame
    <3>1. PICK url : /\ Divert(url) /\ playing /\ url # NoUrl
                     /\ UNCHANGED <<page, launchVars>>
      BY <1>4, <2>1, UrlMembers, UrlsDiffer
         DEF Play, LeaveFrame, FinishTest, ExitTest, Forbidden, NoUrl
    <3> QED BY <3>1, DivertWay DEF WayInv
  <2>2. CASE ~LeaveFrame
    <3>1. UNCHANGED <<browserVars, launchVars>>
      BY <1>4, <2>2 DEF Play, UseScreen, FsUser, UserKeys, KeyDown, Click,
         HandleUserInput, Grant, Deny, LeaveElement, CoverScreen,
         UncoverScreen, ScreenTo, DragWindow, UseFrame, Loading, Unloading,
         Timers, FsTimers, ChangeEvent, Elapse, IntervalFires, Resizing, StopBar
    <3> QED BY <1>2, <3>1 DEF browserVars, launchVars
  <2> QED BY <2>1, <2>2
<1>5. CASE Roam
  <2>1. CASE Stop
    BY <1>5, <2>1, DivertWay, UrlsDiffer DEF Roam, Stop, WayInv, NoUrl
  <2>2. CASE Reload
    BY <1>5, <2>2, DivertWay, UrlsDiffer DEF Roam, Reload, WayInv, NoUrl
  <2> QED BY <1>5, <2>1, <2>2 DEF Roam
<1>6. CASE Back
  BY <1>6 DEF Back, LaunchPending, SubmitShown
<1>7. CASE LateAnswer \/ Drop \/ Proctor \/ UNCHANGED vars
  BY <1>2, <1>7
     DEF LateAnswer, ValidateLost, AnswerLost, Drop, DropLost, Proctor, vars,
         browserVars, launchVars
<1> QED BY <1>3, <1>4, <1>5, <1>6, <1>7, AnswerWay DEF Next

LEMMA WayInvariant == Spec => []WayInv
<1>1. Init => WayInv
  <2>1. \A e \in Execution : NoUrl # <<"finish", e>>
    BY UrlsDiffer, UrlMembers
  <2> QED
    BY <2>1, InitSession
       DEF Init, LaunchInit, WayInv, LaunchPending, SubmitShown
<1> QED BY <1>1, NextWay, PTL DEF Spec

-----------------------------------------------------------------------------
\* The list has launched a delivery and the user has not interfered.
Launched == page = "list" /\ deliveryStarted /\ ~interrupted

Finishing(e) == nav = <<"finish", e>> /\ ~interrupted

\* Nothing but an answer ends a way that is not interrupted.
LEMMA WayKept ==
  ASSUME WayInv, [Next]_vars, ~Answer, nav # NoUrl,
         Launched \/ \E e \in Execution : Finishing(e)
  PROVE  interrupted' \/ UNCHANGED <<page, nav, deliveryStarted>>
<1>1. ASSUME NEW url, Divert(url) PROVE interrupted'
  BY <1>1 DEF Divert
<1>2. CASE Launch
  BY <1>2 DEF Launched, Finishing, WayInv, SubmitShown, playing, Launch,
     ClickEntry, KeyUpEntry, Launches, LaunchDelivery
<1>3. CASE Play
  <2>1. LeaveFrame => interrupted'
    BY <1>1 DEF LeaveFrame, FinishTest, ExitTest, Forbidden
  <2>2. ~LeaveFrame => UNCHANGED <<browserVars, launchVars>>
    BY <1>3 DEF Play, UseScreen, FsUser, UserKeys, KeyDown, Click,
       HandleUserInput, Grant, Deny, LeaveElement, CoverScreen,
       UncoverScreen, ScreenTo, DragWindow, UseFrame, Loading, Unloading,
       Timers, FsTimers, ChangeEvent, Elapse, IntervalFires, Resizing, StopBar
  <2> QED BY <2>1, <2>2 DEF browserVars, launchVars
<1>4. CASE Roam \/ Back
  BY <1>1, <1>4 DEF Roam, Stop, Reload, Back
<1>5. CASE LateAnswer \/ Drop \/ Proctor \/ UNCHANGED vars
  BY <1>5
     DEF LateAnswer, ValidateLost, AnswerLost, Drop, DropLost, Proctor, vars,
         browserVars, launchVars
<1> QED BY <1>2, <1>3, <1>4, <1>5 DEF Next

\* Where the list that has launched a delivery is sent.
Bound(urls) == Launched /\ nav \in urls

ToNew == Bound({<<"init">>})
ToRun == Bound({<<"run", e>> : e \in Execution})
ToPage == Bound({<<"resume", e>> : e \in Execution})
ToFinish == Bound({<<"finish", e>> : e \in Execution})
ToIndex == Bound({<<"index">>})
ToLogout == Bound({<<"logout">>})

LEMMA Ways ==
  ASSUME WayInv, Launched
  PROVE  /\ nav # NoUrl
         /\ ToNew \/ ToRun \/ ToPage \/ ToFinish \/ ToIndex \/ ToLogout
BY DEF WayInv, LaunchPending, Launched, SessionInv, SessionTypeOK, Url,
       Changing, Bound, ToNew, ToRun, ToPage, ToFinish, ToIndex, ToLogout

\* An answer brings the tab one address further, or to another page.
LEMMA AnswerForwards ==
  ASSUME WayInv, Launched, Answer
  PROVE  /\ ToNew => ToRun' \/ ~Launched'
         /\ ToRun => ToPage' \/ ToIndex' \/ ~Launched'
         /\ ToFinish => ToIndex' \/ ~Launched'
         /\ ToPage \/ ToIndex \/ ToLogout => ~Launched'
<1>1. CASE AnswerInit
  <2>1. nav = <<"init">> /\ \E e \in Execution : nav' = <<"run", e>>
    BY <1>1 DEF AnswerInit
  <2> QED
    BY <2>1, UrlsDiffer
       DEF Bound, ToNew, ToRun, ToPage, ToFinish, ToIndex, ToLogout
<1>2. CASE RefuseInit \/ AnswerLogout
  BY <1>2 DEF RefuseInit, AnswerLogout, Arrive, Launched
<1>3. CASE AnswerIndex
  BY <1>3 DEF AnswerIndex, StartList, Launched
<1>4. ASSUME NEW e \in Execution, AnswerRun(e) \/ Wait(e) PROVE ~Launched'
  BY <1>4 DEF AnswerRun, Wait, StartList, Arrive, Launched
<1>5. ASSUME NEW e \in Execution, RedirectRun(e) \/ AnswerFinish(e)
      PROVE  /\ ~ToNew /\ ~ToPage /\ ~ToIndex /\ ~ToLogout
             /\ ToIndex' \/ ~Launched'
  <2>1. /\ nav = <<"run", e>> \/ nav = <<"finish", e>>
        /\ nav' = <<"index">>
    BY <1>5 DEF RedirectRun, AnswerFinish
  <2>2. /\ nav \notin {<<"init">>, <<"index">>, <<"logout">>}
        /\ \A x \in Execution : nav # <<"resume", x>>
    BY <2>1, UrlsDiffer
  <2> QED BY <2>1, <2>2 DEF Bound, ToNew, ToPage, ToIndex, ToLogout
<1>6. ASSUME NEW e \in Execution, Validate(e)
      PROVE  /\ ~ToNew /\ ~ToPage /\ ~ToFinish /\ ~ToIndex /\ ~ToLogout
             /\ ToPage' \/ ~Launched'
  <2>1. nav = <<"run", e>> /\ nav' = <<"resume", e>>
    BY <1>6 DEF Validate
  <2>2. /\ nav \notin {<<"init">>, <<"index">>, <<"logout">>}
        /\ \A x \in Execution : nav \notin {<<"resume", x>>, <<"finish", x>>}
    BY <2>1, UrlsDiffer
  <2> QED
    BY <2>1, <2>2 DEF Bound, ToNew, ToPage, ToFinish, ToIndex, ToLogout
<1> QED BY <1>1, <1>2, <1>3, <1>4, <1>5, <1>6 DEF Answer

\* A page that has launched a delivery is left.
THEOREM LaunchLeavesTheorem == Spec /\ []NothingStuck => LaunchLeaves
<1>1. ASSUME WayInv, Launched, [Next]_vars
      PROVE  \/ ~Launched' \/ Answer
             \/ /\ ToNew => ToNew'
                /\ ToRun => ToRun'
                /\ ToPage => ToPage'
                /\ ToFinish => ToFinish'
                /\ ToIndex => ToIndex'
                /\ ToLogout => ToLogout'
  BY <1>1, Ways, WayKept
     DEF Launched, Bound, ToNew, ToRun, ToPage, ToFinish, ToIndex, ToLogout
<1>2. ToNew \/ ToRun \/ ToPage \/ ToFinish \/ ToIndex \/ ToLogout => Launched
  BY DEF Bound, ToNew, ToRun, ToPage, ToFinish, ToIndex, ToLogout
<1>3. /\ WayInv /\ ToNew /\ [Next]_vars => ToNew' \/ ToRun' \/ ~Launched'
      /\ WayInv /\ ToNew /\ <<Answer>>_vars => ToRun' \/ ~Launched'
  BY <1>1, <1>2, AnswerForwards
<1>11. /\ WayInv /\ ToRun /\ [Next]_vars =>
            ToRun' \/ ToPage' \/ ToIndex' \/ ~Launched'
       /\ WayInv /\ ToRun /\ <<Answer>>_vars => ToPage' \/ ToIndex' \/ ~Launched'
  BY <1>1, <1>2, AnswerForwards
<1>4. /\ WayInv /\ ToPage /\ [Next]_vars => ToPage' \/ ~Launched'
      /\ WayInv /\ ToPage /\ <<Answer>>_vars => ~Launched'
  BY <1>1, <1>2, AnswerForwards
<1>5. /\ WayInv /\ ToFinish /\ [Next]_vars =>
           ToFinish' \/ ToIndex' \/ ~Launched'
      /\ WayInv /\ ToFinish /\ <<Answer>>_vars => ToIndex' \/ ~Launched'
  BY <1>1, <1>2, AnswerForwards
<1>6. /\ WayInv /\ ToIndex /\ [Next]_vars => ToIndex' \/ ~Launched'
      /\ WayInv /\ ToIndex /\ <<Answer>>_vars => ~Launched'
  BY <1>1, <1>2, AnswerForwards
<1>7. /\ WayInv /\ ToLogout /\ [Next]_vars => ToLogout' \/ ~Launched'
      /\ WayInv /\ ToLogout /\ <<Answer>>_vars => ~Launched'
  BY <1>1, <1>2, AnswerForwards
<1>8. WayInv /\ Launched /\ NothingStuck => ENABLED <<Answer>>_vars
  BY Ways DEF NothingStuck
<1>9. WayInv /\ Launched =>
        ToNew \/ ToRun \/ ToPage \/ ToFinish \/ ToIndex \/ ToLogout
  BY Ways
<1>10. /\ page = "list" /\ deliveryStarted => Launched \/ interrupted
       /\ ~Launched => page # "list" \/ ~deliveryStarted \/ interrupted
  BY DEF Launched
<1> QED
  BY <1>2, <1>3, <1>4, <1>5, <1>6, <1>7, <1>8, <1>9, <1>10, <1>11,
     WayInvariant, PTL
     DEF Spec, Fairness, LaunchLeaves

\* A delivery that its frame says is finished becomes finished on the server.
THEOREM SubmittedFinishesTheorem ==
  Spec /\ []NothingStuck => SubmittedFinishes
<1> SUFFICES ASSUME NEW CONSTANT e \in Execution
             PROVE  Spec /\ []NothingStuck =>
                      (nav = <<"finish", e>>
                         ~> (status[e] = FINISHED \/ interrupted))
  BY DEF SubmittedFinishes
<1>1. WayInv /\ Finishing(e) /\ Answer => (status[e] = FINISHED)'
  <2> SUFFICES ASSUME WayInv, nav = <<"finish", e>>, Answer
               PROVE  status'[e] = FINISHED
    BY DEF Finishing
  <2>1. PICK x \in Execution : AnswerFinish(x) /\ nav = <<"finish", x>>
    BY UrlsDiffer
       DEF Answer, AnswerInit, RefuseInit, AnswerIndex, AnswerLogout,
           Validate, AnswerRun, RedirectRun, Wait, AnswerFinish
  <2>2. x = e
    BY <2>1, UrlsDiffer
  <2> QED
    BY <2>1, <2>2 DEF AnswerFinish, Become, WayInv, SessionInv, SessionTypeOK
<1>2. WayInv /\ Finishing(e) /\ [Next]_vars =>
        Finishing(e)' \/ (status[e] = FINISHED)' \/ interrupted'
  BY <1>1, WayKept, UrlsDiffer, UrlMembers DEF Finishing
<1>3. Finishing(e) /\ NothingStuck => ENABLED <<Answer>>_vars
  BY UrlsDiffer, UrlMembers DEF Finishing, NothingStuck
<1>4. nav = <<"finish", e>> => Finishing(e) \/ interrupted
  BY DEF Finishing
<1> QED
  BY <1>1, <1>2, <1>3, <1>4, WayInvariant, PTL DEF Spec, Fairness

-----------------------------------------------------------------------------
\* A page that is not on full screen prompts once it is told of it.
THEOREM PromptedByEventTheorem == Spec /\ []NothingStuck => PromptedByEvent
<1> DEFINE Told == installed /\ ~fullScreen /\ changed
           Seen == dialog = "open" \/ fullScreen \/ ~installed
<1>1. FsInv /\ Told /\ [Next]_vars => Told' \/ Seen'
  <2> SUFFICES ASSUME FsInv, Told, [Next]_vars, ~Seen' PROVE changed'
    BY DEF FsInv, FsTypeOK, fullScreen
  <2>1. UNCHANGED fsVars => changed'
    BY DEF fsVars
  <2>2. ASSUME NEW evt, HandleUserInput(evt) PROVE changed'
    BY <2>2 DEF HandleUserInput
  <2>3. UserKeys \/ Click => changed'
    BY <2>2 DEF UserKeys, KeyDown, Click
  <2>4. ~Grant /\ ~LeaveElement
    BY DEF Grant, LeaveElement, ScreenTo, fullScreen
  <2>5. Deny \/ CoverScreen \/ UncoverScreen \/ DragWindow => changed'
    BY DEF Deny, CoverScreen, UncoverScreen, DragWindow, fsVars
  <2>6. ~ChangeEvent
    BY DEF ChangeEvent, OnChange, OpenDialog
  <2>7. Elapse \/ IntervalFires => changed'
    BY DEF Elapse, IntervalFires
  <2>8. ~LeaveFullScreen
    BY DEF LeaveFullScreen
  <2>9. ASSUME NEW s \in {"windowed", "window"}, NEW required \in BOOLEAN,
               StartFullScreen(s, required)
        PROVE  FALSE
    BY <2>9 DEF StartFullScreen, fullScreen
  <2> QED
    BY <2>1, <2>3, <2>4, <2>5, <2>6, <2>7, <2>8, <2>9, FsSteps
       DEF FsUser, FsTimers
<1>2. Told /\ <<Alone(ChangeEvent)>>_vars => Seen'
  BY DEF Alone, ChangeEvent, OnChange, OpenDialog
<1>3. Told /\ NothingStuck => ENABLED <<Alone(ChangeEvent)>>_vars
  BY DEF NothingStuck
<1> QED
  BY <1>1, <1>2, <1>3, InitFsInv, NextFsInv, PTL
     DEF Spec, Fairness, PromptedByEvent

-----------------------------------------------------------------------------
\* An older browser shows the page outside full screen, without the prompt.
Waiting == installed /\ ~fullScreen /\ ~isSupported /\ dialog = "closed"

\* So many steps are left until the interval fires.
Left(n) == Waiting /\ changeInterval = n

Noticed == dialog = "open" \/ fullScreen \/ ~installed

\* A step keeps the page waiting or ends the wait; unless a key is pressed,
\* the interval only runs down, and at its end the wait is over.
LEMMA WaitSteps ==
  ASSUME FsInv, Waiting, [Next]_vars
  PROVE  /\ Waiting' \/ Noticed'
         /\ \/ Noticed'
            \/ UserKeys /\ fsVars' # fsVars
            \/ changeInterval' = changeInterval
            \/ changeInterval > 1 /\ changeInterval' = changeInterval - 1
<1> DEFINE Goes ==
      /\ Waiting' \/ Noticed'
      /\ \/ Noticed'
         \/ UserKeys /\ fsVars' # fsVars
         \/ changeInterval' = changeInterval
         \/ changeInterval > 1 /\ changeInterval' = changeInterval - 1
<1>1. UNCHANGED fsVars => Goes
  BY DEF fsVars, Waiting, fullScreen, isSupported
<1>2. ASSUME UserKeys PROVE Goes
  <2>1. UNCHANGED <<browser, screen, installed>> /\ dialog' = "closed"
    BY <1>2 DEF UserKeys, KeyDown, HandleUserInput, CloseDialog
  <2>2. Waiting'
    BY <2>1 DEF Waiting, fullScreen, isSupported
  <2> QED BY <1>1, <1>2, <2>2
<1>3. ~Click /\ ~LeaveElement /\ ~UncoverScreen
  BY DEF Waiting, Click, LeaveElement, UncoverScreen, fullScreen
<1>4. Grant \/ CoverScreen => Noticed'
  BY DEF Grant, CoverScreen, ScreenTo, Noticed, fullScreen
<1>5. Deny \/ DragWindow => Goes
  BY DEF Deny, DragWindow, fsVars, Waiting, fullScreen, isSupported
<1>6. ChangeEvent => Noticed'
  BY DEF ChangeEvent, OnChange, OpenDialog, Waiting, Noticed
<1>7. Elapse => Goes
  BY DEF Elapse, Waiting, fullScreen, isSupported
<1>8. IntervalFires => Noticed'
  BY DEF IntervalFires, OnChange, OpenDialog, Waiting, Noticed
<1>9. LeaveFullScreen => Noticed'
  BY DEF LeaveFullScreen, Noticed
<1>10. ASSUME NEW s \in {"windowed", "window"}, NEW required \in BOOLEAN,
              StartFullScreen(s, required)
       PROVE  Noticed'
  BY <1>10 DEF StartFullScreen, Noticed, fullScreen
<1> QED
  BY <1>1, <1>2, <1>3, <1>4, <1>5, <1>6, <1>7, <1>8, <1>9, <1>10, FsSteps
     DEF FsUser, FsTimers

\* The interval runs for as long as the page waits.
LEMMA WaitCounts == FsInv /\ Waiting => changeInterval \in 1..Period
BY FullScreenAssumption DEF FsInv, FsTypeOK, OlderIsWatched, Waiting

\* The step that is due while so much of the interval is left, and the page
\* once it has been taken.
Ticks == Alone(Elapse \/ IntervalFires)

Ahead(n) == Noticed \/ (n > 1 /\ Left(n - 1))

\* Without keys what is left of the interval stays due until there is less.
LEMMA CountSteps ==
  ASSUME NEW n \in Nat \ {0}
  PROVE  /\ FsInv /\ Left(n) /\ [Next]_vars /\ [~UserKeys]_fsVars
              => Left(n)' \/ Ahead(n)'
         /\ Left(n) /\ <<Ticks>>_vars => Ahead(n)'
         /\ Left(n) /\ NothingStuck => ENABLED <<Ticks>>_vars
<1>1. ASSUME FsInv, Left(n), [Next]_vars, [~UserKeys]_fsVars, ~Noticed'
      PROVE  Left(n)' \/ Ahead(n)'
  <2>1. Waiting' /\ \/ changeInterval' = changeInterval
                    \/ n > 1 /\ changeInterval' = n - 1
    BY <1>1, WaitSteps DEF Left
  <2> QED BY <1>1, <2>1 DEF Left, Ahead
<1>2. ASSUME Left(n), Ticks, ~Noticed'
      PROVE  Ahead(n)'
  <2>1. ~IntervalFires
    BY <1>2 DEF IntervalFires, OnChange, OpenDialog, Left, Waiting, Noticed
  <2> QED
    BY <1>2, <2>1
       DEF Ticks, Alone, Elapse, Left, Waiting, Ahead, fullScreen, isSupported
<1>3. Left(n) /\ NothingStuck => ENABLED <<Ticks>>_vars
  BY DEF Left, NothingStuck, Ticks
<1> QED BY <1>1, <1>2, <1>3 DEF Ahead

\* From the time on at which no more keys are pressed the interval of a page
\* that waits never stalls, however long it is: whatever is left of it, there
\* will be one step less, or the wait is over.
THEOREM CountdownTheorem ==
  ASSUME NEW n \in 1..Period
  PROVE  Spec /\ []NothingStuck =>
           []([][~UserKeys]_fsVars => (Left(n) ~> Ahead(n)))
<1>1. n \in Nat \ {0}
  BY FullScreenAssumption
<1>2. FsInv /\ Left(n) /\ [Next]_vars /\ [~UserKeys]_fsVars
        => Left(n)' \/ Ahead(n)'
  BY <1>1, CountSteps
<1>3. Left(n) /\ <<Ticks>>_vars => Ahead(n)'
  BY <1>1, CountSteps
<1>4. Left(n) /\ NothingStuck => ENABLED <<Ticks>>_vars
  BY <1>1, CountSteps
<1> QED
  BY <1>2, <1>3, <1>4, InitFsInv, NextFsInv, PTL DEF Spec, Fairness, Ticks

\* Without native support a page that is not on full screen prompts, unless
\* keys are pressed again and again. The provers have no induction on a number
\* for temporal formulas: the countdown is followed for up to three steps.
THEOREM PromptedInTimeTheorem ==
  ASSUME Period \in 1..3
  PROVE  Spec /\ []NothingStuck => PromptedInTime
<1> DEFINE Calm == [][~UserKeys]_fsVars
           Due(n) == FsInv /\ Left(n) /\ [Next]_vars /\ [~UserKeys]_fsVars
<1>1. /\ 1 \in Nat \ {0} /\ 2 \in Nat \ {0} /\ 3 \in Nat \ {0}
      /\ Ahead(1) => Noticed
      /\ Ahead(2) => Noticed \/ Left(1)
      /\ Ahead(3) => Noticed \/ Left(2)
  BY DEF Ahead
<1>2. /\ Due(1) => Left(1)' \/ Ahead(1)'
      /\ Due(2) => Left(2)' \/ Ahead(2)'
      /\ Due(3) => Left(3)' \/ Ahead(3)'
  BY <1>1, CountSteps
<1>3. /\ Left(1) /\ <<Ticks>>_vars => Ahead(1)'
      /\ Left(2) /\ <<Ticks>>_vars => Ahead(2)'
      /\ Left(3) /\ <<Ticks>>_vars => Ahead(3)'
  BY <1>1, CountSteps
<1>4. (Left(1) \/ Left(2) \/ Left(3)) /\ NothingStuck => ENABLED <<Ticks>>_vars
  BY <1>1, CountSteps
<1>5. Ahead(1) => Noticed
  BY <1>1
<1>6. Ahead(2) => Noticed \/ Left(1)
  BY <1>1
<1>7. Ahead(3) => Noticed \/ Left(2)
  BY <1>1
<1>8. FsInv /\ Waiting => Left(1) \/ Left(2) \/ Left(3)
  BY WaitCounts DEF Left
<1>9. FsInv /\ Waiting /\ [Next]_vars => Waiting' \/ Noticed'
  BY WaitSteps
<1>10. installed /\ ~fullScreen /\ ~isSupported /\ FsInv => Waiting \/ Noticed
  BY DEF FsInv, FsTypeOK, Waiting, Noticed
<1>11. Spec => []FsInv
  BY InitFsInv, NextFsInv, PTL DEF Spec
<1>12. Spec /\ []NothingStuck => [](Calm => (Left(1) ~> Noticed))
  BY <1>2, <1>3, <1>4, <1>5, <1>11, PTL DEF Spec, Fairness, Ticks
<1>13. Spec /\ []NothingStuck => [](Calm => (Left(2) ~> (Noticed \/ Left(1))))
  BY <1>2, <1>3, <1>4, <1>6, <1>11, PTL DEF Spec, Fairness, Ticks
<1>14. Spec /\ []NothingStuck => [](Calm => (Left(3) ~> (Noticed \/ Left(2))))
  BY <1>2, <1>3, <1>4, <1>7, <1>11, PTL DEF Spec, Fairness, Ticks
<1>15. Spec /\ []NothingStuck => [](Calm => (Waiting ~> Noticed))
  BY <1>8, <1>11, <1>12, <1>13, <1>14, PTL
<1>16. Spec /\ []NothingStuck =>
         \/ []<><<UserKeys>>_fsVars
         \/ Waiting ~> Noticed
  BY <1>9, <1>11, <1>15, PTL DEF Spec
<1> QED BY <1>10, <1>11, <1>16, PTL DEF PromptedInTime, Noticed
=============================================================================
