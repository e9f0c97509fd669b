--------------------------- MODULE FrontEndProofs ---------------------------
(***************************************************************************)
(* Whatever the browser, the user, the frame and the proctor do, in any    *)
(* mixture of activities: the ways in which the prompt for full screen is  *)
(* lost, the launches that spend an attempt, and what brings an ended      *)
(* execution back.                                                         *)
(***************************************************************************)
EXTENDS FrontEnd, TLAPS

\* A request made while the page was not marked is its only mark.
SingleMark == ~remarked => marks <= 1

FsInv == FsTypeOK /\ OlderIsWatched /\ PromptUnmarked /\ SingleMark

-----------------------------------------------------------------------------
\* A page is loaded, in which init is called or not; a page is left.
LEMMA StartFsInv ==
  ASSUME FsInv, NEW s \in {"windowed", "window"}, NEW required \in BOOLEAN,
         StartFullScreen(s, required)
  PROVE  FsInv'
<1>1. /\ browser' = browser /\ browser \in Browsers
      /\ isSupported' = isSupported
  BY DEF FsInv, FsTypeOK, StartFullScreen, isSupported
<1>2. /\ dialog' \in {"open", "closed"} /\ marks' = 0
      /\ changeInterval' \in {0, Period}
      /\ screen' \in {"windowed", "element", "window"}
  BY DEF StartFullScreen
<1>3. /\ installed' \in BOOLEAN /\ requested' \in BOOLEAN
      /\ changed' \in BOOLEAN /\ remarked' \in BOOLEAN
  BY DEF StartFullScreen
<1>4. FsTypeOK'
  BY <1>1, <1>2, <1>3, FullScreenAssumption DEF FsTypeOK
<1>5. installed' /\ ~isSupported =>
        \/ dialog' = "open" /\ changeInterval' = 0
        \/ dialog' = "closed" /\ changeInterval' = Period
  BY DEF StartFullScreen
<1>6. OlderIsWatched'
  BY <1>1, <1>5, FullScreenAssumption DEF OlderIsWatched
<1> QED BY <1>2, <1>4, <1>6 DEF FsInv, PromptUnmarked, SingleMark

LEMMA LeaveFsInv == ASSUME FsInv, LeaveFullScreen PROVE FsInv'
<1>3. /\ browser' = browser /\ browser \in Browsers
      /\ screen' = "windowed" /\ dialog' = "closed" /\ changeInterval' = 0
      /\ marks' = 0
  BY DEF LeaveFullScreen, FsInv, FsTypeOK
<1>4. /\ installed' = FALSE /\ requested' = FALSE /\ changed' = FALSE
      /\ remarked' = FALSE
  BY DEF LeaveFullScreen
<1>5. 0 \in 0..Period /\ 0 \in 0..MaxMarks
  BY FullScreenAssumption
<1>1. FsTypeOK'
  BY <1>3, <1>4, <1>5 DEF FsTypeOK
<1>2. ~installed' /\ marks' = 0
  BY <1>3, <1>4
<1> QED BY <1>1, <1>2 DEF FsInv, OlderIsWatched, PromptUnmarked, SingleMark

\* The user's input on the prompt.
LEMMA InputFsInv ==
  ASSUME FsInv, NEW evt, installed, HandleUserInput(evt)
  PROVE  FsInv'
<1>1. /\ browser' = browser /\ screen' = screen /\ installed' = installed
      /\ changed' = changed
  BY DEF HandleUserInput
<1>2. /\ dialog' = "closed"
      /\ changeInterval' \in {changeInterval, Period}
      /\ isSupported => changeInterval' = changeInterval
      /\ ~isSupported => \/ changeInterval' = Period
                         \/ dialog = "closed" /\ changeInterval' = changeInterval
  BY DEF HandleUserInput, CloseDialog, OnClosed, AwaitFsChange
<1>3. \/ /\ marks < MaxMarks /\ requested' = TRUE /\ marks' = marks + 1
         /\ remarked' = (remarked \/ marks > 0)
      \/ UNCHANGED <<requested, marks, remarked>>
  BY DEF HandleUserInput, RequestFullscreen
<1>4. isSupported' = isSupported
  BY <1>1 DEF isSupported
<1>8. requested' \in BOOLEAN /\ remarked' \in BOOLEAN
  BY <1>3 DEF FsInv, FsTypeOK
<1>9. marks' \in 0..MaxMarks /\ changeInterval' \in 0..Period
  BY <1>2, <1>3, FullScreenAssumption DEF FsInv, FsTypeOK
<1>5. FsTypeOK'
  BY <1>1, <1>2, <1>8, <1>9 DEF FsInv, FsTypeOK
<1>6. OlderIsWatched'
  BY <1>1, <1>2, <1>4, FullScreenAssumption
     DEF FsInv, FsTypeOK, OlderIsWatched
<1>7. PromptUnmarked'
  BY <1>2 DEF PromptUnmarked
<1>10. marks \in Nat
  BY DEF FsInv, FsTypeOK
<1>13. SingleMark'
  <2>1. CASE UNCHANGED <<requested, marks, remarked>>
    BY <2>1 DEF FsInv, SingleMark
  <2>2. CASE marks' = marks + 1 /\ remarked' = (remarked \/ marks > 0)
    <3>1. marks > 0 => remarked'
      BY <2>2, Zenon
    <3>2. ~(marks > 0) => marks' <= 1
      BY <2>2, <1>10
    <3> QED BY <3>1, <3>2 DEF SingleMark
  <2> QED BY <1>3, <2>1, <2>2
<1> QED BY <1>5, <1>6, <1>7, <1>13 DEF FsInv

\* The window changes, and the browser may tell the page.
LEMMA ScreenFsInv ==
  ASSUME FsInv, NEW s \in {"windowed", "element", "window"}, ScreenTo(s),
         requested' \in BOOLEAN, changed' \in BOOLEAN
  PROVE  FsInv'
BY DEF FsInv, FsTypeOK, OlderIsWatched, PromptUnmarked, SingleMark, ScreenTo,
       isSupported

LEMMA ChangeFsInv ==
  ASSUME FsInv,
         OnChange \/ (fullScreen /\ changeInterval > 0
                      /\ changeInterval' = Period /\ UNCHANGED <<dialog, marks>>),
         UNCHANGED <<browser, screen, installed, requested, remarked>>,
         changed' \in BOOLEAN
  PROVE  FsInv'
<1>1. \/ UNCHANGED <<dialog, changeInterval, marks>>
      \/ /\ dialog' = "open" /\ changeInterval' = 0
         /\ marks' = IF marks > 0 THEN marks - 1 ELSE 0
      \/ changeInterval > 0 /\ changeInterval' = Period /\ UNCHANGED <<dialog, marks>>
  BY DEF OnChange, OpenDialog
<1>2. isSupported' = isSupported
  BY DEF isSupported
<1>3. FsTypeOK'
  BY <1>1, FullScreenAssumption DEF FsInv, FsTypeOK
<1>4. OlderIsWatched'
  BY <1>1, <1>2, FullScreenAssumption DEF FsInv, FsTypeOK, OlderIsWatched
<1>5. PromptUnmarked' /\ SingleMark'
  BY <1>1 DEF FsInv, FsTypeOK, PromptUnmarked, SingleMark
<1> QED BY <1>3, <1>4, <1>5 DEF FsInv

\* Whatever the user and the browser do to the page.
LEMMA FsStepInv ==
  ASSUME FsInv, FsUser \/ FsTimers PROVE FsInv'
<1>1. CASE UserKeys
  BY <1>1, InputFsInv DEF UserKeys, KeyDown
<1>2. CASE Click
  BY <1>2, InputFsInv DEF Click
<1>3. CASE Grant
  <2>1. ScreenTo("element") /\ requested' \in BOOLEAN /\ changed' \in BOOLEAN
    BY <1>3 DEF Grant, Fire
  <2> QED BY <2>1, ScreenFsInv
<1>4. CASE Deny
  BY <1>4 DEF Deny, FsInv, FsTypeOK, OlderIsWatched, PromptUnmarked,
       SingleMark, isSupported
<1>5. CASE LeaveElement
  <2>1. PICK s \in {"windowed", "window"} : ScreenTo(s)
    BY <1>5 DEF LeaveElement
  <2>2. requested' \in BOOLEAN /\ changed' \in BOOLEAN
    BY <1>5 DEF LeaveElement, Fire, FsInv, FsTypeOK
  <2> QED BY <2>1, <2>2, ScreenFsInv
<1>6. CASE CoverScreen \/ UncoverScreen
  <2>1. PICK s \in {"windowed", "window"} : ScreenTo(s)
    BY <1>6 DEF CoverScreen, UncoverScreen
  <2>2. requested' \in BOOLEAN /\ changed' \in BOOLEAN
    BY <1>6 DEF CoverScreen, UncoverScreen, FsInv, FsTypeOK
  <2> QED BY <2>1, <2>2, ScreenFsInv
<1>7. CASE DragWindow
  BY <1>7 DEF DragWindow, fsVars, FsInv, FsTypeOK, OlderIsWatched,
       PromptUnmarked, SingleMark, isSupported
<1>8. CASE ChangeEvent
  BY <1>8, ChangeFsInv DEF ChangeEvent
<1>9. CASE Elapse
  <2>3. /\ changeInterval \in 0..Period /\ changeInterval > 1
        /\ changeInterval' = changeInterval - 1
    BY <1>9 DEF Elapse, FsInv, FsTypeOK
  <2>1. /\ changeInterval' \in 0..Period
        /\ changeInterval' > 0 <=> changeInterval > 0
    BY <2>3, FullScreenAssumption
  <2>2. UNCHANGED <<browser, screen, installed, dialog, requested, changed,
                    marks, remarked>>
    BY <1>9 DEF Elapse
  <2> QED
    BY <2>1, <2>2 DEF FsInv, FsTypeOK, OlderIsWatched, PromptUnmarked,
       SingleMark, isSupported
<1>10. CASE IntervalFires
  BY <1>10, ChangeFsInv DEF IntervalFires, FsInv, FsTypeOK
<1> QED
  BY <1>1, <1>2, <1>3, <1>4, <1>5, <1>6, <1>7, <1>8, <1>9, <1>10
     DEF FsUser, FsTimers

\* A step does one of these to the page's full screen.
LEMMA FsSteps ==
  ASSUME [Next]_vars
  PROVE  \/ FsUser \/ FsTimers
         \/ \E s \in {"windowed", "window"}, required \in BOOLEAN :
              StartFullScreen(s, required)
         \/ LeaveFullScreen
         \/ UNCHANGED fsVars
<1>1. CASE Launch \/ LateAnswer \/ Drop \/ Roam \/ Proctor \/ UNCHANGED vars
  BY <1>1 DEF Launch, LateAnswer, ValidateLost, AnswerLost, Drop, Roam, Proctor, vars
<1>2. CASE Back
  BY <1>2 DEF Back, LeavePlayer
<1>3. CASE Play
  BY <1>3 DEF Play, UseScreen, UseFrame, Loading, Unloading, LeaveFrame,
     FinishTest, ExitTest, Forbidden, Timers, Resizing, StopBar
<1>4. CASE Answer
  <2>1. CASE AnswerInit \/ RefuseInit
    BY <2>1 DEF AnswerInit, RefuseInit
  <2>2. CASE AnswerIndex \/ AnswerLogout
    BY <2>2 DEF AnswerIndex, AnswerLogout, LeavePlayer
  <2>3. ASSUME NEW e \in Execution, AnswerRun(e)
        PROVE  \E s \in {"windowed", "window"}, required \in BOOLEAN :
                 StartFullScreen(s, required)
    BY <2>3, FrontEndAssumption DEF AnswerRun, StartPlayer
  <2>4. ASSUME NEW e \in Execution,
               Validate(e) \/ RedirectRun(e) \/ Wait(e) \/ AnswerFinish(e)
        PROVE  LeaveFullScreen \/ UNCHANGED fsVars
    BY <2>4 DEF Validate, RedirectRun, Wait, AnswerFinish, LeavePlayer
  <2> QED BY <1>4, <2>1, <2>2, <2>3, <2>4 DEF Answer
<1> QED BY <1>1, <1>2, <1>3, <1>4 DEF Next

LEMMA InitFsInv == Init => FsInv
<1> SUFFICES ASSUME Init PROVE FsInv
  OBVIOUS
<1>1. /\ browser \in Browsers /\ screen = "windowed" /\ installed = FALSE
      /\ dialog = "closed" /\ changeInterval = 0 /\ requested = FALSE
      /\ changed = FALSE /\ marks = 0 /\ remarked = FALSE
  BY DEF Init, PlayerInit, FsInit, FsIdle
<1>2. 0 \in 0..Period /\ 0 \in 0..MaxMarks
  BY FullScreenAssumption
<1>3. FsTypeOK
  BY <1>1, <1>2 DEF FsTypeOK
<1> QED
  BY <1>1, <1>3 DEF FsInv, OlderIsWatched, PromptUnmarked, SingleMark

LEMMA NextFsInv == FsInv /\ [Next]_vars => FsInv'
<1> SUFFICES ASSUME FsInv, [Next]_vars PROVE FsInv'
  OBVIOUS
<1>1. UNCHANGED fsVars => FsInv'
  BY DEF fsVars, FsInv, FsTypeOK, OlderIsWatched, PromptUnmarked, SingleMark,
     isSupported
<1> QED BY <1>1, FsSteps, FsStepInv, StartFsInv, LeaveFsInv

\* Without native support the page is looked at exactly while it does not
\* prompt: awaitFsChange and the listeners of opened.modal and closed.modal.
THEOREM OlderIsWatchedTheorem == Spec => []OlderIsWatched
<1>1. FsInv => OlderIsWatched
  BY DEF FsInv
<1> QED BY <1>1, InitFsInv, NextFsInv, PTL DEF Spec

\* A page under the prompt does not have the class name of a page on full
\* screen, of which the handler of the change event removes one at a time,
\* unless a request was made while it had it.
THEOREM PromptUnmarkedTheorem == Spec => []PromptUnmarked
<1>1. FsInv => PromptUnmarked
  BY DEF FsInv
<1> QED BY <1>1, InitFsInv, NextFsInv, PTL DEF Spec

\* What may leave a page unwatched.
LEMMA LapseStep ==
  ASSUME FsInv, Watched, ~Watched', [Next]_vars
  PROVE  Deny \/ UncoverScreen \/ (browser = "mute" /\ LeaveElement)
<1>1. FsInv'
  BY NextFsInv
<1>2. isSupported'
  BY <1>1 DEF FsInv, FsTypeOK, OlderIsWatched, Watched
<1>3. browser \in AllBrowsers
  BY FullScreenAssumption DEF FsInv, FsTypeOK
<1>4. CASE UNCHANGED fsVars
  BY <1>4 DEF fsVars, Watched, fullScreen
<1>5. CASE LeaveFullScreen
  BY <1>5 DEF LeaveFullScreen, Watched
<1>6. CASE \E s \in {"windowed", "window"}, required \in BOOLEAN :
             StartFullScreen(s, required)
  BY <1>6 DEF StartFullScreen, Watched, fullScreen
<1>7. CASE UserKeys \/ Click
  <2>1. PICK evt \in {"enter", "other", "click"} : HandleUserInput(evt)
    BY <1>7 DEF UserKeys, KeyDown, Click
  <2>2. isSupported
    BY <1>2, <2>1 DEF HandleUserInput, isSupported
  <2>3. requested' = TRUE
    BY <2>1, <2>2 DEF HandleUserInput, RequestFullscreen
  <2> QED BY <2>3 DEF Watched
<1>8. CASE Grant \/ CoverScreen
  BY <1>8 DEF Grant, CoverScreen, ScreenTo, Watched, fullScreen
<1>9. CASE LeaveElement
  <2>1. browser # "legacy"
    BY <1>2, <1>9 DEF LeaveElement, ScreenTo, isSupported
  <2>2. browser = "native" => changed'
    BY <1>9 DEF LeaveElement, Fire
  <2> QED BY <1>3, <1>9, <2>1, <2>2 DEF AllBrowsers, Watched
<1>10. CASE DragWindow
  BY <1>10 DEF DragWindow, fsVars, Watched, fullScreen
<1>11. CASE ChangeEvent
  BY <1>11 DEF ChangeEvent, OnChange, OpenDialog, Watched, fullScreen
<1>12. CASE Elapse
  <2>1. changeInterval' > 0
    BY <1>12 DEF Elapse, FsInv, FsTypeOK
  <2> QED BY <2>1 DEF Watched
<1>13. CASE IntervalFires
  BY <1>13 DEF IntervalFires, OnChange, OpenDialog, Watched, fullScreen
<1> QED
  BY FsSteps, <1>4, <1>5, <1>6, <1>7, <1>8, <1>9, <1>10, <1>11, <1>12, <1>13
     DEF FsUser, FsTimers

\* The three ways in which the prompt for full screen is lost are the only
\* ones.
THEOREM PromptLapsesOnly == Spec => PromptLapses
<1>1. FsInv /\ FsInv' /\ [Next]_vars =>
        [Watched /\ ~Watched' =>
           /\ isSupported
           /\ \/ Deny \/ UncoverScreen
              \/ browser = "mute" /\ LeaveElement]_vars
  <2> SUFFICES ASSUME FsInv, FsInv', [Next]_vars, Watched, ~Watched'
               PROVE  /\ isSupported
                      /\ \/ Deny \/ UncoverScreen
                         \/ browser = "mute" /\ LeaveElement
    OBVIOUS
  <2>1. Deny \/ UncoverScreen \/ (browser = "mute" /\ LeaveElement)
    BY LapseStep
  <2>2. browser' = browser
    BY <2>1 DEF Deny, UncoverScreen, LeaveElement, ScreenTo
  <2>3. isSupported'
    BY DEF FsInv, FsTypeOK, OlderIsWatched, Watched
  <2> QED BY <2>1, <2>2, <2>3 DEF isSupported
<1> QED BY <1>1, InitFsInv, NextFsInv, PTL DEF Spec, PromptLapses

-----------------------------------------------------------------------------
\* While the frame loads in earnest, no timer can hide the bar.
BarInv ==
  /\ stops \in 0..MaxStops
  /\ frameLoads \in BOOLEAN /\ bar \in BOOLEAN /\ overlapped \in BOOLEAN
  /\ frameLoads /\ ~overlapped => bar /\ stops = 0

\* What a step does to the loading bar.
LEMMA BarSteps ==
  ASSUME [Next]_vars
  PROVE  Loading \/ Unloading \/ StopBar \/ ResetBar \/ UNCHANGED barVars
<1>1. CASE Launch \/ LateAnswer \/ Drop \/ Roam \/ Proctor \/ UNCHANGED vars
  BY <1>1 DEF Launch, LateAnswer, ValidateLost, AnswerLost, Drop, Roam, Proctor,
              vars, playerVars
<1>2. CASE Back
  BY <1>2 DEF Back, LeavePlayer
<1>3. CASE Play
  BY <1>3 DEF Play, UseScreen, UseFrame, LeaveFrame, FinishTest, ExitTest,
     Forbidden, Timers, playerVars
<1>4. CASE Answer
  BY <1>4 DEF Answer, AnswerInit, RefuseInit, AnswerIndex, AnswerLogout,
     Validate, AnswerRun, RedirectRun, Wait, AnswerFinish, StartPlayer, LeavePlayer,
     playerVars
<1> QED BY <1>1, <1>2, <1>3, <1>4 DEF Next

LEMMA NextBarInv == BarInv /\ [Next]_vars => BarInv'
<1> SUFFICES ASSUME BarInv, [Next]_vars PROVE BarInv'
  OBVIOUS
<1>1. CASE Loading
  <2>1. /\ frameLoads' = TRUE /\ bar' = TRUE /\ stops' = stops
        /\ overlapped' = (stops > 0)
    BY <1>1 DEF Loading
  <2>2. overlapped' \in BOOLEAN /\ stops \in 0..MaxStops
    BY <2>1 DEF BarInv
  <2>3. stops > 0 => overlapped'
    BY <2>1, Zenon
  <2>4. ~overlapped' => stops' = 0
    BY <2>1, <2>2, <2>3, MaxStopsAssumption
  <2> QED BY <2>1, <2>2, <2>4 DEF BarInv
<1>2. CASE Unloading
  <2>1. /\ frameLoads' = FALSE /\ stops' = stops + 1 /\ stops < MaxStops
        /\ bar' = bar /\ overlapped' = overlapped
    BY <1>2 DEF Unloading
  <2>2. stops' \in 0..MaxStops
    BY <2>1, MaxStopsAssumption DEF BarInv
  <2> QED BY <2>1, <2>2 DEF BarInv
<1>3. CASE StopBar
  <2>1. /\ stops > 0 /\ stops' = stops - 1 /\ bar' = FALSE
        /\ frameLoads' = frameLoads /\ overlapped' = overlapped
    BY <1>3 DEF StopBar
  <2>2. stops' \in 0..MaxStops
    BY <2>1, MaxStopsAssumption DEF BarInv
  <2>3. ~(frameLoads /\ ~overlapped)
    BY <2>1 DEF BarInv
  <2> QED BY <2>1, <2>2, <2>3 DEF BarInv
<1>4. CASE ResetBar
  <2>1. /\ frameLoads' = FALSE /\ bar' = FALSE /\ stops' = 0
        /\ overlapped' = FALSE
    BY <1>4 DEF ResetBar
  <2>2. 0 \in 0..MaxStops
    BY MaxStopsAssumption
  <2> QED BY <2>1, <2>2 DEF BarInv
<1>5. CASE UNCHANGED barVars
  BY <1>5 DEF barVars, BarInv
<1> QED BY BarSteps, <1>1, <1>2, <1>3, <1>4, <1>5

\* The loading bar is shown while the frame loads, but for the overlap the
\* property names.
THEOREM LoadingInvariant == Spec => []LoadingShown
<1>1. Init => BarInv
  <2>1. 0 \in 0..MaxStops
    BY MaxStopsAssumption
  <2> QED BY <2>1 DEF Init, PlayerInit, BarInv
<1>2. BarInv => LoadingShown
  BY DEF BarInv, LoadingShown
<1> QED BY <1>1, <1>2, NextBarInv, PTL DEF Spec

-----------------------------------------------------------------------------
sessionVars == <<browserVars, shown, launchVars, serverVars>>

SessionTypeOK ==
  /\ page \in Page /\ nav \in Url \cup {NoUrl}
  /\ lost \in Changing \cup {NoUrl} /\ interrupted \in BOOLEAN
  /\ shown \in Execution \cup {NoExecution}
  /\ LaunchTypeOK
  /\ status \in [Execution -> State \cup {UNBORN}]
  /\ activity \in Activities

\* A page on its way to a new execution is a list that launches nothing else.
LaunchGuarded == nav = <<"init">> => page = "list" /\ deliveryStarted

LostLaunch == lost = <<"init">> => interrupted

\* An execution that is shown, that a checked request is about to run, or that
\* is asked to be finished, exists.
ShownExists ==
  /\ playing => shown \in Execution
  /\ \A e \in Execution :
       \/ {nav, lost} \cap {<<"resume", e>>, <<"finish", e>>} # {}
       \/ shown = e
       => status[e] \in State

SessionInv == SessionTypeOK /\ LaunchGuarded /\ LostLaunch /\ ShownExists

\* Addresses of different kinds differ.
LEMMA UrlsDiffer ==
  /\ <<"init">> # <<"index">> /\ <<"init">> # <<"logout">>
  /\ NoUrl \notin Url
  /\ \A e \in Execution :
       /\ <<"finish", e>> # <<"init">> /\ <<"run", e>> # <<"init">>
       /\ <<"finish", e>> # <<"index">> /\ <<"finish", e>> # <<"logout">>
       /\ <<"resume", e>> # <<"init">> /\ <<"resume", e>> # <<"index">>
       /\ <<"resume", e>> # <<"logout">>
       /\ \A x \in Execution : <<"finish", e>> # <<"run", x>>
       /\ \A x \in Execution : <<"resume", e>> # <<"run", x>>
       /\ \A x \in Execution : <<"resume", e>> # <<"finish", x>>
       /\ \A x \in Execution : <<"resume", e>> = <<"resume", x>> => e = x
       /\ \A x \in Execution : <<"finish", e>> = <<"finish", x>> => e = x
       /\ \A x \in Execution : <<"run", e>> = <<"run", x>> => e = x
BY DEF NoUrl, Url, Changing

LEMMA UrlMembers ==
  /\ <<"init">> \in Changing /\ <<"index">> \in Url /\ <<"logout">> \in Url
  /\ \A e \in Execution :
       /\ <<"run", e>> \in Changing /\ <<"finish", e>> \in Changing
       /\ <<"resume", e>> \in Changing
  /\ Changing \subseteq Url
BY DEF Url, Changing

LEMMA ForgetEffect ==
  ASSUME Forget
  PROVE  lost' = lost \/ (lost' = nav /\ nav \in Changing)
BY DEF Forget

\* The tab is sent elsewhere, by the frame or by the user.
LEMMA DivertSession ==
  ASSUME SessionInv, NEW url, Divert(url),
         url \in Url \cup {NoUrl}, url # <<"init">>,
         \A e \in Execution : url = <<"finish", e>> => shown = e,
         \A e \in Execution : url # <<"resume", e>>,
         UNCHANGED <<page, shown, launchVars, serverVars>>
  PROVE  SessionInv'
<1>1. /\ nav' = url /\ interrupted' = (interrupted \/ nav # NoUrl)
      /\ lost' = lost \/ (lost' = nav /\ nav \in Changing)
  BY ForgetEffect DEF Divert, GoTo
<1>2. nav # NoUrl \/ lost' = lost
  BY <1>1, UrlsDiffer, UrlMembers
<1>3. SessionTypeOK'
  <2>1. nav' \in Url \cup {NoUrl} /\ lost' \in Changing \cup {NoUrl}
    BY <1>1 DEF SessionInv, SessionTypeOK
  <2>2. interrupted' \in BOOLEAN
    BY <1>1 DEF SessionInv, SessionTypeOK
  <2> QED
    BY <2>1, <2>2 DEF SessionInv, SessionTypeOK, LaunchTypeOK, launchVars,
       serverVars
<1>4. LaunchGuarded'
  BY <1>1 DEF LaunchGuarded
<1>5. LostLaunch'
  <2>1. CASE lost' = lost
    BY <1>1, <2>1 DEF SessionInv, LostLaunch
  <2>2. CASE nav # NoUrl
    BY <1>1, <2>2 DEF LostLaunch
  <2> QED BY <1>2, <2>1, <2>2
<1>6. ShownExists'
  BY <1>1 DEF SessionInv, ShownExists, serverVars, playing
<1> QED BY <1>3, <1>4, <1>5, <1>6 DEF SessionInv

\* An entry point is launched: the tab was not on its way to a new execution.
LEMMA LaunchSession ==
  ASSUME SessionInv, Launch PROVE SessionInv'
<1>1. PICK entry \in offered : Launches(entry)
  BY DEF Launch, ClickEntry, KeyUpEntry
<1>2. /\ page = "list" /\ ~deliveryStarted
      /\ UNCHANGED <<page, interrupted, offered, shown, serverVars>>
  BY <1>1 DEF Launch, Launches, LaunchDelivery, playerVars
<1>3. entry \in Entry /\ entry # Disabled
  BY <1>1 DEF Launches, LaunchDelivery, SessionInv, SessionTypeOK, LaunchTypeOK
<1>4. nav # <<"init">>
  BY <1>2 DEF SessionInv, LaunchGuarded
<1>5. CASE entry = Blank
  <2>1. UNCHANGED <<deliveryStarted, nav, lost>>
    BY <1>1, <1>5 DEF Launches, LaunchDelivery, RunDelivery
  <2> QED
    BY <1>2, <2>1 DEF SessionInv, SessionTypeOK, LaunchTypeOK, LaunchGuarded,
       LostLaunch, ShownExists, serverVars, playing
<1>6. CASE entry # Blank
  <2>1. /\ deliveryStarted' = TRUE /\ nav' = entry
        /\ lost' = lost \/ (lost' = nav /\ nav \in Changing)
    BY <1>1, <1>6, ForgetEffect
       DEF Launches, LaunchDelivery, RunDelivery, GoTo
  <2>2. entry = <<"init">> \/ \E e \in Execution : entry = <<"run", e>>
    BY <1>3, <1>6 DEF Entry
  <2>3. /\ entry \in Url
        /\ \A e \in Execution : entry \notin {<<"resume", e>>, <<"finish", e>>}
    BY <2>2, UrlMembers, UrlsDiffer
  <2>4. SessionTypeOK'
    BY <1>2, <2>1, <2>3
       DEF SessionInv, SessionTypeOK, LaunchTypeOK, serverVars
  <2>5. LaunchGuarded'
    BY <1>2, <2>1 DEF LaunchGuarded
  <2>6. LostLaunch'
    BY <1>2, <1>4, <2>1 DEF SessionInv, LostLaunch
  <2>7. ShownExists'
    BY <1>2, <2>1, <2>3 DEF SessionInv, ShownExists, serverVars, playing
  <2> QED BY <2>4, <2>5, <2>6, <2>7 DEF SessionInv
<1> QED BY <1>5, <1>6

\* Executions come into being and change, and stay.
Kept ==
  /\ activity' = activity
  /\ status' \in [Execution -> State \cup {UNBORN}]
  /\ \A e \in Execution : status[e] \in State => status'[e] \in State

LEMMA BecomeKept ==
  ASSUME SessionTypeOK, NEW e \in Execution, NEW s \in State, Become(e, s)
  PROVE  /\ Kept /\ status'[e] = s
         /\ \A x \in Execution : x # e => status'[x] = status[x]
BY DEF Become, Kept, SessionTypeOK

LEMMA StatesDiffer ==
  /\ ACTIVE \in State /\ PAUSED \in State /\ FINISHED \in State
  /\ TERMINATED \in State /\ InitialStatus = ACTIVE /\ UNBORN \notin State
  /\ ResumableStates = {ACTIVE, PAUSED}
BY DEF State, ACTIVE, PAUSED, FINISHED, TERMINATED, InitialStatus, UNBORN,
   ResumableStates

LEMMA SameKept ==
  ASSUME SessionTypeOK, UNCHANGED serverVars PROVE Kept
BY DEF SessionTypeOK, Kept, serverVars

\* Where the server's answer leads to.
LEMMA ArriveSession ==
  ASSUME SessionInv, NEW p \in Page, page' = p, nav' = NoUrl, lost' = lost,
         interrupted' \in BOOLEAN, lost = <<"init">> => interrupted',
         LaunchTypeOK', Kept,
         p = "player" => shown' \in Execution,
         shown' \in Execution => status'[shown'] \in State,
         shown' \in Execution \cup {NoExecution}
  PROVE  SessionInv'
<1>1. SessionTypeOK'
  BY DEF SessionInv, SessionTypeOK, Kept
<1>2. LaunchGuarded'
  BY UrlsDiffer, UrlMembers DEF LaunchGuarded
<1>3. LostLaunch'
  BY DEF LostLaunch
<1>4. ShownExists'
  <2>1. \A e \in Execution : nav' \notin {<<"resume", e>>, <<"finish", e>>}
    BY UrlsDiffer, UrlMembers
  <2> QED BY <2>1 DEF SessionInv, ShownExists, Kept, playing
<1> QED BY <1>1, <1>2, <1>3, <1>4 DEF SessionInv

\* The answer is a redirection; the page stays until it is followed.
LEMMA RedirectSession ==
  ASSUME SessionInv, Kept, NEW url \in Url, nav' = url, url # <<"init">>,
         \A e \in Execution : url # <<"finish", e>>,
         \A e \in Execution : url = <<"resume", e>> => status[e] \in State,
         UNCHANGED <<page, lost, interrupted, shown, launchVars>>
  PROVE  SessionInv'
<1>1. SessionTypeOK'
  BY DEF SessionInv, SessionTypeOK, LaunchTypeOK, launchVars, Kept
<1>2. LaunchGuarded' /\ LostLaunch'
  BY DEF SessionInv, LaunchGuarded, LostLaunch
<1>3. ShownExists'
  BY DEF SessionInv, ShownExists, Kept, playing
<1> QED BY <1>1, <1>2, <1>3 DEF SessionInv

LEMMA AnswerSession == ASSUME SessionInv, Answer PROVE SessionInv'
<1>0. SessionTypeOK
  BY DEF SessionInv
<1>1. CASE AnswerInit
  <2>1. PICK e \in Execution :
          status[e] = UNBORN /\ Become(e, InitialStatus) /\ nav' = <<"run", e>>
    BY <1>1 DEF AnswerInit
  <2>2. Kept
    BY <1>0, <2>1, BecomeKept, StatesDiffer
  <2>3. UNCHANGED <<page, lost, interrupted, shown, launchVars>>
    BY <1>1 DEF AnswerInit, playerVars
  <2> QED BY <2>1, <2>2, <2>3, RedirectSession, UrlMembers, UrlsDiffer
<1>2. CASE RefuseInit
  <2>1. /\ page' = "out" /\ nav' = NoUrl /\ Kept
        /\ UNCHANGED <<lost, interrupted, shown, launchVars>>
        /\ nav = <<"init">>
    BY <1>0, <1>2, SameKept DEF RefuseInit, Arrive, playerVars
  <2>2. shown \in Execution => status'[shown] \in State
    BY <2>1 DEF SessionInv, ShownExists, Kept
  <2>3. LaunchTypeOK' /\ shown' \in Execution \cup {NoExecution}
    BY <1>0, <2>1 DEF SessionTypeOK, LaunchTypeOK, launchVars
  <2>4. interrupted' \in BOOLEAN /\ (lost = <<"init">> => interrupted')
    BY <1>0, <2>1 DEF SessionTypeOK, SessionInv, LostLaunch
  <2> QED BY <2>1, <2>2, <2>3, <2>4, ArriveSession DEF Page
<1>3. CASE AnswerIndex
  <2>1. /\ page' = "list" /\ nav' = NoUrl /\ Kept /\ lost' = lost
        /\ shown' = NoExecution
        /\ interrupted' = (interrupted /\ lost # NoUrl)
    BY <1>0, <1>3, SameKept DEF AnswerIndex, LeavePlayer
  <2>2. interrupted' \in BOOLEAN /\ (lost = <<"init">> => interrupted')
    BY <1>0, <2>1, UrlsDiffer, UrlMembers
       DEF SessionTypeOK, SessionInv, LostLaunch
  <2>3. Offers \subseteq Entry
    BY DEF Offers, Entry
  <2>4. LaunchTypeOK'
    BY <1>3, <2>3 DEF AnswerIndex, StartList, LaunchTypeOK
  <2> QED
    BY <2>1, <2>2, <2>4, ArriveSession, NoExecutionAssumption DEF Page
<1>4. CASE AnswerLogout
  <2>1. /\ page' = "out" /\ nav' = NoUrl /\ Kept /\ shown' = NoExecution
        /\ UNCHANGED <<lost, interrupted, launchVars>>
    BY <1>0, <1>4, SameKept DEF AnswerLogout, Arrive, LeavePlayer
  <2>2. LaunchTypeOK'
    BY <1>0, <2>1 DEF SessionTypeOK, LaunchTypeOK, launchVars
  <2>3. interrupted' \in BOOLEAN /\ (lost = <<"init">> => interrupted')
    BY <1>0, <2>1 DEF SessionTypeOK, SessionInv, LostLaunch
  <2> QED
    BY <2>1, <2>2, <2>3, ArriveSession, NoExecutionAssumption DEF Page
<1>5. ASSUME NEW e \in Execution, AnswerRun(e) PROVE SessionInv'
  <2>1. /\ page' = "player" /\ nav' = NoUrl /\ shown' = e
        /\ Become(e, ACTIVE)
        /\ UNCHANGED <<lost, interrupted, launchVars>>
    BY <1>5 DEF AnswerRun, Arrive, StartPlayer
  <2>2. Kept /\ status'[e] \in State
    BY <1>0, <2>1, BecomeKept, StatesDiffer
  <2>3. LaunchTypeOK'
    BY <1>0, <2>1 DEF SessionTypeOK, LaunchTypeOK, launchVars
  <2>4. interrupted' \in BOOLEAN /\ (lost = <<"init">> => interrupted')
    BY <1>0, <2>1 DEF SessionTypeOK, SessionInv, LostLaunch
  <2> QED BY <2>1, <2>2, <2>3, <2>4, ArriveSession DEF Page
<1>6. ASSUME NEW e \in Execution, RedirectRun(e) PROVE SessionInv'
  <2>1. /\ nav' = <<"index">> /\ Kept
        /\ UNCHANGED <<page, lost, interrupted, shown, launchVars>>
    BY <1>0, <1>6, SameKept DEF RedirectRun, playerVars
  <2> QED BY <2>1, RedirectSession, UrlMembers, UrlsDiffer
<1>7. ASSUME NEW e \in Execution, Wait(e) PROVE SessionInv'
  <2>1. /\ page' = "list" /\ nav' = NoUrl /\ Kept /\ shown' = NoExecution
        /\ UNCHANGED <<lost, interrupted>>
    BY <1>0, <1>7, SameKept DEF Wait, Arrive, LeavePlayer
  <2>2. LaunchTypeOK'
    BY <1>7 DEF Wait, StartList, LaunchTypeOK, Entry
  <2>3. interrupted' \in BOOLEAN /\ (lost = <<"init">> => interrupted')
    BY <1>0, <2>1 DEF SessionTypeOK, SessionInv, LostLaunch
  <2> QED
    BY <2>1, <2>2, <2>3, ArriveSession, NoExecutionAssumption DEF Page
<1>8. ASSUME NEW e \in Execution, AnswerFinish(e) PROVE SessionInv'
  <2>1. /\ nav' = <<"index">> /\ Become(e, FINISHED)
        /\ UNCHANGED <<page, lost, interrupted, shown, launchVars>>
    BY <1>8 DEF AnswerFinish, playerVars
  <2>2. Kept
    BY <1>0, <2>1, BecomeKept, StatesDiffer
  <2> QED BY <2>1, <2>2, RedirectSession, UrlMembers, UrlsDiffer
<1>9. ASSUME NEW e \in Execution, Validate(e) PROVE SessionInv'
  <2>1. /\ nav' = <<"resume", e>> /\ Kept /\ status[e] \in State
        /\ UNCHANGED <<page, lost, interrupted, shown, launchVars>>
    BY <1>0, <1>9, SameKept, StatesDiffer DEF Validate, playerVars
  <2> QED BY <2>1, RedirectSession, UrlMembers, UrlsDiffer
<1> QED BY <1>1, <1>2, <1>3, <1>4, <1>5, <1>6, <1>7, <1>8, <1>9 DEF Answer

\* The steps that do not answer and do not launch.
LEMMA OtherSession ==
  ASSUME SessionInv, Play \/ LateAnswer \/ Drop \/ Roam \/ Back \/ Proctor
                     \/ UNCHANGED vars
  PROVE  SessionInv'
<1>0. SessionTypeOK
  BY DEF SessionInv
<1>a. UNCHANGED sessionVars => SessionInv'
  BY DEF sessionVars, browserVars, launchVars, serverVars, SessionInv,
     SessionTypeOK, LaunchTypeOK, LaunchGuarded, LostLaunch, ShownExists,
     playing
<1>1. CASE UNCHANGED vars
  BY <1>1, <1>a DEF vars, sessionVars, playerVars
<1>2. CASE Play
  <2>1. CASE LeaveFrame
    <3>1. UNCHANGED <<page, shown, launchVars, serverVars>> /\ playing
      BY <1>2, <2>1 DEF Play, LeaveFrame, FinishTest, ExitTest, Forbidden,
         playerVars
    <3>2. shown \in Execution
      BY <3>1 DEF SessionInv, ShownExists
    <3>3. CASE FinishTest
      <4>1. Divert(<<"finish", shown>>)
        BY <3>3 DEF FinishTest
      <4> QED BY <3>1, <3>2, <4>1, DivertSession, UrlsDiffer, UrlMembers
    <3>4. CASE ExitTest
      <4>1. Divert(<<"index">>)
        BY <3>4 DEF ExitTest
      <4> QED BY <3>1, <4>1, DivertSession, UrlsDiffer, UrlMembers
    <3>5. CASE Forbidden
      <4>1. Divert(<<"logout">>)
        BY <3>5 DEF Forbidden
      <4> QED BY <3>1, <4>1, DivertSession, UrlsDiffer, UrlMembers
    <3> QED BY <2>1, <3>3, <3>4, <3>5 DEF LeaveFrame
  <2>2. CASE UseScreen
    <3>1. UNCHANGED browserVars
      BY <2>2 DEF UseScreen, FsUser, UserKeys, KeyDown, Click,
         HandleUserInput, Grant, Deny, LeaveElement, CoverScreen,
         UncoverScreen, DragWindow, ScreenTo
    <3> QED BY <1>2, <2>2, <3>1, <1>a
            DEF Play, UseScreen, sessionVars, playerVars
  <2>3. CASE UseFrame
    BY <1>2, <2>3, <1>a DEF Play, UseFrame, Loading, Unloading, sessionVars
  <2>4. CASE Timers
    <3>1. UNCHANGED <<browserVars, shown>>
      BY <2>4 DEF Timers, FsTimers, ChangeEvent, Elapse, IntervalFires,
         Resizing, StopBar, playerVars
    <3> QED BY <1>2, <3>1, <1>a DEF Play, sessionVars
  <2> QED BY <1>2, <2>1, <2>2, <2>3, <2>4 DEF Play
<1>3. CASE AnswerLost
  <2>1. lost' = NoUrl /\ UNCHANGED <<page, nav, interrupted, shown, launchVars>>
    BY <1>3 DEF AnswerLost, playerVars
  <2>2. CASE lost = <<"init">>
    <3>1. \/ \E e \in Execution : Become(e, InitialStatus)
          \/ UNCHANGED serverVars
      BY <1>3, <2>2, UrlsDiffer DEF AnswerLost
    <3>2. Kept
      BY <1>0, <3>1, BecomeKept, SameKept, StatesDiffer
    <3> QED
      BY <2>1, <3>2, UrlsDiffer, UrlMembers
         DEF SessionInv, SessionTypeOK, LaunchTypeOK, launchVars, Kept,
             LaunchGuarded, LostLaunch, ShownExists, playing
  <2>3. CASE lost # <<"init">>
    <3>1. PICK e \in Execution :
            Become(e, ACTIVE) \/ Become(e, FINISHED) \/ UNCHANGED serverVars
      BY <1>3, <2>3 DEF AnswerLost
    <3>2. Kept
      BY <1>0, <3>1, BecomeKept, SameKept, StatesDiffer
    <3> QED
      BY <2>1, <3>2, UrlsDiffer, UrlMembers
         DEF SessionInv, SessionTypeOK, LaunchTypeOK, launchVars, Kept,
             LaunchGuarded, LostLaunch, ShownExists, playing
  <2> QED BY <2>2, <2>3
<1>4. CASE Drop
  BY <1>4, UrlsDiffer, UrlMembers
     DEF Drop, DropLost, SessionInv, SessionTypeOK, LaunchTypeOK, launchVars,
         serverVars, playerVars, LaunchGuarded, LostLaunch, ShownExists,
         playing
<1>5. CASE Roam
  <2>1. UNCHANGED <<page, shown, launchVars, serverVars>>
    BY <1>5 DEF Roam, Stop, Reload, playerVars
  <2>2. Divert(NoUrl) \/ Divert(<<"index">>)
    BY <1>5 DEF Roam, Stop, Reload
  <2>3. Divert(NoUrl) => SessionInv'
    <3>1. /\ NoUrl # <<"init">>
          /\ \A e \in Execution : NoUrl \notin {<<"resume", e>>, <<"finish", e>>}
      BY UrlsDiffer, UrlMembers
    <3> QED BY <2>1, <3>1, DivertSession
  <2>4. Divert(<<"index">>) => SessionInv'
    BY <2>1, DivertSession, UrlsDiffer, UrlMembers
  <2> QED BY <2>2, <2>3, <2>4
<1>6. CASE Back
  <2>1. /\ page' = "list" /\ nav' = NoUrl /\ interrupted' = TRUE
        /\ lost' = lost \/ (lost' = nav /\ nav \in Changing)
        /\ shown' = NoExecution /\ UNCHANGED <<launchVars, serverVars>>
    BY <1>6, ForgetEffect DEF Back, LeavePlayer
  <2>2. SessionTypeOK'
    BY <1>0, <2>1 DEF SessionTypeOK, LaunchTypeOK, launchVars, serverVars, Page
  <2>3. LaunchGuarded' /\ LostLaunch'
    BY <2>1, UrlsDiffer, UrlMembers DEF LaunchGuarded, LostLaunch
  <2>4. ShownExists'
    BY <2>1, UrlsDiffer, UrlMembers, NoExecutionAssumption
       DEF SessionInv, ShownExists, serverVars, playing
  <2> QED BY <2>2, <2>3, <2>4 DEF SessionInv
<1>7. CASE Proctor
  <2>1. PICK e \in Execution, s \in {PAUSED, TERMINATED} : Become(e, s)
    BY <1>7 DEF Proctor
  <2>2. Kept
    BY <1>0, <2>1, BecomeKept, StatesDiffer
  <2>3. UNCHANGED <<page, nav, lost, interrupted, shown, launchVars>>
    BY <1>7 DEF Proctor, browserVars, playerVars
  <2> QED
    BY <2>2, <2>3
       DEF SessionInv, SessionTypeOK, LaunchTypeOK, launchVars, Kept,
           LaunchGuarded, LostLaunch, ShownExists, playing
<1>8. ASSUME NEW e \in Execution, ValidateLost(e) PROVE SessionInv'
  <2>1. /\ lost' = NoUrl \/ (lost' = <<"resume", e>> /\ status[e] \in State)
        /\ UNCHANGED <<page, nav, interrupted, shown, launchVars>> /\ Kept
    BY <1>0, <1>8, SameKept, StatesDiffer DEF ValidateLost, playerVars
  <2>2. lost' \in Changing \cup {NoUrl} /\ lost' # <<"init">>
    BY <2>1, UrlsDiffer, UrlMembers
  <2>3. \A x \in Execution : /\ lost' # <<"finish", x>>
                             /\ lost' = <<"resume", x>> => status[x] \in State
    <3>1. CASE lost' = NoUrl
      <4>1. \A x \in Execution : NoUrl \notin {<<"finish", x>>, <<"resume", x>>}
        BY UrlsDiffer, UrlMembers
      <4> QED BY <3>1, <4>1
    <3>2. CASE lost' = <<"resume", e>> /\ status[e] \in State
      BY <3>2, UrlsDiffer
    <3> QED BY <2>1, <3>1, <3>2
  <2>4. SessionTypeOK' /\ LaunchGuarded' /\ LostLaunch'
    BY <2>1, <2>2 DEF SessionInv, SessionTypeOK, LaunchTypeOK, launchVars,
       Kept, LaunchGuarded, LostLaunch
  <2>5. ShownExists'
    BY <2>1, <2>3 DEF SessionInv, ShownExists, Kept, playing
  <2> QED BY <2>4, <2>5 DEF SessionInv
<1> QED
  BY <1>1, <1>2, <1>3, <1>4, <1>5, <1>6, <1>7, <1>8 DEF LateAnswer

LEMMA InitSession == Init => SessionInv
<1> SUFFICES ASSUME Init PROVE SessionInv
  OBVIOUS
<1>1. /\ page = "list" /\ nav = NoUrl /\ lost = NoUrl /\ interrupted = FALSE
      /\ shown = NoExecution /\ deliveryStarted = FALSE
      /\ offered = {<<"init">>} /\ activity \in Activities
      /\ status = [e \in Execution |-> UNBORN]
  BY DEF Init, PlayerInit, LaunchInit
<1>2. SessionTypeOK
  BY <1>1 DEF SessionTypeOK, LaunchTypeOK, Page, Entry
<1>3. LaunchGuarded /\ LostLaunch
  BY <1>1, UrlsDiffer, UrlMembers DEF LaunchGuarded, LostLaunch
<1>4. ShownExists
  BY <1>1, UrlsDiffer, UrlMembers, NoExecutionAssumption
     DEF ShownExists, playing
<1> QED BY <1>2, <1>3, <1>4 DEF SessionInv

LEMMA NextSession == SessionInv /\ [Next]_vars => SessionInv'
BY LaunchSession, AnswerSession, OtherSession DEF Next

-----------------------------------------------------------------------------
\* What a step may do to the frame's size.
LEMMA TriggerType ==
  ASSUME SizeTypeOK, TriggerResize, resized' \in BOOLEAN PROVE SizeTypeOK'
BY DEF SizeTypeOK, TriggerResize, Trigger, OnResize, ResizeMainFrame,
       Throttled, Throttle

\* A step does one of these to the frame's size.
SizeMove ==
  \/ UNCHANGED sizeVars \/ ResetSize
  \/ TriggerResize /\ UNCHANGED resized
  \/ WindowChanges /\ UNCHANGED <<throttle, triggers>>
  \/ ResizeEvent \/ ThrottleEnds \/ TriggersEnd

LEMMA SizeMoves == ASSUME [Next]_vars PROVE SizeMove
<1>1. ASSUME NEW evt, HandleUserInput(evt) PROVE SizeMove
  BY <1>1 DEF HandleUserInput, CloseDialog, OnClosed, SizeMove, sizeVars
<1>2. ASSUME NEW s, ScreenTo(s) PROVE SizeMove
  BY <1>2 DEF ScreenTo, SizeMove, sizeVars
<1>3. OnChange => SizeMove
  BY DEF OnChange, SizeMove
<1>4. FsUser => SizeMove
  <2>1. UserKeys \/ Click => SizeMove
    BY <1>1 DEF UserKeys, KeyDown, Click
  <2>2. Grant \/ LeaveElement \/ CoverScreen \/ UncoverScreen => SizeMove
    BY <1>2 DEF Grant, LeaveElement, CoverScreen, UncoverScreen
  <2>3. Deny \/ DragWindow => SizeMove
    BY DEF Deny, DragWindow, SizeMove
  <2> QED BY <2>1, <2>2, <2>3 DEF FsUser
<1>5. FsTimers => SizeMove
  BY <1>3 DEF FsTimers, ChangeEvent, Elapse, IntervalFires, SizeMove
<1>6. CASE Play
  BY <1>4, <1>5, <1>6
     DEF Play, UseScreen, UseFrame, Loading, Unloading, LeaveFrame,
         FinishTest, ExitTest, Forbidden, Timers, Resizing, StopBar, SizeMove
<1>7. CASE Answer
  BY <1>7
     DEF Answer, AnswerInit, RefuseInit, AnswerIndex, AnswerLogout,
         Validate, AnswerRun, RedirectRun, Wait, AnswerFinish, StartPlayer,
         LeavePlayer, SizeMove
<1>8. CASE Launch \/ LateAnswer \/ Drop \/ Roam \/ Back \/ Proctor
            \/ UNCHANGED vars
  BY <1>8
     DEF Launch, LateAnswer, ValidateLost, AnswerLost, Drop, Roam, Back,
         LeavePlayer, Proctor, vars, SizeMove
<1> QED BY <1>6, <1>7, <1>8 DEF Next

LEMMA SizeSteps ==
  ASSUME SizeTypeOK, [Next]_vars PROVE SizeTypeOK'
<1>1. UNCHANGED sizeVars \/ ResetSize => SizeTypeOK'
  BY DEF sizeVars, ResetSize, SizeTypeOK, Throttle
<1>2. TriggerResize /\ UNCHANGED resized => SizeTypeOK'
  BY TriggerType DEF SizeTypeOK
<1>3. WindowChanges /\ UNCHANGED <<throttle, triggers>> => SizeTypeOK'
  BY DEF WindowChanges, SizeTypeOK
<1>4. ResizeEvent => SizeTypeOK'
  BY DEF ResizeEvent, OnResize, ResizeMainFrame, Throttled, Throttle,
     SizeTypeOK
<1>5. ThrottleEnds => SizeTypeOK'
  BY DEF ThrottleEnds, ResizeMainFrame, Throttle, SizeTypeOK
<1>6. TriggersEnd => SizeTypeOK'
  BY DEF TriggersEnd, Trigger, OnResize, ResizeMainFrame, Throttled,
     Throttle, SizeTypeOK
<1> QED
  BY SizeMoves, <1>1, <1>2, <1>3, <1>4, <1>5, <1>6 DEF SizeMove, sizeVars

\* Every variable keeps its type.
THEOREM TypeCorrect == Spec => []TypeOK
<1>1. Init => BarInv /\ SizeTypeOK
  <2>1. 0 \in 0..MaxStops
    BY MaxStopsAssumption
  <2> QED
    BY <2>1 DEF Init, PlayerInit, SizeInit, SizeTypeOK, Throttle, BarInv
<1>2. SizeTypeOK /\ [Next]_vars => SizeTypeOK'
  BY SizeSteps
<1>3. FsInv /\ BarInv /\ SizeTypeOK /\ SessionInv => TypeOK
  BY DEF FsInv, BarInv, SessionInv, SessionTypeOK, TypeOK, PlayerTypeOK
<1> QED
  BY <1>1, <1>2, <1>3, InitFsInv, NextFsInv, NextBarInv, InitSession,
     NextSession, PTL DEF Spec

\* No launch spends an attempt that nobody takes.
THEOREM NoAttemptIsWasted == Spec => NoAttemptWasted
<1>1. SessionInv /\ SessionInv' /\ [Next]_vars =>
        [\A e \in Execution :
           status[e] = UNBORN /\ status'[e] # UNBORN
             => nav' = <<"run", e>> \/ interrupted]_vars
  <2> SUFFICES ASSUME SessionInv, [Next]_vars, NEW e \in Execution,
                      status[e] = UNBORN, status'[e] # UNBORN, ~interrupted
               PROVE  nav' = <<"run", e>>
    OBVIOUS
  <2>0. SessionTypeOK
    BY DEF SessionInv
  <2>1. ASSUME NEW x \in Execution, NEW s \in State, Become(x, s) PROVE x = e
    BY <2>0, <2>1, BecomeKept
  <2>2. ~UNCHANGED serverVars
    BY DEF serverVars
  <2>3. CASE Launch \/ Play \/ Drop \/ Roam \/ Back \/ UNCHANGED vars
    BY <2>2, <2>3 DEF Launch, Play, Drop, Roam, Back, vars
  <2>4. CASE Proctor
    <3>1. PICK x \in Execution, s \in {PAUSED, TERMINATED} :
            status[x] = ACTIVE /\ Become(x, s)
      BY <2>4 DEF Proctor
    <3> QED BY <2>1, <3>1, StatesDiffer
  <2>5. CASE AnswerLost
    <3>1. lost # <<"init">>
      BY DEF SessionInv, LostLaunch
    <3>2. PICK x \in Execution :
            \/ lost = <<"resume", x>> /\ Become(x, ACTIVE)
            \/ lost = <<"finish", x>> /\ Become(x, FINISHED)
      BY <2>2, <2>5, <3>1 DEF AnswerLost
    <3>3. status[x] \in State
      BY <3>2 DEF SessionInv, ShownExists
    <3> QED BY <2>1, <3>2, <3>3, StatesDiffer
  <2>6. CASE Answer
    <3>1. CASE AnswerInit
      BY <2>1, <3>1, StatesDiffer DEF AnswerInit
    <3>2. CASE RefuseInit \/ AnswerIndex \/ AnswerLogout
      BY <2>2, <3>2 DEF RefuseInit, AnswerIndex, AnswerLogout
    <3>3. ASSUME NEW x \in Execution, AnswerRun(x) PROVE FALSE
      <4>1. status[x] \in State /\ Become(x, ACTIVE)
        BY <3>3 DEF SessionInv, ShownExists, AnswerRun
      <4> QED BY <2>1, <4>1, StatesDiffer
    <3>4. ASSUME NEW x \in Execution, Validate(x) \/ RedirectRun(x) \/ Wait(x)
          PROVE  FALSE
      BY <2>2, <3>4 DEF Validate, RedirectRun, Wait
    <3>5. ASSUME NEW x \in Execution, AnswerFinish(x) PROVE FALSE
      <4>1. status[x] \in State /\ Become(x, FINISHED)
        BY <3>5 DEF SessionInv, ShownExists, AnswerFinish
      <4> QED BY <2>1, <4>1, StatesDiffer
    <3> QED BY <2>6, <3>1, <3>2, <3>3, <3>4, <3>5 DEF Answer
  <2>7. ASSUME NEW x \in Execution, ValidateLost(x) PROVE FALSE
    BY <2>2, <2>7 DEF ValidateLost
  <2> QED BY <2>3, <2>4, <2>5, <2>6, <2>7 DEF Next, LateAnswer
<1> QED BY <1>1, InitSession, NextSession, PTL DEF Spec, NoAttemptWasted

-----------------------------------------------------------------------------
\* An execution has ended for good: no checked request to run it is left.
Sealed(e) == Ended(e) /\ ~Resuming(e)

\* No step of the tab, its lost requests or the server breaks the seal: a run is
\* checked only if its execution is resumable.
LEMMA SealedStep ==
  ASSUME SessionInv, [Next]_vars, NEW e \in Execution, Sealed(e)
  PROVE  Sealed(e)'
<1>0. /\ SessionTypeOK /\ status[e] \in {FINISHED, TERMINATED}
      /\ status[e] \notin ResumableStates /\ status[e] # UNBORN
      /\ nav # <<"resume", e>> /\ lost # <<"resume", e>>
  BY StatesDiffer DEF SessionInv, Sealed, Ended, Resuming, FINISHED,
     TERMINATED, ACTIVE, PAUSED, UNBORN
<1>1. SUFFICES /\ status'[e] \in {FINISHED, TERMINATED}
               /\ nav' # <<"resume", e>> /\ lost' # <<"resume", e>>
  BY DEF Sealed, Ended, Resuming
<1>2. ASSUME NEW x \in Execution, NEW s \in State, Become(x, s),
             x # e \/ s = FINISHED
      PROVE  status'[e] \in {FINISHED, TERMINATED}
  BY <1>0, <1>2, BecomeKept
<1>3. UNCHANGED serverVars => status'[e] \in {FINISHED, TERMINATED}
  BY <1>0 DEF serverVars
<1>4. ASSUME NEW url, GoTo(url), url # <<"resume", e>>
      PROVE  nav' # <<"resume", e>> /\ lost' # <<"resume", e>>
  BY <1>0, <1>4, ForgetEffect DEF GoTo
<1>5. UNCHANGED <<nav, lost>> =>
        nav' # <<"resume", e>> /\ lost' # <<"resume", e>>
  BY <1>0
<1>6. NoUrl # <<"resume", e>>
  BY UrlsDiffer, UrlMembers
<1>7. CASE Launch
  <2>1. PICK entry \in offered : Launches(entry)
    BY <1>7 DEF Launch, ClickEntry, KeyUpEntry
  <2>2. entry # <<"resume", e>>
    BY <1>0, <2>1, <1>6, UrlsDiffer
       DEF SessionTypeOK, LaunchTypeOK, Entry, Blank, Disabled
  <2>3. GoTo(entry) \/ UNCHANGED <<nav, lost>>
    BY <2>1 DEF Launches, LaunchDelivery, RunDelivery
  <2> QED BY <1>3, <1>4, <1>5, <1>7, <2>2, <2>3 DEF Launch
<1>8. CASE Play
  <2>1. CASE LeaveFrame
    <3>1. PICK url : GoTo(url) /\ url # <<"resume", e>>
      BY <2>1, UrlsDiffer
         DEF LeaveFrame, FinishTest, ExitTest, Forbidden, Divert
    <3> QED BY <1>3, <1>4, <1>8, <3>1 DEF Play
  <2>2. CASE ~LeaveFrame
    <3>1. UNCHANGED browserVars
      BY <1>8, <2>2 DEF Play, UseScreen, FsUser, UserKeys, KeyDown, Click,
         HandleUserInput, Grant, Deny, LeaveElement, CoverScreen,
         UncoverScreen, ScreenTo, DragWindow, UseFrame, Loading, Unloading,
         Timers, FsTimers, ChangeEvent, Elapse, IntervalFires, Resizing, StopBar
    <3> QED BY <1>3, <1>5, <1>8, <3>1 DEF Play, browserVars
  <2> QED BY <2>1, <2>2
<1>9. CASE Roam \/ Back
  <2>1. GoTo(NoUrl) \/ GoTo(<<"index">>)
    BY <1>9 DEF Roam, Stop, Reload, Divert, Back, GoTo
  <2> QED BY <1>3, <1>4, <1>6, <1>9, <2>1, UrlsDiffer DEF Roam, Back
<1>10. CASE Drop \/ UNCHANGED vars
  BY <1>0, <1>3, <1>6, <1>10 DEF Drop, DropLost, vars, browserVars
<1>11. CASE Proctor
  <2>1. PICK x \in Execution, s \in {PAUSED, TERMINATED} :
          status[x] = ACTIVE /\ Become(x, s)
    BY <1>11 DEF Proctor
  <2>2. x # e
    BY <1>0, <2>1, StatesDiffer
  <2> QED BY <1>2, <1>5, <1>11, <2>1, <2>2, StatesDiffer DEF Proctor, browserVars
<1>12. CASE LateAnswer
  <2>1. ASSUME NEW x \in Execution, ValidateLost(x)
        PROVE  lost' # <<"resume", e>> /\ UNCHANGED <<nav, serverVars>>
    <3>1. CASE x = e
      BY <1>0, <1>6, <2>1, <3>1 DEF ValidateLost
    <3>2. CASE x # e
      BY <1>6, <2>1, <3>2, UrlsDiffer DEF ValidateLost
    <3> QED BY <2>1, <3>1, <3>2 DEF ValidateLost
  <2>2. CASE AnswerLost
    <3>1. lost' # <<"resume", e>> /\ nav' # <<"resume", e>>
      BY <1>0, <1>6, <2>2 DEF AnswerLost
    <3>2. \/ \E x \in Execution :
               \/ status[x] = UNBORN /\ Become(x, InitialStatus)
               \/ lost = <<"resume", x>> /\ Become(x, ACTIVE)
               \/ Become(x, FINISHED)
          \/ UNCHANGED serverVars
      BY <2>2 DEF AnswerLost
    <3> QED BY <1>0, <1>2, <1>3, <3>1, <3>2, StatesDiffer
  <2> QED BY <1>0, <1>3, <1>12, <2>1, <2>2 DEF LateAnswer
<1>13. CASE Answer
  <2>1. CASE AnswerInit
    <3>1. PICK x \in Execution :
            /\ status[x] = UNBORN /\ Become(x, InitialStatus)
            /\ nav' = <<"run", x>> /\ lost' = lost
      BY <2>1 DEF AnswerInit
    <3>2. nav' # <<"resume", e>>
      BY <3>1, UrlsDiffer
    <3> QED BY <1>0, <1>2, <3>1, <3>2, StatesDiffer
  <2>2. CASE RefuseInit \/ AnswerIndex \/ AnswerLogout
    <3>1. nav' = NoUrl /\ lost' = lost /\ UNCHANGED serverVars
      BY <2>2 DEF RefuseInit, AnswerIndex, AnswerLogout, Arrive
    <3> QED BY <1>0, <1>3, <1>6, <3>1
  <2>3. ASSUME NEW x \in Execution, Validate(x)
        PROVE  nav' # <<"resume", e>> /\ UNCHANGED <<lost, serverVars>>
    BY <1>0, <2>3, UrlsDiffer DEF Validate
  <2>4. ASSUME NEW x \in Execution, AnswerRun(x)
        PROVE  /\ status'[e] \in {FINISHED, TERMINATED}
               /\ nav' # <<"resume", e>> /\ lost' = lost
    <3>1. /\ nav = <<"resume", x>> /\ nav' = NoUrl /\ lost' = lost
          /\ Become(x, ACTIVE)
      BY <2>4 DEF AnswerRun, Arrive
    <3> QED BY <1>0, <1>2, <1>6, <3>1, StatesDiffer
  <2>5. ASSUME NEW x \in Execution, RedirectRun(x) \/ Wait(x)
        PROVE  nav' # <<"resume", e>> /\ UNCHANGED <<lost, serverVars>>
    BY <1>6, <2>5, UrlsDiffer DEF RedirectRun, Wait, Arrive
  <2>6. ASSUME NEW x \in Execution, AnswerFinish(x)
        PROVE  /\ status'[e] \in {FINISHED, TERMINATED}
               /\ nav' # <<"resume", e>> /\ lost' = lost
    <3>1. nav' = <<"index">> /\ lost' = lost /\ Become(x, FINISHED)
      BY <2>6 DEF AnswerFinish
    <3> QED BY <1>2, <3>1, UrlsDiffer, StatesDiffer
  <2> QED
    BY <1>0, <1>3, <1>13, <2>1, <2>2, <2>3, <2>4, <2>5, <2>6 DEF Answer
<1> QED
  BY <1>7, <1>8, <1>9, <1>10, <1>11, <1>12, <1>13 DEF Next

\* What has ended while no checked request to run it was on its way has ended
\* for good: whatever the tab and its lost requests do, only a write that
\* follows an older check of runDeliveryExecution brings it back.
THEOREM EndedStaysEndedTheorem == Spec => EndedStaysEnded
<1> SUFFICES ASSUME NEW CONSTANT e \in Execution
             PROVE  Spec => [](Ended(e) /\ ~Resuming(e) => []Ended(e))
  BY DEF EndedStaysEnded
<1>1. SessionInv /\ Sealed(e) /\ [Next]_vars => Sealed(e)'
  BY SealedStep
<1>2. Sealed(e) <=> Ended(e) /\ ~Resuming(e)
  BY DEF Sealed
<1> QED BY <1>1, <1>2, InitSession, NextSession, PTL DEF Spec
=============================================================================
