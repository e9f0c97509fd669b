------------------------------ MODULE PlayerPage ------------------------------
(***************************************************************************)
(* runtime/service/deliveryExecution.js: the page around the frame in      *)
(* which a delivery runs. It shows and hides the loading bar as the frame  *)
(* says, fits the frame to the window, and leaves when the delivery is     *)
(* finished or exited.                                                     *)
(***************************************************************************)
EXTENDS FullScreen

CONSTANT MaxStops    \* bound on the timers that will stop the loading bar

ASSUME MaxStopsAssumption == MaxStops \in Nat \ {0}

VARIABLES
  shown,        \* the execution whose page is shown, or NoExecution
  frameLoads,   \* what the frame last said: it loads, or it does not
  bar,          \* the loading bar is shown
  stops,        \* timers that will stop the bar
  overlapped    \* the frame began to load while such a timer ran

barVars == <<frameLoads, bar, stops, overlapped>>

playerVars == <<shown, barVars>>

PlayerInit ==
  /\ SizeInit /\ FsInit
  /\ shown = NoExecution
  /\ frameLoads = FALSE /\ bar = FALSE /\ stops = 0 /\ overlapped = FALSE

ResetBar ==
  /\ frameLoads' = FALSE /\ bar' = FALSE /\ stops' = 0 /\ overlapped' = FALSE

\* start: the page of execution e is loaded.
StartPlayer(e, s, required) ==
  /\ shown' = e
  /\ StartFullScreen(s, required)
  /\ ResetSize /\ ResetBar

LeavePlayer ==
  /\ shown' = NoExecution
  /\ LeaveFullScreen /\ ResetSize /\ ResetBar

-----------------------------------------------------------------------------
\* Mutant: the bar is not started.
LoadingUnshown ==
  /\ playing
  /\ frameLoads' = TRUE
  /\ overlapped' = (stops > 0)
  /\ UNCHANGED <<bar, stops, shown, sizeVars, fsVars, browserVars>>

\* The frame says that it loads: 'loading'.
Loading ==
  /\ playing
  /\ frameLoads' = TRUE /\ bar' = TRUE
  /\ overlapped' = (stops > 0)
  /\ UNCHANGED <<stops, shown, sizeVars, fsVars, browserVars>>

\* Mutant: no timer is set to stop the bar.
UnloadingUntimed ==
  /\ playing
  /\ frameLoads' = FALSE
  /\ UNCHANGED <<bar, overlapped, stops, shown, sizeVars, fsVars,
                 browserVars>>

\* The frame says that it has loaded, maybe again: 'unloading'.
Unloading ==
  /\ playing
  /\ stops < MaxStops
  /\ frameLoads' = FALSE
  /\ stops' = stops + 1
  /\ UNCHANGED <<bar, overlapped, shown, sizeVars, fsVars,
                 browserVars>>

\* 300 ms later.
StopBar ==
  /\ stops > 0
  /\ stops' = stops - 1
  /\ bar' = FALSE
  /\ UNCHANGED <<frameLoads, overlapped, shown, sizeVars, fsVars,
                 browserVars>>

\* onFinish: the frame says that the delivery is finished.
FinishTest ==
  /\ playing
  /\ Divert(<<"finish", shown>>)
  /\ UNCHANGED <<page, playerVars, sizeVars, fsVars>>

\* onExit, or the link in the page's header: both lead to the return address.
ExitTest ==
  /\ playing
  /\ Divert(<<"index">>)
  /\ UNCHANGED <<page, playerVars, sizeVars, fsVars>>

\* serviceforbidden: the frame's service refused the user.
Forbidden ==
  /\ playing
  /\ Divert(<<"logout">>)
  /\ UNCHANGED <<page, playerVars, sizeVars, fsVars>>

\* What the user and the browser do to the page's window.
UseScreen == FsUser /\ UNCHANGED playerVars

Timers ==
  \/ (FsTimers \/ Resizing) /\ UNCHANGED playerVars
  \/ StopBar

UseFrame == Loading \/ Unloading

LeaveFrame == FinishTest \/ ExitTest \/ Forbidden

PlayerTypeOK ==
  /\ SizeTypeOK /\ FsTypeOK
  /\ shown \in Execution \cup {NoExecution}
  /\ frameLoads \in BOOLEAN /\ bar \in BOOLEAN /\ overlapped \in BOOLEAN
  /\ stops \in 0..MaxStops
=============================================================================
