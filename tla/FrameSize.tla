------------------------------ MODULE FrameSize ------------------------------
(***************************************************************************)
(* The height of the frame a delivery runs in. deliveryExecution.js fits   *)
(* it to the window on every resize event, at most once in 250 ms;         *)
(* fullScreen.js triggers such an event, also at most once in 250 ms. A    *)
(* throttled function of lodash runs at the first call and once more, when *)
(* the time is over, if it was called meanwhile.                           *)
(***************************************************************************)
EXTENDS Browser

VARIABLES
  fitted,     \* the frame was given its height after the window last changed
  resized,    \* the window changed: its resize event is due
  throttle,   \* state of the throttled resize handler
  triggers    \* state of the throttled triggerResize

sizeVars == <<fitted, resized, throttle, triggers>>

\* Not called lately; called lately; and called again since it last ran.
Throttle == {"idle", "wait", "again"}

Throttled(t) == IF t = "idle" THEN "wait" ELSE "again"

ResizeMainFrame == fitted' = TRUE

\* Mutant: the throttle forgets the calls made while it waits.
OnResizeForgets ==
  /\ throttle' = "wait"
  /\ IF throttle = "idle" THEN ResizeMainFrame ELSE UNCHANGED fitted

\* The handler of the resize event.
OnResize ==
  /\ throttle' = Throttled(throttle)
  /\ IF throttle = "idle" THEN ResizeMainFrame ELSE UNCHANGED fitted

\* The event goes to the frame if it has a jQuery of its own, else to the
\* window of the page.
Trigger == OnResize \/ UNCHANGED <<throttle, fitted>>

TriggerResize ==
  /\ triggers' = Throttled(triggers)
  /\ IF triggers = "idle" THEN Trigger ELSE UNCHANGED <<throttle, fitted>>

\* The window gets another height.
WindowChanges == fitted' = FALSE /\ resized' = TRUE

SizeInit ==
  /\ fitted = TRUE /\ resized = FALSE
  /\ throttle = "idle" /\ triggers = "idle"

\* The page is loaded, or left: nothing is pending.
ResetSize ==
  /\ fitted' = TRUE /\ resized' = FALSE
  /\ throttle' = "idle" /\ triggers' = "idle"

ResizeEvent ==
  /\ resized
  /\ resized' = FALSE
  /\ OnResize
  /\ UNCHANGED triggers

\* 250 ms after the handler ran.
ThrottleEnds ==
  /\ throttle # "idle"
  /\ throttle' = IF throttle = "again" THEN "wait" ELSE "idle"
  /\ IF throttle = "again" THEN ResizeMainFrame ELSE UNCHANGED fitted
  /\ UNCHANGED <<resized, triggers>>

\* 250 ms after triggerResize ran.
TriggersEnd ==
  /\ triggers # "idle"
  /\ triggers' = IF triggers = "again" THEN "wait" ELSE "idle"
  /\ IF triggers = "again" THEN Trigger ELSE UNCHANGED <<throttle, fitted>>
  /\ UNCHANGED resized

SizeTypeOK ==
  /\ fitted \in BOOLEAN /\ resized \in BOOLEAN
  /\ throttle \in Throttle /\ triggers \in Throttle
=============================================================================
