------------------------------ MODULE FullScreen ------------------------------
(***************************************************************************)
(* runtime/service/fullScreen.js: a delivery that requires full screen     *)
(* shows a prompt over the page while the page is not on full screen. A    *)
(* browser with native support is asked for full screen and fires an event *)
(* on every change; an older one is asked nothing and looked at every two  *)
(* seconds.                                                                *)
(***************************************************************************)
EXTENDS FrameSize, Naturals

CONSTANTS Browsers,   \* the kinds of browsers
          Period,     \* steps of the interval of awaitFsChange
          MaxMarks    \* bound on the class names that pile up

\* native: supported, and its change event has the name fs looks for. mute:
\* supported, under another name. legacy: not supported.
AllBrowsers == {"native", "mute", "legacy"}

ASSUME FullScreenAssumption ==
  /\ Browsers \subseteq AllBrowsers
  /\ Period \in Nat \ {0}
  /\ MaxMarks \in Nat \ {0}

VARIABLES
  browser,          \* the kind of browser, one of Browsers
  screen,           \* "element": full screen was requested and granted;
                    \* "window": the window covers the screen (F11)
  installed,        \* init was called: the listeners are in place
  dialog,           \* the prompt: "open" or "closed"
  changeInterval,   \* steps until the interval fires, 0 if there is none
  requested,        \* a requestFullscreen the browser has not answered
  changed,          \* the change event is due; several of them are one
  marks,            \* how often the page's class names 'fullscreen'
  remarked          \* a request was made while the class was there

fsVars == <<browser, screen, installed, dialog, changeInterval, requested,
            changed, marks, remarked>>

isSupported == browser # "legacy"

fullScreen == screen # "windowed"

AwaitFsChange == changeInterval' = Period

\* Opening the dialog triggers opened.modal.
OpenDialog == dialog' = "open" /\ changeInterval' = 0

\* The listener of closed.modal.
OnClosed ==
  IF isSupported
  THEN UNCHANGED <<changeInterval, sizeVars>>
  ELSE AwaitFsChange /\ TriggerResize /\ UNCHANGED resized

\* Mutant: the listener of closed.modal does not start the interval.
CloseDialogUnwatched ==
  /\ dialog' = "closed"
  /\ UNCHANGED <<changeInterval, sizeVars>>

\* Closing triggers closed.modal; for a dialog that is closed already it may
\* or may not do so.
CloseDialog ==
  /\ dialog' = "closed"
  /\ \/ OnClosed
     \/ dialog = "closed" /\ UNCHANGED <<changeInterval, sizeVars>>

RequestFullscreen ==
  /\ marks < MaxMarks
  /\ requested' = TRUE
  /\ marks' = marks + 1
  /\ remarked' = (remarked \/ marks > 0)

\* Mutant: the prompt is closed before the key is looked at.
HandleUserInputClosesFirst(evt) ==
  /\ IF isSupported /\ evt \in {"enter", "click"}
     THEN RequestFullscreen
     ELSE UNCHANGED <<requested, marks, remarked>>
  /\ CloseDialog
  /\ UNCHANGED <<browser, screen, installed, changed, browserVars>>

\* The user's input on the prompt: a key press or a click on the button.
HandleUserInput(evt) ==
  /\ IF isSupported
     THEN evt \in {"enter", "click"} /\ RequestFullscreen
     ELSE UNCHANGED <<requested, marks, remarked>>
  /\ CloseDialog
  /\ UNCHANGED <<browser, screen, installed, changed, browserVars>>

-----------------------------------------------------------------------------
\* No page that calls init is shown.
FsIdle ==
  /\ screen = "windowed" /\ installed = FALSE /\ dialog = "closed"
  /\ changeInterval = 0 /\ requested = FALSE /\ changed = FALSE
  /\ marks = 0 /\ remarked = FALSE

FsInit == browser \in Browsers /\ FsIdle

\* The scripts of the page end with it.
LeaveFullScreen ==
  /\ screen' = "windowed" /\ installed' = FALSE /\ dialog' = "closed"
  /\ changeInterval' = 0 /\ requested' = FALSE /\ changed' = FALSE
  /\ marks' = 0 /\ remarked' = FALSE
  /\ UNCHANGED browser

\* A page is loaded, in a window that covers the screen or not; init is called
\* if the configuration requires full screen. init starts the interval for an
\* older browser; opening the prompt clears it.
StartFullScreen(s, required) ==
  /\ screen' = s
  /\ installed' = required
  /\ dialog' = IF required /\ s = "windowed" THEN "open" ELSE "closed"
  /\ changeInterval' =
       IF required /\ ~isSupported /\ s # "windowed" THEN Period ELSE 0
  /\ requested' = FALSE /\ changed' = FALSE /\ marks' = 0 /\ remarked' = FALSE
  /\ UNCHANGED browser

\* A key is pressed anywhere in the page, not in the frame.
KeyDown(key) ==
  /\ installed /\ ~fullScreen
  /\ HandleUserInput(key)

Click ==
  /\ installed /\ dialog = "open"
  /\ HandleUserInput("click")

\* The window changes between covering the screen and not.
ScreenTo(s) ==
  /\ screen' = s
  /\ IF (s = "windowed") # (screen = "windowed")
     THEN WindowChanges ELSE UNCHANGED <<fitted, resized>>
  /\ UNCHANGED <<throttle, triggers, browserVars>>
  /\ UNCHANGED <<browser, installed, dialog, changeInterval, marks, remarked>>

\* The browser tells the page.
Fire == changed' = (browser = "native")

\* The browser answers a request.
Grant ==
  /\ requested
  /\ requested' = FALSE
  /\ ScreenTo("element")
  /\ Fire

Deny ==
  /\ requested
  /\ requested' = FALSE
  /\ UNCHANGED <<browser, screen, installed, dialog, changeInterval, changed,
                 marks, remarked, sizeVars, browserVars>>

\* The user leaves the full screen that was granted; a window that covered the
\* screen before may do so again.
LeaveElement ==
  /\ screen = "element"
  /\ \E s \in {"windowed", "window"} : ScreenTo(s)
  /\ Fire
  /\ UNCHANGED requested

\* F11 on Windows or Linux. No browser fires the change event.
CoverScreen ==
  /\ playing /\ screen = "windowed"
  /\ ScreenTo("window")
  /\ UNCHANGED <<requested, changed>>

UncoverScreen ==
  /\ screen = "window"
  /\ ScreenTo("windowed")
  /\ UNCHANGED <<requested, changed>>

\* Mutant: the handler removes the class only when the page is on full screen.
OnChangeKeepsMark ==
  IF fullScreen
  THEN TriggerResize /\ UNCHANGED <<dialog, changeInterval, marks, resized>>
  ELSE OpenDialog /\ UNCHANGED <<marks, sizeVars>>

\* Mutant: the branches are swapped.
OnChangeSwapped ==
  IF ~fullScreen
  THEN TriggerResize /\ UNCHANGED <<dialog, changeInterval, marks, resized>>
  ELSE /\ marks' = IF marks > 0 THEN marks - 1 ELSE 0
       /\ OpenDialog
       /\ UNCHANGED sizeVars

\* The handler of the change event. It removes one of the class names.
OnChange ==
  IF fullScreen
  THEN TriggerResize /\ UNCHANGED <<dialog, changeInterval, marks, resized>>
  ELSE /\ marks' = IF marks > 0 THEN marks - 1 ELSE 0
       /\ OpenDialog
       /\ UNCHANGED sizeVars

ChangeEvent ==
  /\ installed /\ changed
  /\ changed' = FALSE
  /\ OnChange
  /\ UNCHANGED <<browser, screen, installed, requested, remarked, browserVars>>

\* Time passes; the interval fires at the end of its period and fires the
\* change event itself if the page is not on full screen.
Elapse ==
  /\ changeInterval > 1
  /\ changeInterval' = changeInterval - 1
  /\ UNCHANGED <<browser, screen, installed, dialog, requested, changed, marks,
                 remarked, sizeVars, browserVars>>

\* Mutant: a timeout instead of an interval.
IntervalFiresOnce ==
  /\ changeInterval = 1
  /\ IF fullScreen
     THEN changeInterval' = 0 /\ UNCHANGED <<dialog, marks, sizeVars>>
     ELSE OnChange
  /\ UNCHANGED <<browser, screen, installed, requested, changed, remarked,
                 browserVars>>

IntervalFires ==
  /\ changeInterval = 1
  /\ IF fullScreen
     THEN changeInterval' = Period /\ UNCHANGED <<dialog, marks, sizeVars>>
     ELSE OnChange
  /\ UNCHANGED <<browser, screen, installed, requested, changed, remarked,
                 browserVars>>

\* The user drags the window's border.
DragWindow ==
  /\ playing
  /\ WindowChanges
  /\ UNCHANGED <<throttle, triggers, fsVars, browserVars>>

Resizing ==
  /\ ResizeEvent \/ ThrottleEnds \/ TriggersEnd
  /\ UNCHANGED <<fsVars, browserVars>>

UserKeys == \E key \in {"enter", "other"} : KeyDown(key)

FsUser ==
  \/ UserKeys \/ Click \/ Grant \/ Deny \/ LeaveElement
  \/ CoverScreen \/ UncoverScreen \/ DragWindow

FsTimers == ChangeEvent \/ Elapse \/ IntervalFires

FsTypeOK ==
  /\ browser \in Browsers
  /\ screen \in {"windowed", "element", "window"}
  /\ installed \in BOOLEAN /\ requested \in BOOLEAN /\ changed \in BOOLEAN
  /\ remarked \in BOOLEAN
  /\ dialog \in {"open", "closed"}
  /\ changeInterval \in 0..Period
  /\ marks \in 0..MaxMarks
=============================================================================
