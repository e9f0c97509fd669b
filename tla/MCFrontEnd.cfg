SPECIFICATION Spec
CONSTANTS
  Execution = {e1, e2}
  NoExecution = {e1, e2}
  Browsers = {"native", "mute", "legacy"}
  Period = 2
  MaxMarks = 2
  MaxStops = 2
  RequireFullScreen = {TRUE, FALSE}
  Activities = {{"screen", "frame"}, {"detour"}}
INVARIANTS TypeOK OlderIsWatched PromptUnmarked LoadingShown
PROPERTIES PromptLapses NoAttemptWasted EndedStaysEnded LaunchLeaves SubmittedFinishes BarStops FrameFits PromptedByEvent PromptedInTime
