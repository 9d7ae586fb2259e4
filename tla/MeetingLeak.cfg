SPECIFICATION MCSpec
CONSTANTS
  Scenes = {"v2"}
  Gpu = {"asr", "tts"}
  WantsHold = TRUE
  MaxFaults = 1
  Plans = {"stream"}
  MaxTurns = 1
  MaxChunks = 1
  MaxAudio = 1
  TextCap = 1
  AudioCap = 1
  MaxSegments = 1
  Translates = TRUE
  Summarizes = TRUE
  Presets = {"meeting"}
  Translating = TRUE
  MaxCommits = 2
  MaxReplies = 1
  LineCap = 1
  Half = 2
  MaxFrames = 2
  Lines = {1}
  Locales = {"ja"}
  Texts <- SomeTexts
  Settings = {1}
  MaxJobs = 1
  Components = {"speech"}
  Profiles <- SetupProfiles
  MaxSetups = 1
  MaxRestarts = 0
INVARIANT NothingOutlives
CHECK_DEADLOCK FALSE
