SPECIFICATION MCSpec
CONSTANTS
  Scenes = {"turn", "meeting", "v2", "edge", "batch", "setup"}
  Gpu = {"asr", "tts"}
  WantsHold = TRUE
  MaxFaults = 2
  Plans = {"stream", "whole", "staged", "translate"}
  MaxTurns = 2
  MaxChunks = 2
  MaxAudio = 1
  TextCap = 1
  AudioCap = 1
  MaxSegments = 2
  Translates = TRUE
  Summarizes = TRUE
  Presets = {"chat", "dictation", "meeting"}
  Translating = TRUE
  MaxCommits = 2
  MaxReplies = 2
  LineCap = 1
  Half = 2
  MaxFrames = 6
  Lines = {1, 2}
  Locales = {"ja", "en"}
  Texts <- SomeTexts
  Settings = {1, 2}
  MaxJobs = 2
  Components = {"speech", "music"}
  Profiles <- SetupProfiles
  MaxSetups = 2
  MaxRestarts = 1
INVARIANTS WorkerUnderLease GivesBack SpeaksItsText ReplyWhole MeetingWhole V2Whole GapsAccounted BatchTellsTruth SetupTellsTruth
PROPERTIES QuietAfterEnd TurnEnds ReleaseEnds
CHECK_DEADLOCK FALSE
