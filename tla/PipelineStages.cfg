SPECIFICATION FairSpec
CONSTANTS
  p1 = p1
  p2 = p2
  None = None
  Pipelines = {p1, p2}
  Offers <- SomeOffers
  Gpu = {"asr", "tts", "sfx", "music"}
  Exclusive = {"music"}
  Japanese = {p1}
  Faulty = {p2}
  MaxStages = 3
  MaxCancels = 1
INVARIANTS TypeOK HoldsOneAtATime LeaseIsOfTheStage EndsWithoutLease LockIsForWork CompiledFits
PROPERTIES ModelGivenBack EveryPipelineEnds
CHECK_DEADLOCK FALSE
