\* A speech engine, always kept, and a sound-effect engine only batches keep.
SPECIFICATION Spec
CONSTANTS
  tts = tts
  sfx = sfx
  p1 = p1
  p2 = p2
  p3 = p3
  host = host
  batch = batch
  None = None
  Sweeper = sweeper
  Main = lifespan
  Keys = {tts, sfx}
  Speech = {tts}
  Sparing = {}
  Batchable = {sfx}
  Procs = {p1, p2, p3}
  Requests = {host}
  Batches = {batch}
SYMMETRY ProcSymmetry
INVARIANTS TypeOK PoolServes SpeechAccounted OneSpeechWorker BusyIsServed NothingLeftBehind
\* The service may be down.
CHECK_DEADLOCK FALSE
