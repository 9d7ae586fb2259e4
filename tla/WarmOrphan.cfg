\* Music in a small budget, then music without one.
SPECIFICATION Spec
CONSTANTS
  tts = tts
  music = music
  p1 = p1
  p2 = p2
  p3 = p3
  host = host
  batch = batch
  None = None
  Sweeper = sweeper
  Main = lifespan
  Keys = {tts, music}
  Speech = {tts}
  Sparing = {music}
  Batchable = {music}
  Procs = {p1, p2, p3}
  Requests = {host}
  Batches = {}
SYMMETRY ProcSymmetry
INVARIANTS KeptStaysSwept
\* The service may be down.
CHECK_DEADLOCK FALSE
