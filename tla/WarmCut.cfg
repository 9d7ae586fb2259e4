\* Two kept engines are idle when the Host asks for room.
SPECIFICATION Spec
CONSTANTS
  tts = tts
  music = music
  p1 = p1
  p2 = p2
  p3 = p3
  host = host
  batch = batch
  None = None
  Sweeper = sweeper
  Main = lifespan
  Keys = {tts, music}
  Speech = {tts}
  Sparing = {music}
  Batchable = {music}
  Procs = {p1, p2, p3}
  Requests = {host}
  Batches = {}
SYMMETRY ProcSymmetry
INVARIANTS RunningNotCut
\* The service may be down.
CHECK_DEADLOCK FALSE
