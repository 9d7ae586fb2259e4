\* Two local jobs, one cancelled while the loop of its audio is built.
SPECIFICATION Spec
CONSTANTS
  j1 = j1
  j2 = j2
  None = None
  Jobs = {j1, j2}
  Hosted = {}
  Owners = {}
  Gpu = {}
  Exclusive = {}
  Prompted = {}
  Voiced = {}
  Exporting = {}
  HostCancels = {}
  Faulty = {}
  Cancelable = {j1, j2}
  MaxCancels = 1
  MaxStops = 0
INVARIANTS WithdrawnIsCanceled
\* Every job may have ended: the system may stop.
CHECK_DEADLOCK FALSE
