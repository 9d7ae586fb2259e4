\* A hosted CPU job whose report of running is cut off by a cancellation.
SPECIFICATION Spec
CONSTANTS
  j1 = j1
  None = None
  Jobs = {j1}
  Hosted = {j1}
  Owners = {j1}
  Gpu = {}
  Exclusive = {}
  Prompted = {}
  Voiced = {}
  Exporting = {}
  HostCancels = {}
  Faulty = {}
  Cancelable = {j1}
  MaxCancels = 1
  MaxStops = 0
INVARIANTS JobNamesItsEnd
\* Every job may have ended: the system may stop.
CHECK_DEADLOCK FALSE
