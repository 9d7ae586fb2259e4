\* j1 is a GPU job of a Host that fails, j2 a CPU job below a good Host.
SPECIFICATION Spec
CONSTANTS
  j1 = j1
  j2 = j2
  None = None
  Jobs = {j1, j2}
  Hosted = {j1, j2}
  Owners = {j1, j2}
  Gpu = {j1}
  Exclusive = {j1}
  Prompted = {j1}
  Voiced = {j1}
  Exporting = {j1}
  HostCancels = {j1}
  Faulty = {j1}
  Cancelable = {j1, j2}
  MaxCancels = 2
  MaxStops = 1
INVARIANTS SlotHeldByWork RowsMatchTasks TasksReachable HostAgrees
PROPERTIES EndedFinal
\* Every job may have ended: the system may stop.
CHECK_DEADLOCK FALSE
