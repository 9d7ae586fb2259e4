\* j1 is a GPU job of the Host, j2 a local job, j3 one whose voice may be gone.
SPECIFICATION Spec
CONSTANTS
  j1 = j1
  j2 = j2
  j3 = j3
  None = None
  Jobs = {j1, j2, j3}
  Hosted = {j1}
  Owners = {j1}
  Gpu = {j1}
  Exclusive = {j1}
  Prompted = {j1}
  Voiced = {j3}
  Exporting = {j1, j2}
  HostCancels = {j1}
  Faulty = {}
  Cancelable = {j1, j2}
  MaxCancels = 2
  MaxStops = 1
INVARIANTS TypeOK WorkUnderLease DoneHoldsNothing LocalNamesItsEnd CancelNeverSucceeds
PROPERTIES ContractHolds
\* Every job may have ended: the system may stop.
CHECK_DEADLOCK FALSE
