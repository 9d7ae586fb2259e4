\* Two GPU jobs and a local one share the Broker and the process lock; one of them is
\* cancelled up to twice, so that the second may strike the finally block.
SPECIFICATION FairOneCanceled
CONSTANTS
  j1 = j1
  j2 = j2
  j3 = j3
  None = None
  Jobs = {j1, j2, j3}
  Hosted = {j1, j2}
  Owners = {j1}
  Gpu = {j1, j2}
  Exclusive = {j1}
  Prompted = {}
  Voiced = {}
  Exporting = {}
  HostCancels = {}
  Faulty = {}
  Cancelable = {j1, j3}
  MaxCancels = 2
  MaxStops = 0
PROPERTIES EveryJobEnds CancelTakesEffect LeaseComesBack
\* Every job may have ended: the system may stop.
CHECK_DEADLOCK FALSE
