SPECIFICATION FairServerSpec
CONSTANTS
  MaxVersion = 3
  MaxQueued = 2
  Devices = {1}
  Certificates = {1, 2}
  Source <- OneSource
INVARIANTS
  RequestedSaveScheduled
  StopWritesPending
  StopKeepsRequests
  MarkedIsComplete
PROPERTIES
  ImplementsDurableStore
  RequestReachesDisk
