SPECIFICATION FairSpec
CONSTANTS
  MaxFaults = 3
  MaxRequests = 1
PROPERTIES
  ReportTruthful PassIdempotent OldWorkerKept Settles ImplementsPromise
