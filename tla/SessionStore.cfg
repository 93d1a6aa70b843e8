\* Two processes, every kind of call, one crash.
SPECIFICATION FairSpec
CONSTANTS
  c1 = c1  c2 = c2
  run1 = run1  find1 = find1  sha1 = sha1  sha2 = sha2  fp1 = fp1
  None = None
  Writers = {c1, c2}
  Creator = c1
  ScalarFields <- MCFields
  Values = {fp1}
  RunIds = {run1}
  FindingIds = {find1}
  Digests = {sha1, sha2}
  Counts <- MCCounts
  Requests <- StoreRequests
  MaxAttempts = 1
  MaxEvents = 2
  MaxCrashes = 1
INVARIANT IInv
INVARIANT NothingRejected
INVARIANT FilesAnnounced
PROPERTY EveryCallEnds
PROPERTY LedgerSpec
CHECK_DEADLOCK FALSE
