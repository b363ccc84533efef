\* The pages that live in the client: what a load owes to those who wait.
SPECIFICATION FairSpec
CONSTANTS
  f1 = f1
  f2 = f2
  f3 = f3
  search = search
  hydrus = hydrus
  virtual = virtual
  d1 = d1
  File = {f1, f2}
  SearchPage = search
  HydrusPage = {}
  VirtualPage = {virtual}
  Lists <- TwoLists
  ChunkSize = 1
  YieldEvery = 2
  EagerLoadThreshold = 1
  HasAbortController = TRUE
  MaxRequests = 2
  Edited = {search, virtual}
  Demand = {d1}
INVARIANTS LoadingHasLoader FreshDemandsRealized
PROPERTIES LoadEnds DemandsSettle
\* The bound on the requests stops the client.
CHECK_DEADLOCK FALSE
