\* Requests that overtake one another, on the search page and a Hydrus page.
SPECIFICATION Spec
CONSTANTS
  f1 = f1
  f2 = f2
  f3 = f3
  search = search
  hydrus = hydrus
  virtual = virtual
  d1 = d1
  File = {f1, f2, f3}
  SearchPage = search
  HydrusPage = {hydrus}
  VirtualPage = {}
  Lists <- LongList
  ChunkSize = 1
  YieldEvery = 3
  EagerLoadThreshold = 1
  HasAbortController = TRUE
  MaxRequests = 2
  Edited = {}
  Demand = {}
INVARIANTS LoadedMatchesIds OneLiveLoader LoaderShowsItsList
PROPERTY ImplementsPageView
\* The bound on the requests stops the client.
CHECK_DEADLOCK FALSE
