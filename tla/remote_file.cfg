\* Three chunks, the last one of a single byte, at most two in a request;
\* in a viewer of layers, two files, two toggles and a thumbnail.
SPECIFICATION PsdFairSpec
CONSTANTS
  FileSize = 5
  ChunkSize = 2
  MaximumRequestChunks = 2
  c1 = c1
  c2 = c2
  Call = {c1, c2}
  ReadSizes = {2, 5}
  MaxStream = 2
  Documents <- MCDocuments
  Header <- MCHeader
  Section <- MCSection
  Records <- MCRecords
  LayerData <- MCLayerData
  Reader = c1
  Prefetcher = c2
  MaxOpened = 2
  MaxToggles = 2
  MaxThumbs = 1
INVARIANTS ReadsAreFilled OneRequest ShowsWhatWasAsked
PROPERTY ViewersSettle
CHECK_DEADLOCK FALSE
