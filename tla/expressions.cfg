\* Two files, one with a rating, and every expression of the instance.
SPECIFICATION Spec
CONSTANTS
  f1 = f1
  f2 = f2
  File = {f1, f2}
  Rated = {f1}
  Ident <- Idents
  Containing <- MCContaining
  Short <- MCShort
  Expr <- MCExpr
  Nesting <- MCNesting
  Written <- MCWritten
  TypesOf <- TypesForFile
  SuggestionsFor <- SuggestionsForFile
  Trees <- MCTrees
  Bookmarks <- MCBookmarks
  FirstPages = {"virtual", "hydrus"}
  StartLists <- MCStartLists
  MaxRuns = 1
INVARIANT ReadsAsMeant
PROPERTIES  FilterTakesRejected
CHECK_DEADLOCK FALSE
