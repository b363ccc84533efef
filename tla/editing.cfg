\* Every modal, on two files, with one model, one job and the settings.
SPECIFICATION AutotagFairSpec
CONSTANTS
  f1 = f1
  f2 = f2
  t1 = t1
  u1 = u1
  n1 = n1
  a = a
  File = {f1, f2}
  Service = {s1}
  Tag = {t1}
  Url = {u1}
  Note = {n1}
  Text = {a}
  NoText = NoText
  Kinds = {"tags", "urls", "notes", "import", "batch"}
  StartMeta <- OneFileOfTwo
  MaxOpens = 1
  Model = {m1}
  InitialModels = {m1}
  Rating = {t1}
  MaxJobs = 1
  MaxSettings = 2
INVARIANT ListedHasModel
PROPERTIES SavedAsShown SubmittingEnds CancelStopsEdits JobsEnd
CHECK_DEADLOCK FALSE
