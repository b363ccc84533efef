\* One page that is shown with three lists, and one operation.
SPECIFICATION GridFairSpec
CONSTANTS
  f1 = f1
  f2 = f2
  f3 = f3
  Key = {p1}
  File = {f1, f2, f3}
  Lists <- PageLists
  OpKinds = {"similar", "tags", "best", "copy", "zip", "sauce", "manage", "better", "upload"}
  MaxOps = 1
  MaxUploads = 2
PROPERTIES ActiveStaysSelected ToastsGo
CHECK_DEADLOCK FALSE
