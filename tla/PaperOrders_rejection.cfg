SPECIFICATION Spec
CONSTANTS
  Qty = 1
  Sessions = {s1, s2}
  Drafts = {d1, d2}
  NoDraft = NoDraft
  BatchSize = 10
PROPERTIES
  RejectionsStayClosed
CHECK_DEADLOCK FALSE
