SPECIFICATION MCSpec
CONSTANTS
  Owners = {o1}
  MaxEvents = 1
  Qty = 2
  Sessions = {s1}
  Drafts = {d1, d2}
  NoDraft = NoDraft
  Symbol <- MCSymbol
  Controls <- MCControls
  Ledgers <- MCLedgers
  Charge <- MCCharge
  Limit <- MCLimit
  Skewed = {s1}
  Panels = {p1}
  Prices = {1}
  NoPrice = NoPrice
  Entry = 2
  Plans <- MCPlans
  Settings <- MCSettings
  Signals = {"buy", "wait"}
  Unavailable = Unavailable
  None = None
  Day = 1
  Fresh = 0
  Hour = 0
  MaxRows = 1
  LastMoment = 0
  BatchSize = 1
INVARIANTS
  ReservationsCoverAll
CHECK_DEADLOCK FALSE
