SPECIFICATION MCSpec
CONSTANTS
  Owners = {o1, o2}
  MaxEvents = 4
  Qty = 2
  Sessions = {s1, s2}
  Drafts = {d1, d2}
  NoDraft = NoDraft
  Symbol <- MCSymbol
  Controls <- MCControls
  Ledgers <- MCLedgers
  Charge <- MCCharge
  Limit <- MCLimit
  Skewed = {}
  Panels = {s1, s2}
  Prices = {1, 2, 3}
  NoPrice = NoPrice
  Entry = 2
  Plans <- MCPlans
  Settings <- MCSettings
  Signals = {"buy", "wait"}
  Unavailable = Unavailable
  None = None
  Day = 1
  Fresh = 0
  Hour = 0
  MaxRows = 4
  LastMoment = 1
  BatchSize = 1
SYMMETRY StoresSymmetry
INVARIANTS
  AtMostOnePost
  RejectedNeverAtBroker
  KnownFollowsBroker
  LoadIsNewest
  ReservationsCover
  AlertsAreKept
PROPERTIES
  ConfirmedNeverRegresses
  KeepsPromise
  ClaimsFitTheBudget
CHECK_DEADLOCK FALSE
