SPECIFICATION MCSpec
CONSTANTS
  s1 = s1
  s2 = s2
  ana = ana
  ben = ben
  g1 = g1
  g2 = g2
  t1 = t1
  t2 = t2
  t3 = t3
  Claims <- MCClaims
  Authorized <- MCClaims
  Accounts = {a1, a2}
  Settings = {1, 2}
  MaxData = 2
  MaxEntries = 2
  Access <- MCAccess
  Presses <- MCPresses
  Signals = {g1, g2}
  Buys = {g1, g2}
  DayEnds <- MCDayEnds
  Given = {"ledger", "nav", "orders", "catalogue", "wealth", "closings"}
  MaxGiven = 3
  Temporary = Temporary
  Bare = Bare
  Example = Example
  Nothing = Nothing
  Cuts = {1}
  MaxVersion = 2
  MaxRuns = 1
  Minute = 2
  Fresh = 3
  MaxEvents = 3
  MaxTime = 5
  Sessions = {s1, s2}
  Owners = {ana, ben}
  Nobody = Nobody
  NoRow = NoRow
  Tickers <- MCTickers
  Legacy <- MCLegacy
  Day = 7
  Open = 1
  Close = 3
  Settle = 1
  Recent = 1
  MaxAge = 1
  LastTick = 20
  Prices = {2, 4, 5, 8}
  ATR = 1
  MaxHold = 2
  Bars = 5
SYMMETRY Symmetry
INVARIANTS
  NothingOfAnotherIdentity
  ShownIsOfTheInputs
  WorkIsOfItsAccount
  JournalKeepsItsRules
  SignalsUseFinalCandles
PROPERTIES
  DraftsAreReadFirst
  TradesKeepTheRules
CHECK_DEADLOCK FALSE
