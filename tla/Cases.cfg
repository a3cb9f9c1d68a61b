SPECIFICATION CasesSpec
CONSTANTS
  worker = worker
  page = page
  other = other
  Worker = worker
  Sessions <- MCTwoPages
  Refreshers <- MCWorkerOnly
  Crashing <- MCTwoPages
  MaxContent = 2
  MaxAged = 1
  MaxSaves = 2
  ana = ana
  ben = ben
  rita = rita
  Actors <- MCActors
  Role <- MCRole
  Browsers <- MCActors
  Who <- MCWho
  NoActor = NoActor
  Cases = {c1}
  MaxRevision = 3
  Processes = {worker, operator}
  Files = {today, extra}
  Folders = {restored}
  Absent = Absent
  Partial = Partial
  MaxCommits = 2
INVARIANTS
  AlertIsCurrent
  ReviewedByTwoOthers
  ReviewsAreOfTheContent
  BundlesAreWhole
PROPERTIES
  ClosedStaysClosed
  DataNeverGoesBack
  ProgrammingIsKept
  OneAlertPerChange
  FailureIsTold
  BundlesStay
CHECK_DEADLOCK FALSE
