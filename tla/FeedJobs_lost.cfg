SPECIFICATION CasesSpec
CONSTANTS
  worker = worker
  page = page
  other = other
  Worker = worker
  Sessions <- MCOnePage
  Refreshers <- MCBoth
  Crashing = {}
  MaxContent = 2
  MaxAged = 0
  MaxSaves = 2
  ana = ana
  ben = ben
  rita = rita
  Actors <- MCActors
  Role <- MCRole
  Browsers <- MCActors
  Who <- MCWho
  NoActor = NoActor
  Cases = {c1}
  MaxRevision = 3
  Processes = {worker, operator}
  Files = {today, extra}
  Folders = {restored}
  Absent = Absent
  Partial = Partial
  MaxCommits = 2
INVARIANT
  AlertIsCurrent
CHECK_DEADLOCK FALSE
