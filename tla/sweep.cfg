SPECIFICATION FairSpec
CONSTANTS
  w1 = w1
  w2 = w2
  main = main
  Procs <- MCProcs
  Signals <- MCSignals
  Expr <- MCExpr
  Reads <- MCReads
  Bad <- MCBad
  Cols = {"close"}
  Versions = {1, 2}
  SizeOf <- MCSize
  MemItems = 2
  MemBytes = 4
  Leftovers <- MCLeftovers
  Parent = main
  Tasks <- MCTasks
  MaxSweeps = 2
  MaxDeaths = 1
  MaxFailed = 1
INVARIANTS FiledUnderItsAddress BudgetKept FailuresStayPut
PROPERTIES NeverTears SweepEnds Refines
CHECK_DEADLOCK FALSE
