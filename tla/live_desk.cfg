SPECIFICATION FairSpec
CONSTANTS
  FeeNum = 0
  FeeDen = 1
  Registry <- MCRegistry
  SymOf <- MCSymOf
  Fixed <- MCFixed
  Prices = {1, 2}
  Start = 2
  MinOrder = 1
  MaxGross = 9
  MaxDrawdown = 3
  MaxSleeveDrawdown = 2
  TargetVol = 6
  Sigma <- MCSigma
  MinNotional = 2
  MaxNotional = 6
  Cov <- MCCov
  MaxVariance = 60
  Retries = 2
  Scripts <- MCScripts
  MaxTicks = 1
  MaxFaults = 1
  MaxEntries = 2
INVARIANT StopIsKept
PROPERTIES  LossIsCut
