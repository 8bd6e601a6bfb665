SPECIFICATION FairSpec
CONSTANTS
  Loop = {l1, l2, l3}
  Build = {b1, b2}
  Image = {}
  Has <- Whole
  Deploys <- SingleDeploys
  MaxFaults = 1
PROPERTY RetriesRecover
