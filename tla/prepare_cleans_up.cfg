SPECIFICATION Spec
CONSTANTS
  Loop = {l1, l2}
  Build = {b1}
  Image = {}
  Has <- Whole
  Deploys <- SingleDeploys
  MaxFaults = 0
INVARIANT CleansUpWhenFinished
