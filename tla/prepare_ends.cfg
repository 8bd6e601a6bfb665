SPECIFICATION Spec
CONSTANTS
  Loop = {l1, l2}
  Build <- Builds
  Image = {}
  Has <- Deficient
  Deploys <- SomeDeploys
  MaxFaults = 1
SYMMETRY LoopSymmetry
VIEW EndsView
PROPERTY EndsForAReason
