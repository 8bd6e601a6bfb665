SPECIFICATION Spec
CONSTANTS
  Loop = {l1, l2, l3, l4}
  Build = {b1, b2}
  Image = {}
  Has <- Whole
  Deploys <- AnyDeploys
  MaxFaults = 1
SYMMETRY Symmetry
INVARIANTS TypeOK HostAccounted BootsFetchedBuild
PROPERTIES CompletedRunIsNeutral ImplementsLauncher
