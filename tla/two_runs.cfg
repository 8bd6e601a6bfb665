SPECIFICATION Spec
CONSTANTS
  Loop = {l1, l2, l3, l4}
  Build = {b1, b2}
  Image = {}
  Has <- Whole
  Deploys <- SingleDeploys
SYMMETRY Symmetry
VIEW Forgetting
INVARIANTS NoneLost GivenBackTogether
