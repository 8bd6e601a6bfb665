SPECIFICATION MCSpec
CONSTANTS
  Loop = {l1, l2, l3}
  Build = {b1}
  Image = {r1}
  Has <- Whole
  Deploys <- OneDeploy
  Programs = {"qemu-system-arm64"}
SYMMETRY Symmetry
VIEW Forgetting
INVARIANTS LeasesKept MountsKept SessionNeutral GuestsConsistent
