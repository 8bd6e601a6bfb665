SPECIFICATION Spec
CONSTANTS
  Loop = {l1, l2, l3}
  Build = {}
  Image <- Releases
  Has <- Deficient
  Programs = {"qemu-system-aarch64", "qemu-system-arm64"}
  MaxFaults = 1
SYMMETRY Symmetry
INVARIANTS TypeOK KernelMatchesDrive HostAccounted
PROPERTY ImplementsLauncher
