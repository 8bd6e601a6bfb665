SPECIFICATION Spec
CONSTANTS
  Loop = {l1}
  Build = {}
  Image = {"whole"}
  Has <- Deficient
  Programs = {"qemu-system-arm", "qemu-system-aarch64"}
  MaxFaults = 0
PROPERTY StartsQemu
