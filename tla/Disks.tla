-------------------------------- MODULE Disks --------------------------------
(***************************************************************************)
(* The files the launch scripts attach to loop devices, and what is in     *)
(* their two partitions. A script never names a partition by its file:     *)
(* it formats and mounts partition 1 or 2 of whatever file is behind the   *)
(* device that a shell variable names.                                     *)
(***************************************************************************)
EXTENDS Host, FiniteSets

CONSTANTS Build,   \* Yocto builds, each one archive ../*.wic.bz2
          Image,   \* Raspberry Pi OS releases, each one file ./2*.img
          Has      \* Has[x]: what build or release x comes with

Part == {"boot", "rootfs"}       \* partitions 1 and 2

(* the partitions, the files the scripts name, and whether the contents of  *)
(* a partition fit on the partition the operator made for them              *)
Features == Part \cup {"b.dtb", "b-plus.dtb", "kernel8.img", "boot fits", "rootfs fits"}
Fits == [boot |-> "boot fits", rootfs |-> "rootfs fits"]

(* rootfs.img, the releases, and one unpacked Yocto image for each device:  *)
(* line 39 of prepare_Qemu.sh unlinks it, but it stays behind its device    *)
File == {"none", "card"} \cup Image \cup Loop

(* whose files a partition holds *)
Origin == Build \cup Image \cup {"guest", "corrupt"}

ASSUME FileAssumption == /\ {"none", "card"} \cap (Loop \cup Image) = {}
                         /\ Loop \cap Image = {}
ASSUME OriginAssumption == {"none", "guest", "corrupt"} \cap (Build \cup Image) = {}
ASSUME HasAssumption == Has \in [Build \cup Image -> SUBSET Features]

VARIABLES behind,  \* behind[l]: the file behind loop device l
          fs,      \* fs[f][p]: whose files partition p of file f holds
          table    \* table[f][p]: partition p of f is "missing", "raw" or "formatted"

disks == <<behind, fs, table>>

PartOf == [m \in Dir |-> IF m \in {"mnt/boot", "yoctomnt/boot", "raspios/boot"}
                         THEN "boot" ELSE "rootfs"]

Empty == [p \in Part |-> {}]
Blank == [p \in Part |-> "missing"]

(* a build or a release as it comes *)
Contents(x) == [p \in Part |-> IF p \in Has[x] THEN {x} ELSE {}]
Layout(x) == [p \in Part |-> IF p \in Has[x] THEN "formatted" ELSE "missing"]

DisksInit ==
  /\ behind = [l \in Loop |-> "none"]
  /\ fs = [f \in File |-> IF f \in Image THEN Contents(f) ELSE Empty]
  /\ table = [f \in File |-> IF f \in Image THEN Layout(f) ELSE Blank]

(* well typed, and nothing is behind a device that is free *)
DisksOK ==
  /\ behind \in [Loop -> File]
  /\ fs \in [File -> [Part -> SUBSET Origin]]
  /\ table \in [File -> [Part -> {"missing", "raw", "formatted"}]]
  /\ fs["none"] = Empty /\ table["none"] = Blank
  /\ \A l \in Loop : loop[l] = "free" <=> behind[l] = "none"

-----------------------------------------------------------------------------
(* what DEVICEpN is *)
Partition(l, p) == table[behind[l]][p]

(* mkfs refuses a partition that is mounted from this device *)
Busy(l, p) ==
  \E m \in Dir : PartOf[m] = p /\ \E i \in DOMAIN mounts[m] : mounts[m][i] = l

(* the file whose partition a directory shows, and whose files are in it    *)
At(m) == IF Mounted(m) THEN behind[Visible(m)] ELSE "none"
Shown(m) == fs[At(m)][PartOf[m]]

(* rm -rf descends into what is mounted below, empties it, and only then    *)
(* fails to remove the busy directory                                       *)
Emptied(D) ==
  [f \in File |-> [p \in Part |->
     IF \E m \in D : At(m) = f /\ PartOf[m] = p THEN {} ELSE fs[f][p]]]

(* cp -r SOURCE/* m/: into the file mounted on m; files copied into a bare  *)
(* directory are in no file                                                 *)
Copied(from, m) ==
  [f \in File |-> [p \in Part |->
     IF f # "none" /\ f = At(m) /\ p = PartOf[m] THEN fs[f][p] \cup from
     ELSE fs[f][p]]]

(* nothing is behind a device that is gone, and an unlinked image with it   *)
Released(f) == f \in Loop /\ loop'[f] = "free"
Remaining == [f \in File |-> IF Released(f) THEN Empty ELSE fs[f]]
Unlink ==
  /\ behind' = [l \in Loop |-> IF Released(l) THEN "none" ELSE behind[l]]
  /\ table' = [f \in File |-> IF Released(f) THEN Blank ELSE table[f]]
Forget == Unlink /\ fs' = Remaining

(* ... and rootfs.img, cut off while it was being written to                *)
ForgetCorrupting ==
  /\ Unlink
  /\ fs' = [Remaining EXCEPT !["card"] = [p \in Part |-> @[p] \cup {"corrupt"}]]
=============================================================================
