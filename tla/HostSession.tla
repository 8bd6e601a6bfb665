----------------------------- MODULE HostSession -----------------------------
(***************************************************************************)
(* Both launch scripts of 06_yocto_qemu on one host, each in a terminal of *)
(* its own, and an operator who cleans up while they run. Their files are  *)
(* apart; the loop devices are not, and what a script holds of a device    *)
(* between two commands is no more than its name in a shell variable. When *)
(* losetup -D has taken the device, the name may stand for a file of the   *)
(* other script, and the script formats and mounts that one.               *)
(***************************************************************************)
EXTENDS Disks

CONSTANTS Deploys,    \* of prepare_Qemu.sh
          Programs    \* of run_Qemu-raspian.sh

ASSUME DeployAssumption == Deploys \subseteq SUBSET Build

VARIABLES
  pc, img, bz2, torn, wic, loopdevice, yoctoImage,        \* prepare_Qemu.sh
  pimage, fetched, loop0, mounts0,
  rpc, images, size, directory, raspiosImage, image,      \* run_Qemu-raspian.sh
  dtb, kernel, rloop0, rmounts0,
  swept,   \* history: losetup -D came in between while a script was running
  lost,    \* history: the scripts a device was taken from before they used it
  early    \* history: a run ended early since the host was started

(* no unprovoked failures here: each script has them in a module of its own *)
P == INSTANCE PrepareQemu WITH MaxFaults <- 0, faults <- 0, image <- pimage
R == INSTANCE RunRaspian WITH MaxFaults <- 0, faults <- 0, pc <- rpc,
                              loop0 <- rloop0, mounts0 <- rmounts0

host == <<loop, mounts>>
prepare == <<pc, img, bz2, torn, wic,
             loopdevice, yoctoImage, pimage, fetched, loop0, mounts0>>
raspian == <<rpc, images, size, directory, raspiosImage, image,
             dtb, kernel, rloop0, rmounts0>>
vars == <<host, disks, prepare, raspian, swept, lost, early>>

Init == P!Init /\ R!Init /\ swept = FALSE /\ lost = {} /\ early = FALSE

Idle == pc = 0 /\ rpc = 0

(* Devices that the next commands format or mount. A device that is mounted *)
(* already does not go before it is unmounted.                              *)
PAwaits == {l \in Loop : \/ pc \in {29, 30, 32} /\ l = loopdevice
                         \/ pc = 44 /\ l = yoctoImage}
RAwaits == {l \in Loop : rpc = 16 /\ l = raspiosImage}
Taken(l) == loop'[l] = "free"

(* Once no script runs, no name is left that could be out of date. What a   *)
(* run of prepare_Qemu.sh that lost its device did to a release stays.      *)
Remember(sweeping) ==
  /\ swept' = (~Idle' /\ (swept \/ sweeping))
  /\ lost' = {s \in lost : s = "raspian" \/ pc' # 0}
             \cup (IF \E l \in PAwaits : Taken(l) THEN {"prepare", "raspian"} ELSE {})
             \cup (IF \E l \in RAwaits : Taken(l) THEN {"raspian"} ELSE {})

-----------------------------------------------------------------------------
Prepare ==
  /\ \/ P!Progress /\ UNCHANGED early
     \/ (P!MustEnd \/ P!Decline) /\ early' = TRUE
     \/ P!GuestWrites /\ UNCHANGED early
     \/ (\E p \in Part : P!StaleWriteback(p)) /\ UNCHANGED early
  /\ UNCHANGED raspian
  /\ Remember(FALSE)

Raspian ==
  /\ \/ R!Progress /\ UNCHANGED early
     \/ R!CommandFails /\ early' = TRUE
     \/ R!MakeDirectory /\ UNCHANGED early
     \/ (\E i \in Image : R!Download(i) \/ R!Delete(i)) /\ UNCHANGED early
  /\ UNCHANGED prepare
  /\ Remember(FALSE)

-----------------------------------------------------------------------------
(* The operator, at any time. *)

Named == {loopdevice, yoctoImage, raspiosImage} \ {"none"}

Operate == Forget /\ UNCHANGED <<prepare, raspian>>

(* what runs that have ended left on a directory no script is using *)
OperatorUmount(m) ==
  /\ IF m = "raspios/boot" THEN rpc = 0 ELSE pc = 0
  /\ Umount(m)
  /\ Operate /\ Remember(FALSE)
  /\ UNCHANGED early

(* ... or attached to a device no script is using *)
OperatorDetach(l) ==
  /\ l \notin Named
  /\ Detach(l)
  /\ Operate /\ Remember(FALSE)
  /\ UNCHANGED <<mounts, early>>

(* losetup -D asks nobody *)
Sweep ==
  /\ DetachAll
  /\ Operate /\ Remember(TRUE)
  /\ UNCHANGED <<mounts, early>>

Reboot ==
  /\ Idle
  /\ loop' = AllFree /\ mounts' = NoMounts
  /\ Operate /\ Remember(FALSE)
  /\ early' = FALSE

-----------------------------------------------------------------------------
Operator ==
  \/ \E m \in Dir : OperatorUmount(m)
  \/ \E l \in Loop : OperatorDetach(l)
  \/ Sweep \/ Reboot

Next == Prepare \/ Raspian \/ Operator

Spec == Init /\ [][Next]_vars

-----------------------------------------------------------------------------
(* Properties. *)

(* However the two interleave: unless losetup -D comes in between, every    *)
(* device a script has in a variable is attached to the script's own file,  *)
(* so neither formats, mounts or detaches what is the other's.              *)
LeasesKept ==
  ~swept => /\ P!HoldsCard => loop[loopdevice] = "card"
            /\ P!HoldsWic => loop[yoctoImage] = "wic"
            /\ 15 < rpc /\ rpc <= 27 => loop[raspiosImage] = "raspios"

(* ... and whatever the other script, the operator and losetup -D do, on    *)
(* the directories of a script are the mounts it found there and, on top,   *)
(* its own: so each umount takes the script's own.                          *)
MountsKept ==
  /\ pc # 0 => \A m \in Dir \ {"raspios/boot"} : P!Accounted(m)
  /\ rpc # 0 => mounts["raspios/boot"] =
       IF 16 < rpc /\ rpc <= 26 THEN Append(rmounts0["raspios/boot"], raspiosImage)
                                ELSE rmounts0["raspios/boot"]

(* Devices of the one and the other come and go between attach and detach,  *)
(* in any order: while no run has ended early, the host is clean whenever   *)
(* no script runs. Not even losetup -D makes a run that completes leave     *)
(* anything.                                                                *)
SessionNeutral == Idle /\ ~early => loop = AllFree /\ mounts = NoMounts

(* Only a device taken between its losetup and its mount can get a guest    *)
(* booted with a kernel that is not its drive's: neither the other script,  *)
(* nor what runs left behind, nor losetup -D at any other moment does.      *)
GuestsConsistent ==
  /\ "prepare" \notin lost => P!BootsFetchedBuild
  /\ "raspian" \notin lost => R!KernelMatchesDrive
=============================================================================
