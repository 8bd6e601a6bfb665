------------------------------ MODULE TwoRuns ------------------------------
(***************************************************************************)
(* prepare_Qemu.sh started twice in one working directory, in two          *)
(* terminals: nothing in it locks rootfs.img, ./mnt or ./yoctomnt. Both    *)
(* runs share the files and the host; each has its own place and its own   *)
(* shell variables. A command of one is atomic for the other.              *)
(***************************************************************************)
EXTENDS Disks

CONSTANT Deploys

VARIABLES
  img, bz2, torn, wic,                    \* the working directory
  apc, aloop, ayocto, aimage, afetched,   \* one run
  bpc, bloop, byocto, bimage, bfetched,   \* the other
  loop0, mounts0,                         \* history of both, not used here
  early   \* history: a run ended early since the host was started

A == INSTANCE PrepareQemu WITH
       MaxFaults <- 0, faults <- 0, pc <- apc,
       loopdevice <- aloop, yoctoImage <- ayocto, image <- aimage, fetched <- afetched
B == INSTANCE PrepareQemu WITH
       MaxFaults <- 0, faults <- 0, pc <- bpc,
       loopdevice <- bloop, yoctoImage <- byocto, image <- bimage, fetched <- bfetched

one == <<apc, aloop, ayocto, aimage, afetched>>
other == <<bpc, bloop, byocto, bimage, bfetched>>
directory == <<img, bz2, torn, wic, disks>>
vars == <<loop, mounts, directory, one, other, loop0, mounts0, early>>

(* The image has been made and partitioned: two runs that both find none    *)
(* (lines 13-23) are not modelled.                                          *)
Raw == [p \in Part |-> "raw"]
Init ==
  /\ apc = 0 /\ bpc = 0 /\ img = "present"
  /\ behind = [l \in Loop |-> "none"]
  /\ fs = [f \in File |-> Empty]
  /\ table = [f \in File |-> IF f = "card" THEN Raw ELSE Blank]
  /\ bz2 = {} /\ torn = {} /\ wic = {}
  /\ aloop = "none" /\ ayocto = "none" /\ aimage = {} /\ afetched = {}
  /\ bloop = "none" /\ byocto = "none" /\ bimage = {} /\ bfetched = {}
  /\ loop = AllFree /\ loop0 = AllFree
  /\ mounts = NoMounts /\ mounts0 = NoMounts
  /\ early = FALSE

-----------------------------------------------------------------------------
(* QEMU takes a lock on the image it writes to: the second one ends.        *)
LockedOut(here, there) == here = 60 /\ there = 69

(* Bound: after an early end nothing is started until the host is; what a   *)
(* run does on leftovers is the matter of PrepareQemu alone.                *)
MayStart(here) == here = 0 => ~early

One ==
  /\ \/ MayStart(apc) /\ ~LockedOut(apc, bpc) /\ A!Progress /\ UNCHANGED early
     \/ (A!MustEnd \/ A!Decline) /\ early' = TRUE
     \/ LockedOut(apc, bpc) /\ A!Exit /\ UNCHANGED <<loop, mounts, directory>> /\ early' = TRUE
     \/ A!GuestWrites /\ UNCHANGED early
     \/ (\E p \in Part : A!StaleWriteback(p)) /\ UNCHANGED early
  /\ UNCHANGED other

Other ==
  /\ \/ MayStart(bpc) /\ ~LockedOut(bpc, apc) /\ B!Progress /\ UNCHANGED early
     \/ (B!MustEnd \/ B!Decline) /\ early' = TRUE
     \/ LockedOut(bpc, apc) /\ B!Exit /\ UNCHANGED <<loop, mounts, directory>> /\ early' = TRUE
     \/ B!GuestWrites /\ UNCHANGED early
     \/ (\E p \in Part : B!StaleWriteback(p)) /\ UNCHANGED early
  /\ UNCHANGED one

Restart ==
  /\ bpc = 0 /\ A!Reboot /\ UNCHANGED other
  /\ early' = FALSE

Next == One \/ Other \/ Restart

Spec == Init /\ [][Next]_vars

-----------------------------------------------------------------------------
(* Properties. *)

Runs(m) == (IF A!HoldsMount(m) THEN 1 ELSE 0) + (IF B!HoldsMount(m) THEN 1 ELSE 0)

(* The runs unmount whatever is newest, the other's mount as like as not.   *)
(* Still, while none has ended early, each directory has as many mounts as  *)
(* there are runs between their mount and their umount of it, and each run  *)
(* finds its devices attached until it detaches them.                       *)
NoneLost ==
  ~early =>
    /\ \A m \in Dir : Len(mounts[m]) = Runs(m)
    /\ A!HoldsCard => loop[aloop] = "card"
    /\ B!HoldsCard => loop[bloop] = "card"
    /\ A!HoldsWic => loop[ayocto] = "wic"
    /\ B!HoldsWic => loop[byocto] = "wic"

(* The host is clean when both runs have completed, although either may     *)
(* have detached a device with the other's mount still on it.               *)
GivenBackTogether ==
  ~early /\ apc = 0 /\ bpc = 0 => loop = AllFree /\ mounts = NoMounts
=============================================================================
