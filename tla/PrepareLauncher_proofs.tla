----------------------- MODULE PrepareLauncher_proofs -----------------------
(***************************************************************************)
(* PrepareQemu implements Launcher, for any number of devices and builds.  *)
(***************************************************************************)
EXTENDS PrepareQemu_proofs

(* the leases are the card's device and the image's, and neither is free    *)
LeaseHeld ==
  /\ Leased = (IF HoldsCard THEN {loopdevice} ELSE {})
                \cup (IF HoldsWic THEN {yoctoImage} ELSE {})
  /\ HoldsCard => loopdevice \in Loop /\ loop[loopdevice] = "card"
  /\ HoldsWic => yoctoImage \in Loop /\ loop[yoctoImage] = "wic"

(* ... at every line of the script *)
LEMMA LeaseType == Inv => LeaseHeld
<1> SUFFICES ASSUME Inv PROVE LeaseHeld
  OBVIOUS
<1>1. HoldsCard => loopdevice \in Loop /\ loop[loopdevice] = "card"
  BY DEF Inv, TypeOK, Lines, LoopInv, LoopsAccounted, HoldsCard
<1>2. HoldsWic => yoctoImage \in Loop /\ loop[yoctoImage] = "wic"
  BY DEF Inv, TypeOK, Lines, LoopInv, LoopsAccounted,
         HoldsCard, HoldsWic
<1>3. \A l \in Loop : l \in Leased <=> \/ HoldsCard /\ l = loopdevice
                                       \/ HoldsWic /\ l = yoctoImage
  BY DEF Leased
<1>4. Leased \subseteq Loop
  BY DEF Leased
<1> QED
  BY <1>1, <1>2, <1>3, <1>4, Zenon DEF LeaseHeld

(* what the run holds on a directory is there to be unmounted *)
LEMMA HeldMounted ==
  ASSUME Inv, NEW m \in Dir, HoldsMount(m), pc # 0
  PROVE  Mounted(m)
<1>1. mounts[m] = Append(mounts0[m], Own(m)) /\ mounts0[m] \in Seq(Loop)
  BY DEF Inv, TypeOK, MountInv, MountsAccounted, Accounted, MountTable
<1>2. Append(mounts0[m], Own(m)) # <<>>
  BY <1>1
<1> QED
  BY <1>1, <1>2 DEF Mounted

(* The commands from line 69 on find what they need: of those that must     *)
(* fail in the state they find, every one prepares the guest.               *)
LEMMA FailsPreparing == Inv /\ CommandFails => pc < 69
<1> SUFFICES ASSUME Inv, CommandFails PROVE pc < 69
  OBVIOUS
<1>a. /\ pc \in Lines /\ loop \in LoopTable /\ mounts0 \in MountTable
      /\ LeaseHeld
  BY LeaseType DEF Inv, TypeOK
<1>1. /\ pc = 75 => loop[loopdevice] # "free"
      /\ pc = 76 => loop[yoctoImage] # "free"
  BY <1>a DEF LeaseHeld, HoldsCard, HoldsWic
<1>2. /\ pc = 73 => Mounted("yoctomnt/boot")
      /\ pc = 74 => Mounted("yoctomnt/rootfs")
  BY HeldMounted DEF HoldsMount, Dir
<1> QED
  BY <1>a, <1>1, <1>2 DEF CommandFails, MustFail, Lines

(* A step that changes no device, no lease and no phase is none of a        *)
(* Launcher's; every other command, failure and act of the operator is one. *)
LEMMA StepRefines ==
  Inv /\ LeaseHeld /\ LeaseHeld' /\ [Next]_vars => [L!Next]_(L!vars)
<1> SUFFICES ASSUME Inv, LeaseHeld, LeaseHeld', [Next]_vars
             PROVE  [L!Next]_(L!vars)
  OBVIOUS
<1>a. loop \in LoopTable /\ pc \in Lines
  BY DEF Inv, TypeOK
<1> DEFINE Stutters == /\ Phase' = Phase /\ Leased' = Leased /\ loop' = loop
                       /\ faults' = faults
<1>b. Stutters => UNCHANGED L!vars
  BY DEF L!vars, Leaked
<1> USE DEF LeaseHeld, HoldsCard, HoldsWic, Goto, Exit, host, disks, work, run
<1>1. CASE Start
  BY <1>1 DEF Start, Phase, Leaked, L!Next, L!Begin
<1>2. CASE RmMnt \/ ImageExists \/ CreateImage \/ Cfdisk
  <2> Stutters
    BY <1>2 DEF RmMnt, ImageExists, CreateImage, Cfdisk, Phase
  <2> QED
    BY <1>b
<1>3. ASSUME NEW l \in Loop, AttachCard(l) PROVE L!Next
  <2>1. /\ Phase = "preparing" /\ Phase' = "preparing" /\ faults' = faults
        /\ Leased = {} /\ Leased' = {l}
    BY <1>3 DEF AttachCard, Phase
  <2>2. l \notin Leaked /\ Leaked' = Leaked
    BY <1>3, <1>a, <2>1 DEF AttachCard, Attach, LoopTable, Leaked
  <2> QED
    BY <2>1, <2>2 DEF L!Next, L!Acquire
<1>4. ASSUME NEW l \in Loop, NEW b \in Build, AttachWic(l, b) PROVE L!Next
  <2>1. /\ Phase = "preparing" /\ Phase' = "preparing" /\ faults' = faults
        /\ Leased = {loopdevice} /\ Leased' = {loopdevice, l}
    BY <1>4 DEF AttachWic, Phase
  <2>2. l # loopdevice /\ loop[l] = "free" /\ loop' = [loop EXCEPT ![l] = "wic"]
    BY <1>4, <2>1 DEF AttachWic, Attach
  <2>3. l \notin Leaked /\ Leaked' = Leaked
    BY <1>a, <2>1, <2>2 DEF LoopTable, Leaked
  <2> QED
    BY <2>1, <2>2, <2>3 DEF L!Next, L!Acquire
<1>5. CASE \/ Mkfs(29, 30, "boot") \/ Mkfs(30, 32, "rootfs")
           \/ CopyPart(49, 50, "boot") \/ CopyPart(50, 55, "rootfs")
  <2> Stutters
    BY <1>5 DEF Mkfs, CopyPart, Phase
  <2> QED
    BY <1>b
<1>6. CASE \/ MountPart(32, 33, loopdevice, "mnt/boot")
           \/ MountPart(33, 37, loopdevice, "mnt/rootfs")
           \/ MountPart(44, 45, yoctoImage, "yoctomnt/boot")
           \/ MountPart(45, 49, yoctoImage, "yoctomnt/rootfs")
  <2> Stutters
    BY <1>6 DEF MountPart, Phase
  <2> QED
    BY <1>b
<1>7. CASE RmYoctomnt \/ RmWic \/ Bunzip2 \/ ListWic \/ (\E d \in Deploys : Fetch(d))
  <2> Stutters
    BY <1>7 DEF RmYoctomnt, RmWic, Bunzip2, ListWic, Fetch, Phase
  <2> QED
    BY <1>b
<1>8. CASE \/ UmountPart(55, 56, "mnt/boot") \/ UmountPart(56, 60, "mnt/rootfs")
           \/ UmountPart(73, 74, "yoctomnt/boot")
           \/ UmountPart(74, 75, "yoctomnt/rootfs")
  <2>1. loop' = loop
    BY <1>8, OwnUmounts
  <2> Stutters
    BY <1>8, <2>1 DEF UmountPart, Phase
  <2> QED
    BY <1>b
<1>9. CASE StartQemu
  BY <1>9 DEF StartQemu, Phase, Leaked, L!Next, L!Boot
<1>10. CASE QemuExits
  BY <1>10 DEF QemuExits, Phase, Leaked, L!Next, L!Quit
<1>11. CASE DetachCard
  <2>1. /\ Phase = "cleaning" /\ Phase' = "cleaning" /\ faults' = faults
        /\ loopdevice # yoctoImage
        /\ Leased = {loopdevice, yoctoImage} /\ Leased' = {yoctoImage}
    BY <1>11 DEF DetachCard, Phase
  <2>2. loop' = [loop EXCEPT ![loopdevice] = "free"] /\ loopdevice \in Loop
    BY <1>11, OwnNotInUse DEF DetachCard, Detach, Gone
  <2>3. Leaked' = Leaked
    BY <1>a, <2>1, <2>2 DEF Leaked, LoopTable
  <2>4. Leased' = Leased \ {loopdevice}
    BY <2>1
  <2> QED
    BY <2>1, <2>2, <2>3, <2>4 DEF L!Next, L!Release
<1>12. CASE DetachWic
  <2>1. /\ Phase = "cleaning" /\ Phase' = "idle" /\ faults' = faults
        /\ yoctoImage \in Loop
        /\ Leased = {yoctoImage} /\ Leased' = {}
    BY <1>12 DEF DetachWic, Phase
  <2>2. loop' = [loop EXCEPT ![yoctoImage] = "free"]
    BY <1>12, OwnNotInUse DEF DetachWic, Detach, Gone
  <2>3. Leaked' = Leaked
    BY <1>a, <2>1, <2>2 DEF Leaked, LoopTable
  <2> QED
    BY <2>1, <2>3 DEF L!Next, L!Finish
<1>13. CASE \/ CommandFails \/ Fault \/ Decline
            \/ CopyFails(49, "boot") \/ CopyFails(50, "rootfs")
            \/ \E done \in SUBSET Build : Bunzip2Fails(done)
            \/ \E done \in SUBSET Build, b \in Build : FaultInFetch(done, b)
            \/ \E done \in SUBSET Build : FaultInBunzip2(done)
  <2>1. pc # 0 /\ pc' = 0 /\ loop' = loop
    <3>1. CASE CommandFails \/ Fault \/ Decline
               \/ CopyFails(49, "boot") \/ CopyFails(50, "rootfs")
      <4>1. pc # 0
        BY <3>1 DEF CommandFails, MustFail, Fault, Decline, CopyFails, Unprovoked
      <4> QED
        BY <3>1, <4>1 DEF CommandFails, Fault, Decline, CopyFails, Unprovoked
    <3>2. CASE \/ \E done \in SUBSET Build : Bunzip2Fails(done)
               \/ \E done \in SUBSET Build, b \in Build : FaultInFetch(done, b)
               \/ \E done \in SUBSET Build : FaultInBunzip2(done)
      BY <3>2 DEF Bunzip2Fails, FaultInFetch, FaultInBunzip2, Unprovoked
    <3> QED
      BY <1>13, <3>1, <3>2
  <2>2. Phase # "idle" /\ Phase' = "idle" /\ Leased' = {}
    BY <2>1 DEF Phase
  <2>3. Leaked \subseteq Leaked' /\ Leaked' \subseteq Leaked \cup Leased
    BY <2>1, <2>2 DEF Leaked
  <2>4. \/ Phase = "preparing" /\ faults' = faults
        \/ faults' = faults + 1
    <3>1. CASE CommandFails
      <4>1. pc < 69 /\ pc # 0 /\ pc # 69
        BY <1>a, <2>1, <3>1, FailsPreparing DEF Lines
      <4>2. faults' = faults
        BY <3>1 DEF CommandFails
      <4> QED
        BY <4>1, <4>2 DEF Phase
    <3>2. CASE Decline \/ CopyFails(49, "boot") \/ CopyFails(50, "rootfs")
      <4>1. pc \in {30, 49, 50} /\ faults' = faults
        BY <3>2 DEF Decline, CopyFails
      <4> QED
        BY <4>1 DEF Phase
    <3>3. CASE \E done \in SUBSET Build : Bunzip2Fails(done)
      BY <3>3 DEF Bunzip2Fails, Phase
    <3> QED
      BY <1>13, <3>1, <3>2, <3>3 DEF Fault, FaultInFetch, FaultInBunzip2, Unprovoked
  <2> QED
    BY <2>2, <2>3, <2>4 DEF L!Next, L!GiveUp, L!Fail, L!Leak
<1>14. CASE Reboot \/ (\E lost \in SUBSET Build : HostCrash(lost))
  <2>1. Phase' = "idle" /\ Leased' = {} /\ Leaked' = {}
    BY <1>14 DEF Reboot, HostCrash, Unprovoked, Phase, Leaked, AllFree
  <2>2. faults' = IF Phase = "idle" THEN faults ELSE faults + 1
    BY <1>14 DEF Reboot, HostCrash, Unprovoked, Phase
  <2> QED
    BY <2>1, <2>2 DEF L!Next, L!HostRestarts
<1>15. CASE \/ GuestWrites \/ (\E p \in Part : StaleWriteback(p)) \/ UNCHANGED vars
  <2> Stutters
    BY <1>15 DEF GuestWrites, StaleWriteback, vars, Phase
  <2> QED
    BY <1>b
<1>16. CASE (\E m \in Dir : OperatorUmount(m)) \/ (\E l \in Loop : OperatorDetach(l))
  <2>1. /\ Phase = "idle" /\ Phase' = "idle" /\ faults' = faults
        /\ Leased = {} /\ Leased' = {}
    BY <1>16 DEF OperatorUmount, OperatorDetach, Phase
  <2>2. \A l \in Loop : loop[l] = "free" => loop'[l] = "free"
    BY <1>16, <1>a DEF OperatorUmount, OperatorDetach, Umount, Detach, LoopTable
  <2>3. Leaked' \subseteq Leaked
    BY <2>1, <2>2 DEF Leaked
  <2> QED
    BY <2>1, <2>3 DEF L!Next, L!CleanUp
<1> QED
  BY <1>1, <1>2, <1>3, <1>4, <1>5, <1>6, <1>7, <1>8, <1>9, <1>10, <1>11, <1>12,
     <1>13, <1>14, <1>15, <1>16
  DEF Next, Script, Progress, MustEnd, Faults, Environment

(* The preparation script keeps a launcher's promise to the host: both its  *)
(* devices are leased, given back by lines 75 and 76 before it completes,   *)
(* and leaked only by a run that ends early; leaks of older runs are never  *)
(* touched.                                                                 *)
THEOREM PrepareIsLauncher == Spec => ImplementsLauncher
<1>1. Init => L!Init
  BY DEF Init, L!Init, Phase, Leased, Leaked, AllFree, HoldsCard, HoldsWic
<1> QED
  BY <1>1, InvInit, InvNext, LeaseType, StepRefines, PTL
  DEF Spec, ImplementsLauncher, L!Spec
=============================================================================
