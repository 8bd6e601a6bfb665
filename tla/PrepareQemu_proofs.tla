------------------------- MODULE PrepareQemu_proofs -------------------------
(***************************************************************************)
(* Theorems about PrepareQemu, for any number of loop devices and builds.  *)
(***************************************************************************)
EXTENDS PrepareQemu, Host_proofs, SequenceTheorems, TLAPS

-----------------------------------------------------------------------------
(* Type correctness. The shell variables name devices at every line that   *)
(* uses them: without this, line 32 could mount what is no device.         *)

(* what line 49, 50 or 60 reads *)
LEMMA SourceType ==
  ASSUME TypeOK, NEW p \in Part
  PROVE  /\ Source(p) \in SUBSET Origin
         /\ Yoctomnt[p] \in Dir /\ PartOf[Yoctomnt[p]] = p
         /\ Mnt[p] \in Dir /\ PartOf[Mnt[p]] = p
<1>1. /\ Yoctomnt[p] \in Dir /\ PartOf[Yoctomnt[p]] = p
      /\ Mnt[p] \in Dir /\ PartOf[Mnt[p]] = p
  BY DEF Part, Yoctomnt, Mnt, Dir, PartOf
<1> QED
  BY <1>1, AtFile DEF Source, TypeOK

(* before the first run *)
LEMMA TypeInit == Init => TypeOK
<1> SUFFICES ASSUME Init PROVE TypeOK
  OBVIOUS
<1>1. DisksOK
  BY DisksBegin DEF Init
<1> QED
  BY <1>1, EmptyTables, FaultAssumption DEF Init, TypeOK, Lines

(* the files: nothing is ever behind a device that is free *)
LEMMA DisksNext == TypeOK /\ [Next]_vars => DisksOK'
<1> SUFFICES ASSUME TypeOK, [Next]_vars PROVE DisksOK'
  OBVIOUS
<1>a. /\ DisksOK /\ loop \in LoopTable /\ mounts \in MountTable
      /\ fs \in FsType /\ fs["none"] = Empty
      /\ table \in TableType /\ table["none"] = Blank
      /\ pc \in Lines
  BY DEF TypeOK, DisksOK, FsType, TableType
<1>s. UNCHANGED <<loop, disks>> => DisksOK'
  BY <1>a, DisksStay
<1>w. ASSUME UNCHANGED <<loop, behind, table>>, fs' \in FsType, fs'["none"] = Empty
      PROVE  DisksOK'
  BY <1>a, <1>w, DisksWritten
<1>f. ASSUME Forget \/ ForgetCorrupting, \A l \in Loop : loop[l] = "free" => loop'[l] = "free"
      PROVE  DisksOK'
  BY <1>a, <1>f, DisksForgotten
<1> USE DEF Goto, host, disks, work, run
<1>1. CASE Start \/ ImageExists \/ CreateImage
  BY <1>1, <1>s DEF Start, ImageExists, CreateImage
<1>2. CASE RmMnt \/ RmYoctomnt
  <2>1. \A D \in SUBSET Dir : Emptied(D) \in FsType /\ Emptied(D)["none"] = Empty
    BY <1>a, EmptiedType
  <2> QED
    BY <1>2, <1>w, <2>1 DEF RmMnt, RmYoctomnt, Dir
<1>3. CASE Cfdisk
  <2>1. table' \in TableType /\ table'["none"] = Blank
    BY <1>3, <1>a, FilesApart DEF Cfdisk, TableType
  <2> QED
    BY <1>3, <1>a, <2>1, DisksWritten DEF Cfdisk
<1>4. ASSUME NEW l \in Loop, AttachCard(l) PROVE DisksOK'
  BY <1>4, <1>a, FilesApart, DisksAttached DEF AttachCard
<1>5. ASSUME NEW l \in Loop, NEW b \in Build, AttachWic(l, b) PROVE DisksOK'
  <2>1. l \in File \ {"none"}
    BY FilesApart
  <2>2. fs' \in FsType /\ fs'["none"] = Empty /\ table' \in TableType /\ table'["none"] = Blank
    BY <1>5, <1>a, <2>1, ContentsType DEF AttachWic, FsType, TableType
  <2> QED
    BY <1>5, <1>a, <2>1, <2>2, DisksAttached DEF AttachWic
<1>6. ASSUME NEW p \in Part, NEW from \in {29, 30}, NEW to, Mkfs(from, to, p) PROVE DisksOK'
  <2>1. loopdevice \in Loop
    BY <1>6 DEF Mkfs, TypeOK
  <2> QED
    BY <1>6, <1>a, <2>1, Formatted, DisksWritten DEF Mkfs
<1>7. CASE \/ MountPart(32, 33, loopdevice, "mnt/boot")
           \/ MountPart(33, 37, loopdevice, "mnt/rootfs")
           \/ MountPart(44, 45, yoctoImage, "yoctomnt/boot")
           \/ MountPart(45, 49, yoctoImage, "yoctomnt/rootfs")
  BY <1>7, <1>s DEF MountPart
<1>8. CASE RmWic \/ Bunzip2 \/ ListWic \/ (\E d \in Deploys : Fetch(d))
  BY <1>8, <1>s DEF RmWic, Bunzip2, ListWic, Fetch
<1>9. ASSUME NEW p \in Part, NEW line, NEW to, CopyPart(line, to, p) \/ CopyFails(line, p)
      PROVE  DisksOK'
  <2>1. Copied(Source(p), Mnt[p]) \in FsType /\ Copied(Source(p), Mnt[p])["none"] = Empty
    BY <1>a, SourceType, CopiedType
  <2> QED
    BY <1>9, <1>a, <1>w, <2>1 DEF CopyPart, CopyFails
<1>10. ASSUME NEW from \in {55, 56, 73, 74}, NEW to, NEW m \in Dir, UmountPart(from, to, m)
       PROVE  DisksOK'
  BY <1>10, <1>a, <1>f, UmountFrees DEF UmountPart
<1>11. CASE StartQemu \/ QemuExits
  BY <1>11, <1>s DEF StartQemu, QemuExits
<1>12. CASE GuestWrites
  BY <1>12, <1>a, <1>w, FilesApart, PartWritten DEF GuestWrites, Part, Origin
<1>13. CASE DetachCard \/ DetachWic
  BY <1>13, <1>a, <1>f DEF DetachCard, DetachWic, Detach, LoopTable
<1>14. CASE CommandFails \/ Decline \/ Fault
  BY <1>14, <1>s DEF CommandFails, Decline, Fault
<1>15. CASE \/ \E done \in SUBSET Build : Bunzip2Fails(done)
            \/ \E done \in SUBSET Build, b \in Build : FaultInFetch(done, b)
            \/ \E done \in SUBSET Build : FaultInBunzip2(done)
  BY <1>15, <1>s DEF Bunzip2Fails, FaultInFetch, FaultInBunzip2
<1>16. ASSUME NEW lost \in SUBSET Build, HostCrash(lost) PROVE DisksOK'
  BY <1>16, <1>f DEF HostCrash, AllFree
<1>17. ASSUME NEW p \in Part, StaleWriteback(p) PROVE DisksOK'
  BY <1>17, <1>a, <1>w, FilesApart, PartWritten DEF StaleWriteback, Origin
<1>18. ASSUME NEW m \in Dir, OperatorUmount(m) PROVE DisksOK'
  BY <1>18, <1>a, <1>f, UmountFrees DEF OperatorUmount
<1>19. ASSUME NEW l \in Loop, OperatorDetach(l) PROVE DisksOK'
  BY <1>19, <1>a, <1>f DEF OperatorDetach, Detach, LoopTable
<1>20. CASE Reboot
  BY <1>20, <1>f DEF Reboot, AllFree
<1>21. CASE UNCHANGED vars
  BY <1>21, <1>s DEF vars
<1> QED
  BY <1>1, <1>2, <1>3, <1>4, <1>5, <1>6, <1>7, <1>8, <1>9, <1>10, <1>11,
     <1>12, <1>13, <1>14, <1>15, <1>16, <1>17, <1>18, <1>19, <1>20, <1>21
  DEF Next, Script, Progress, MustEnd, Faults, Environment, Dir, Part

(* every command, failure and act of the operator keeps the types *)
LEMMA TypeNext == TypeOK /\ [Next]_vars => TypeOK'
<1> SUFFICES ASSUME TypeOK, [Next]_vars PROVE TypeOK'
  OBVIOUS
<1>d. DisksOK'
  BY DisksNext
<1> USE EmptyTables, <1>d
    DEF TypeOK, Lines, Goto, Exit, host, disks, work, run
<1>1. CASE Start \/ RmMnt \/ ImageExists \/ CreateImage \/ Cfdisk
  BY <1>1 DEF Start, RmMnt, ImageExists, CreateImage, Cfdisk
<1>2. ASSUME NEW l \in Loop, AttachCard(l) PROVE TypeOK'
  BY <1>2, LoopTypes DEF AttachCard
<1>3. CASE Mkfs(29, 30, "boot") \/ Mkfs(30, 32, "rootfs")
  BY <1>3 DEF Mkfs
<1>4. CASE MountPart(32, 33, loopdevice, "mnt/boot")
  BY <1>4, MountTypes DEF MountPart, Dir
<1>5. CASE MountPart(33, 37, loopdevice, "mnt/rootfs")
  BY <1>5, MountTypes DEF MountPart, Dir
<1>6. CASE RmYoctomnt \/ RmWic \/ Bunzip2 \/ ListWic
  BY <1>6 DEF RmYoctomnt, RmWic, Bunzip2, ListWic
<1>7. ASSUME NEW d \in Deploys, Fetch(d) PROVE TypeOK'
  BY <1>7, DeployAssumption DEF Fetch
<1>8. ASSUME NEW l \in Loop, NEW b \in Build, AttachWic(l, b) PROVE TypeOK'
  BY <1>8, LoopTypes DEF AttachWic
<1>9. CASE MountPart(44, 45, yoctoImage, "yoctomnt/boot")
  BY <1>9, MountTypes DEF MountPart, Dir
<1>10. CASE MountPart(45, 49, yoctoImage, "yoctomnt/rootfs")
  BY <1>10, MountTypes DEF MountPart, Dir
<1>11. CASE CopyPart(49, 50, "boot") \/ CopyPart(50, 55, "rootfs")
  BY <1>11 DEF CopyPart
<1>12. ASSUME NEW from \in {55, 56, 73, 74}, NEW to \in {56, 60, 74, 75},
              NEW m \in Dir, UmountPart(from, to, m)
       PROVE  TypeOK'
  BY <1>12, MountTypes DEF UmountPart
<1>13. CASE StartQemu \/ GuestWrites \/ QemuExits
  BY <1>13 DEF StartQemu, GuestWrites, QemuExits
<1>14. CASE DetachCard \/ DetachWic
  BY <1>14, LoopTypes DEF DetachCard, DetachWic
<1>15. CASE CommandFails \/ Decline \/ Fault \/ CopyFails(49, "boot") \/ CopyFails(50, "rootfs")
  BY <1>15, FaultAssumption DEF CommandFails, Decline, Fault, Unprovoked, CopyFails
<1>16. ASSUME NEW done \in SUBSET Build, Bunzip2Fails(done) PROVE TypeOK'
  BY <1>16 DEF Bunzip2Fails
<1>17. ASSUME NEW done \in SUBSET Build, NEW b \in Build, FaultInFetch(done, b)
       PROVE  TypeOK'
  BY <1>17, FaultAssumption DEF FaultInFetch, Unprovoked
<1>18. ASSUME NEW done \in SUBSET Build, FaultInBunzip2(done) PROVE TypeOK'
  BY <1>18, FaultAssumption DEF FaultInBunzip2, Unprovoked
<1>19. ASSUME NEW p \in Part, StaleWriteback(p) PROVE TypeOK'
  BY <1>19 DEF StaleWriteback
<1>20. ASSUME NEW m \in Dir, OperatorUmount(m) PROVE TypeOK'
  BY <1>20, MountTypes DEF OperatorUmount
<1>21. ASSUME NEW l \in Loop, OperatorDetach(l) PROVE TypeOK'
  BY <1>21, LoopTypes DEF OperatorDetach
<1>22. CASE Reboot
  BY <1>22 DEF Reboot
<1>23. CASE UNCHANGED vars
  BY <1>23 DEF vars
<1>24. ASSUME NEW lost \in SUBSET Build, HostCrash(lost) PROVE TypeOK'
  BY <1>24, FaultAssumption DEF HostCrash, Unprovoked
<1> HIDE DEF TypeOK
<1> QED
  BY <1>1, <1>2, <1>3, <1>4, <1>5, <1>6, <1>7, <1>8, <1>9, <1>10, <1>11,
     <1>12, <1>13, <1>14, <1>15, <1>16, <1>17, <1>18, <1>19, <1>20, <1>21,
     <1>22, <1>23, <1>24
  DEF Next, Script, Progress, MustEnd, Faults, Environment, Dir

(* Whatever fails, is killed or is left behind, the state is well typed,    *)
(* and the variables name devices wherever the script uses "$loopdevice"    *)
(* and "$yoctoImage".                                                       *)
THEOREM TypeCorrect == Spec => []TypeOK
  BY TypeInit, TypeNext, PTL DEF Spec

-----------------------------------------------------------------------------
(* The loop devices. A device a run attaches was free when the run began,   *)
(* and the image's is another one than the card's: so lines 75 and 76 give  *)
(* each device back as it was.                                              *)
LoopInv ==
  pc # 0 =>
    /\ LoopsAccounted
    /\ HoldsCard => loop0[loopdevice] = "free"
    /\ HoldsWic => loop0[yoctoImage] = "free"
    /\ HoldsCard /\ HoldsWic => loopdevice # yoctoImage

(* The mounts, each directory accounted for on its own. *)
MountInv == pc # 0 => MountsAccounted

(* The kernel's bookkeeping, now and when the run began: what is being      *)
(* detached lazily is mounted, what is free is not.                         *)
SoundInv == Sound(loop, mounts) /\ Sound(loop0, mounts0)

Inv == TypeOK /\ SoundInv /\ LoopInv /\ MountInv

-----------------------------------------------------------------------------
(* What the run finds when it gives devices back. *)

(* From line 75 on nothing of the run is mounted. *)
LEMMA MountsGivenBack ==
  ASSUME TypeOK, MountInv, pc \in {75, 76}
  PROVE  mounts = mounts0
<1>1. ASSUME NEW m \in Dir PROVE mounts[m] = mounts0[m]
  <2>1. Accounted(m) /\ ~HoldsMount(m)
    BY DEF MountInv, MountsAccounted, HoldsMount
  <2> QED
    BY <2>1, Zenon DEF Accounted
<1> QED
  BY <1>1 DEF TypeOK, MountTable

(* ... so that its devices are free at once when they are detached.         *)
LEMMA OwnNotInUse ==
  ASSUME Inv, pc \in {75, 76}
  PROVE  /\ pc = 75 => ~InUse(loopdevice)
         /\ ~InUse(yoctoImage)
<1>1. mounts = mounts0
  BY MountsGivenBack DEF Inv
<1>2. \A l \in Loop : loop0[l] = "free" => ~InUse(l)
  BY <1>1 DEF Inv, SoundInv, Sound, InUse
<1> QED
  BY <1>2 DEF Inv, TypeOK, LoopInv, HoldsCard, HoldsWic

(* The umounts of the run disturb no device, not even one that is closing:  *)
(* what keeps that one busy is a mount of an older run.                     *)
LEMMA OwnUmount ==
  ASSUME Inv, pc # 0, NEW d \in Dir, HoldsMount(d), Umount(d)
  PROVE  loop' = loop
<1>a. /\ loop \in LoopTable /\ mounts \in MountTable /\ mounts0 \in MountTable
      /\ pc \in Lines /\ LoopsAccounted
  BY DEF Inv, TypeOK, LoopInv
<1>b. \A m \in Dir : Own(m) \in Loop \/ ~HoldsMount(m)
  BY <1>a DEF Inv, TypeOK, Own, HoldsMount, HoldsCard, HoldsWic, Dir, Lines
<1>1. ASSUME NEW m \in Dir
      PROVE  \/ mounts'[m] = mounts0[m]
             \/ mounts'[m] = Append(mounts0[m], Own(m)) /\ Own(m) \in Loop
  <2>1. Accounted(m)
    BY DEF Inv, MountInv, MountsAccounted
  <2>2. CASE m = d
    <3>1. mounts'[d] = SubSeq(mounts[d], 1, Len(mounts[d]) - 1)
      BY <1>a DEF Umount, MountTable
    <3>2. mounts[d] = Append(mounts0[d], Own(d)) /\ Own(d) \in Loop
      BY <1>b, <2>1, <2>2, Zenon DEF Accounted
    <3>3. mounts0[d] \in Seq(Loop)
      BY <1>a DEF MountTable
    <3> QED
      BY <2>2, <3>1, <3>2, <3>3, UmountUndoesMount, Zenon
  <2>3. CASE m # d
    <3>1. mounts'[m] = mounts[m]
      BY <1>a, <2>3 DEF Umount, MountTable
    <3> QED
      BY <1>b, <2>1, <3>1, Zenon DEF Accounted
  <2> QED
    BY <2>2, <2>3
<1>2. ASSUME NEW l \in Loop, Uses(mounts0, l) PROVE Uses(mounts', l)
  <2>0. PICK m \in Dir : \E i \in DOMAIN mounts0[m] : mounts0[m][i] = l
    BY <1>2 DEF Uses
  <2>1. PICK i \in DOMAIN mounts0[m] : mounts0[m][i] = l
    BY <2>0
  <2>2. mounts0[m] \in Seq(Loop)
    BY <1>a DEF MountTable
  <2>3. \A s \in Seq(Loop), k \in Loop :
          \A j \in DOMAIN s : j \in DOMAIN Append(s, k) /\ Append(s, k)[j] = s[j]
    BY AppendProperties
  <2>4. i \in DOMAIN mounts'[m] /\ mounts'[m][i] = l
    <3>1. CASE mounts'[m] = mounts0[m]
      BY <2>1, <3>1
    <3>2. CASE mounts'[m] = Append(mounts0[m], Own(m)) /\ Own(m) \in Loop
      <4>1. /\ i \in DOMAIN Append(mounts0[m], Own(m))
            /\ Append(mounts0[m], Own(m))[i] = l
        BY <2>1, <2>2, <2>3, <3>2
      <4> QED
        BY <3>2, <4>1
    <3> QED
      BY <1>1, <3>1, <3>2
  <2> QED
    BY <2>4 DEF Uses
<1>3. ASSUME NEW l \in Loop, loop[l] = "closing" PROVE Uses(mounts', l)
  <2>1. loop0[l] = "closing"
    BY <1>a, <1>3 DEF LoopsAccounted
  <2> QED
    BY <1>2, <2>1 DEF Inv, SoundInv, Sound
<1> QED
  BY <1>3, <1>a DEF Umount, LoopTable

(* The four umounts of the script, and the mount each finds. *)
LEMMA OwnUmounts ==
  ASSUME Inv,
         \/ UmountPart(55, 56, "mnt/boot") \/ UmountPart(56, 60, "mnt/rootfs")
         \/ UmountPart(73, 74, "yoctomnt/boot")
         \/ UmountPart(74, 75, "yoctomnt/rootfs")
  PROVE  loop' = loop
<1>1. ASSUME NEW d \in Dir, HoldsMount(d), Umount(d), pc # 0 PROVE loop' = loop
  BY <1>1, OwnUmount
<1> QED
  BY <1>1 DEF UmountPart, Goto, HoldsMount, Dir

-----------------------------------------------------------------------------
(* Each part of Inv is preserved. *)

(* whatever is attached, mounted, unmounted or detached, the kernel keeps   *)
(* its books                                                                *)
LEMMA SoundInvNext == Inv /\ [Next]_vars => SoundInv'
<1> SUFFICES ASSUME Inv, [Next]_vars PROVE SoundInv'
  OBVIOUS
<1>a. /\ loop \in LoopTable /\ mounts \in MountTable
      /\ Sound(loop, mounts) /\ Sound(loop0, mounts0) /\ Sound(AllFree, NoMounts)
      /\ pc \in Lines /\ (pc > 27 => loopdevice \in Loop) /\ (pc > 43 => yoctoImage \in Loop)
  BY SoundEmpty DEF Inv, SoundInv, TypeOK
<1> USE DEF SoundInv, Goto, Exit, host, disks, work, run
<1> DEFINE Now == Sound(loop', mounts')
           Then == \/ loop0' = loop0 /\ mounts0' = mounts0
                   \/ loop0' = loop /\ mounts0' = mounts
                   \/ loop0' = AllFree /\ mounts0' = NoMounts
<1>b. Now /\ Then => SoundInv'
  BY <1>a
<1>1. CASE Start
  BY <1>1, <1>a DEF Start
<1>2. ASSUME NEW l \in Loop, AttachCard(l) PROVE Now /\ Then
  BY <1>2, <1>a, SoundAttach DEF AttachCard
<1>3. ASSUME NEW l \in Loop, NEW b \in Build, AttachWic(l, b) PROVE Now /\ Then
  BY <1>3, <1>a, SoundAttach DEF AttachWic
<1>4. CASE DetachCard
  <2>1. loopdevice \in Loop
    BY <1>4, <1>a DEF DetachCard, HoldsCard
  <2> QED
    BY <1>4, <1>a, <2>1, SoundDetach DEF DetachCard
<1>5. CASE DetachWic
  <2>1. yoctoImage \in Loop
    BY <1>5, <1>a DEF DetachWic, HoldsWic
  <2> QED
    BY <1>5, <1>a, <2>1, SoundDetach DEF DetachWic
<1>6. ASSUME NEW from \in {32, 33, 44, 45}, NEW to, NEW l \in Loop, NEW m \in Dir,
             MountPart(from, to, l, m)
      PROVE  Now /\ Then
  BY <1>6, <1>a, SoundMount DEF MountPart
<1>7. CASE \/ MountPart(32, 33, loopdevice, "mnt/boot")
           \/ MountPart(33, 37, loopdevice, "mnt/rootfs")
           \/ MountPart(44, 45, yoctoImage, "yoctomnt/boot")
           \/ MountPart(45, 49, yoctoImage, "yoctomnt/rootfs")
  <2>1. /\ pc \in {32, 33} => loopdevice \in Loop
        /\ pc \in {44, 45} => yoctoImage \in Loop
    BY <1>a DEF HoldsCard, HoldsWic
  <2>2. /\ MountPart(32, 33, loopdevice, "mnt/boot") => pc = 32
        /\ MountPart(33, 37, loopdevice, "mnt/rootfs") => pc = 33
        /\ MountPart(44, 45, yoctoImage, "yoctomnt/boot") => pc = 44
        /\ MountPart(45, 49, yoctoImage, "yoctomnt/rootfs") => pc = 45
    BY DEF MountPart
  <2> QED
    BY <1>6, <1>7, <1>b, <2>1, <2>2 DEF Dir
<1>8. ASSUME NEW from, NEW to, NEW m \in Dir, UmountPart(from, to, m)
      PROVE  Now /\ Then
  BY <1>8, <1>a, SoundUmount DEF UmountPart
<1>9. CASE RmMnt \/ ImageExists \/ CreateImage \/ Cfdisk
  BY <1>9, <1>a DEF RmMnt, ImageExists, CreateImage, Cfdisk
<1>10. CASE RmYoctomnt \/ RmWic \/ Bunzip2 \/ ListWic \/ (\E d \in Deploys : Fetch(d))
  BY <1>10, <1>a DEF RmYoctomnt, RmWic, Bunzip2, ListWic, Fetch
<1>11. CASE \/ Mkfs(29, 30, "boot") \/ Mkfs(30, 32, "rootfs")
            \/ CopyPart(49, 50, "boot") \/ CopyPart(50, 55, "rootfs")
  BY <1>11, <1>a DEF Mkfs, CopyPart
<1>12. CASE StartQemu \/ GuestWrites \/ QemuExits
  BY <1>12, <1>a DEF StartQemu, GuestWrites, QemuExits
<1>13. CASE CommandFails \/ Fault \/ Decline
           \/ CopyFails(49, "boot") \/ CopyFails(50, "rootfs") \/ (\E done \in SUBSET Build : Bunzip2Fails(done))
  BY <1>13, <1>a DEF CommandFails, Fault, Decline, CopyFails, Unprovoked, Bunzip2Fails
<1>14. CASE \/ \E done \in SUBSET Build, b \in Build : FaultInFetch(done, b)
            \/ \E done \in SUBSET Build : FaultInBunzip2(done)
            \/ \E lost \in SUBSET Build : HostCrash(lost)
  BY <1>14, <1>a DEF FaultInFetch, FaultInBunzip2, HostCrash, Unprovoked
<1>15. CASE (\E p \in Part : StaleWriteback(p)) \/ UNCHANGED vars
  BY <1>15, <1>a DEF StaleWriteback, vars
<1>16. ASSUME NEW m \in Dir, OperatorUmount(m) PROVE Now /\ Then
  BY <1>16, <1>a, SoundUmount DEF OperatorUmount
<1>17. ASSUME NEW l \in Loop, OperatorDetach(l) PROVE Now /\ Then
  BY <1>17, <1>a, SoundDetach DEF OperatorDetach
<1>18. CASE Reboot
  BY <1>18, <1>a DEF Reboot
<1> HIDE DEF SoundInv, Now, Then
<1> QED
  BY <1>b, <1>1, <1>2, <1>3, <1>4, <1>5, <1>7, <1>8, <1>9, <1>10, <1>11,
     <1>12, <1>13, <1>14, <1>15, <1>16, <1>17, <1>18
  DEF Next, Script, Progress, MustEnd, Faults, Environment, Dir

(* lines 27, 43, 75 and 76 change the loop table; nothing else does in a run *)
LEMMA LoopInvNext == Inv /\ [Next]_vars => LoopInv'
<1> SUFFICES ASSUME Inv, [Next]_vars PROVE LoopInv'
  OBVIOUS
<1>a. TypeOK /\ LoopInv
  BY DEF Inv
<1> USE <1>a DEF TypeOK, LoopInv, LoopsAccounted, LoopTable,
            HoldsCard, HoldsWic, Goto, Exit, host, disks, work, run
<1>1. CASE Start
  BY <1>1 DEF Start
<1>2. ASSUME NEW l \in Loop, AttachCard(l) PROVE LoopInv'
  BY <1>2 DEF AttachCard, Attach
<1>3. ASSUME NEW l \in Loop, NEW b \in Build, AttachWic(l, b) PROVE LoopInv'
  BY <1>3 DEF AttachWic, Attach
<1>4. CASE DetachCard
  <2>1. ~InUse(loopdevice)
    BY <1>4, OwnNotInUse DEF DetachCard
  <2> QED
    BY <1>4, <2>1 DEF DetachCard, Detach, Gone
<1>5. CASE DetachWic \/ CommandFails \/ Fault \/ Decline
           \/ CopyFails(49, "boot") \/ CopyFails(50, "rootfs")
  BY <1>5 DEF DetachWic, CommandFails, Fault, Decline, CopyFails, Unprovoked
<1>6. CASE \/ \E done \in SUBSET Build : Bunzip2Fails(done)
           \/ \E done \in SUBSET Build, b \in Build : FaultInFetch(done, b)
           \/ \E done \in SUBSET Build : FaultInBunzip2(done)
           \/ \E lost \in SUBSET Build : HostCrash(lost)
  BY <1>6 DEF Bunzip2Fails, FaultInFetch, FaultInBunzip2, HostCrash, Unprovoked
<1>7. CASE RmMnt \/ ImageExists \/ CreateImage \/ Cfdisk
  BY <1>7 DEF RmMnt, ImageExists, CreateImage, Cfdisk
<1>8. CASE RmYoctomnt \/ RmWic \/ Bunzip2 \/ ListWic \/ (\E d \in Deploys : Fetch(d))
  BY <1>8 DEF RmYoctomnt, RmWic, Bunzip2, ListWic, Fetch
<1>9. CASE \/ Mkfs(29, 30, "boot") \/ Mkfs(30, 32, "rootfs")
           \/ CopyPart(49, 50, "boot") \/ CopyPart(50, 55, "rootfs")
  BY <1>9 DEF Mkfs, CopyPart
<1>10. CASE \/ MountPart(32, 33, loopdevice, "mnt/boot")
            \/ MountPart(33, 37, loopdevice, "mnt/rootfs")
            \/ MountPart(44, 45, yoctoImage, "yoctomnt/boot")
            \/ MountPart(45, 49, yoctoImage, "yoctomnt/rootfs")
  BY <1>10 DEF MountPart
<1>11. CASE \/ UmountPart(55, 56, "mnt/boot") \/ UmountPart(56, 60, "mnt/rootfs")
            \/ UmountPart(73, 74, "yoctomnt/boot")
            \/ UmountPart(74, 75, "yoctomnt/rootfs")
  <2>1. loop' = loop
    BY <1>11, OwnUmounts
  <2> QED
    BY <1>11, <2>1 DEF UmountPart
<1>12. CASE StartQemu \/ GuestWrites \/ QemuExits
  BY <1>12 DEF StartQemu, GuestWrites, QemuExits
<1>13. CASE (\E p \in Part : StaleWriteback(p)) \/ UNCHANGED vars
  BY <1>13 DEF StaleWriteback, vars
<1>14. CASE \/ \E m \in Dir : OperatorUmount(m)
            \/ \E l \in Loop : OperatorDetach(l)
            \/ Reboot
  BY <1>14 DEF OperatorUmount, OperatorDetach, Reboot
<1> HIDE DEF TypeOK, LoopInv
<1> QED
  BY <1>1, <1>2, <1>3, <1>4, <1>5, <1>6, <1>7, <1>8, <1>9, <1>10, <1>11,
     <1>12, <1>13, <1>14
  DEF Next, Script, Progress, MustEnd, Faults, Environment

(* A step that leaves directory m alone, and what the run holds of it.      *)
Undisturbed(m) == /\ mounts'[m] = mounts[m]
                  /\ mounts0' = mounts0
                  /\ HoldsMount(m)' <=> HoldsMount(m)
                  /\ HoldsMount(m) => Own(m)' = Own(m)

(* ... and what it leaves alone stays accounted for *)
LEMMA MountFrame ==
  ASSUME NEW m \in Dir, Accounted(m), Undisturbed(m)
  PROVE  Accounted(m)'
<1> USE DEF Undisturbed
<1>1. CASE HoldsMount(m)
  <2>1. mounts[m] = Append(mounts0[m], Own(m))
    BY <1>1 DEF Accounted
  <2>2. mounts'[m] = Append(mounts0'[m], Own(m)')
    BY <1>1, <2>1, Zenon
  <2> QED
    BY <1>1, <2>2, Zenon DEF Accounted
<1>2. CASE ~HoldsMount(m)
  BY <1>2, Zenon DEF Accounted
<1> QED
  BY <1>1, <1>2

(* A mount on top of what the run found. *)
LEMMA MountOwn ==
  ASSUME mounts \in MountTable, NEW d \in Dir, NEW l, Mount(l, d), mounts0' = mounts0,
         Accounted(d), ~HoldsMount(d), HoldsMount(d)', Own(d)' = l
  PROVE  Accounted(d)'
<1>1. mounts'[d] = Append(mounts[d], l)
  BY DEF Mount, MountTable
<1>2. mounts[d] = mounts0[d]
  BY Zenon DEF Accounted
<1> QED
  BY <1>1, <1>2, Zenon DEF Accounted

(* Its unmount. *)
LEMMA UmountOwn ==
  ASSUME mounts \in MountTable, mounts0 \in MountTable,
         NEW d \in Dir, Umount(d), mounts0' = mounts0,
         Accounted(d), HoldsMount(d), ~HoldsMount(d)', Own(d) \in Loop
  PROVE  Accounted(d)'
<1>1. mounts'[d] = SubSeq(mounts[d], 1, Len(mounts[d]) - 1)
  BY DEF Umount, MountTable
<1>2. mounts[d] = Append(mounts0[d], Own(d))
  BY Zenon DEF Accounted
<1>3. mounts0[d] \in Seq(Loop)
  BY DEF MountTable
<1>4. mounts'[d] = mounts0[d]
  BY <1>1, <1>2, <1>3, UmountUndoesMount, Zenon
<1> QED
  BY <1>4, Zenon DEF Accounted

(* every directory stays accounted for, one at a time *)
LEMMA MountInvNext == TypeOK /\ MountInv /\ [Next]_vars => MountInv'
<1> SUFFICES ASSUME TypeOK, MountInv, [Next]_vars, pc' # 0, NEW m \in Dir
             PROVE  Accounted(m)'
  BY DEF MountInv, MountsAccounted
<1> DEFINE Quiet == pc # 0 /\ Undisturbed(m)
<1>a. /\ mounts \in MountTable /\ mounts0 \in MountTable
      /\ pc # 0 => Accounted(m)
  BY DEF TypeOK, MountInv, MountsAccounted
<1>b. pc \in Lines /\ (pc > 27 => loopdevice \in Loop) /\ (pc > 43 => yoctoImage \in Loop)
  BY DEF TypeOK
<1>c. Quiet => Accounted(m)'
  BY <1>a, MountFrame
<1> USE DEF Undisturbed, HoldsMount, Own, Goto, Exit, host, disks, work, run
<1>1. CASE Start
  BY <1>1 DEF Start, Accounted
<1>2. ASSUME NEW l \in Loop, AttachCard(l) PROVE Quiet
  BY <1>2 DEF AttachCard
<1>3. ASSUME NEW l \in Loop, NEW b \in Build, AttachWic(l, b) PROVE Quiet
  BY <1>3 DEF AttachWic
<1>4. CASE MountPart(32, 33, loopdevice, "mnt/boot")
  <2>1. CASE m = "mnt/boot"
    BY <1>4, <1>a, <2>1, MountOwn DEF MountPart
  <2>2. m # "mnt/boot" => Quiet
    BY <1>4, <1>a DEF MountPart, Mount, MountTable
  <2> QED
    BY <1>c, <2>1, <2>2
<1>5. CASE MountPart(33, 37, loopdevice, "mnt/rootfs")
  <2>1. CASE m = "mnt/rootfs"
    BY <1>5, <1>a, <2>1, MountOwn DEF MountPart
  <2>2. m # "mnt/rootfs" => Quiet
    BY <1>5, <1>a DEF MountPart, Mount, MountTable
  <2> QED
    BY <1>c, <2>1, <2>2
<1>6. CASE MountPart(44, 45, yoctoImage, "yoctomnt/boot")
  <2>1. CASE m = "yoctomnt/boot"
    BY <1>6, <1>a, <2>1, MountOwn DEF MountPart
  <2>2. m # "yoctomnt/boot" => Quiet
    BY <1>6, <1>a DEF MountPart, Mount, MountTable
  <2> QED
    BY <1>c, <2>1, <2>2
<1>7. CASE MountPart(45, 49, yoctoImage, "yoctomnt/rootfs")
  <2>1. CASE m = "yoctomnt/rootfs"
    BY <1>7, <1>a, <2>1, MountOwn DEF MountPart
  <2>2. m # "yoctomnt/rootfs" => Quiet
    BY <1>7, <1>a DEF MountPart, Mount, MountTable
  <2> QED
    BY <1>c, <2>1, <2>2
<1>8. CASE UmountPart(55, 56, "mnt/boot")
  <2>1. CASE m = "mnt/boot"
    BY <1>8, <1>a, <1>b, <2>1, UmountOwn
    DEF UmountPart, Lines
  <2>2. m # "mnt/boot" => Quiet
    BY <1>8, <1>a DEF UmountPart, Umount, MountTable
  <2> QED
    BY <1>c, <2>1, <2>2
<1>9. CASE UmountPart(56, 60, "mnt/rootfs")
  <2>1. CASE m = "mnt/rootfs"
    BY <1>9, <1>a, <1>b, <2>1, UmountOwn
    DEF UmountPart, Lines
  <2>2. m # "mnt/rootfs" => Quiet
    BY <1>9, <1>a DEF UmountPart, Umount, MountTable
  <2> QED
    BY <1>c, <2>1, <2>2
<1>10. CASE UmountPart(73, 74, "yoctomnt/boot")
  <2>1. CASE m = "yoctomnt/boot"
    BY <1>10, <1>a, <1>b, <2>1, UmountOwn
    DEF UmountPart, Lines
  <2>2. m # "yoctomnt/boot" => Quiet
    BY <1>10, <1>a DEF UmountPart, Umount, MountTable
  <2> QED
    BY <1>c, <2>1, <2>2
<1>11. CASE UmountPart(74, 75, "yoctomnt/rootfs")
  <2>1. CASE m = "yoctomnt/rootfs"
    BY <1>11, <1>a, <1>b, <2>1, UmountOwn
    DEF UmountPart, Lines
  <2>2. m # "yoctomnt/rootfs" => Quiet
    BY <1>11, <1>a DEF UmountPart, Umount, MountTable
  <2> QED
    BY <1>c, <2>1, <2>2
<1>12. CASE RmMnt \/ ImageExists \/ CreateImage \/ Cfdisk
  <2> Quiet
    BY <1>12 DEF RmMnt, ImageExists, CreateImage, Cfdisk
  <2> QED
    BY <1>c
<1>13. CASE RmYoctomnt \/ RmWic \/ Bunzip2 \/ ListWic \/ (\E d \in Deploys : Fetch(d))
  <2> Quiet
    BY <1>13 DEF RmYoctomnt, RmWic, Bunzip2, ListWic, Fetch
  <2> QED
    BY <1>c
<1>14. CASE \/ Mkfs(29, 30, "boot") \/ Mkfs(30, 32, "rootfs")
            \/ CopyPart(49, 50, "boot") \/ CopyPart(50, 55, "rootfs")
  <2> Quiet
    BY <1>14 DEF Mkfs, CopyPart
  <2> QED
    BY <1>c
<1>15. CASE StartQemu \/ GuestWrites \/ QemuExits \/ DetachCard
  <2> Quiet
    BY <1>15 DEF StartQemu, GuestWrites, QemuExits, DetachCard
  <2> QED
    BY <1>c
<1>16. CASE DetachWic \/ CommandFails \/ Fault \/ Decline
           \/ CopyFails(49, "boot") \/ CopyFails(50, "rootfs")
  BY <1>16 DEF DetachWic, CommandFails, Fault, Decline, CopyFails, Unprovoked
<1>17. CASE \/ \E done \in SUBSET Build : Bunzip2Fails(done)
            \/ \E done \in SUBSET Build, b \in Build : FaultInFetch(done, b)
            \/ \E done \in SUBSET Build : FaultInBunzip2(done)
            \/ \E lost \in SUBSET Build : HostCrash(lost)
  BY <1>17 DEF Bunzip2Fails, FaultInFetch, FaultInBunzip2, HostCrash, Unprovoked
<1>18. CASE (\E p \in Part : StaleWriteback(p)) \/ UNCHANGED vars
  <2> Quiet
    BY <1>18 DEF StaleWriteback, vars
  <2> QED
    BY <1>c
<1>19. CASE \/ \E d \in Dir : OperatorUmount(d)
            \/ \E l \in Loop : OperatorDetach(l)
            \/ Reboot
  BY <1>19 DEF OperatorUmount, OperatorDetach, Reboot
<1> HIDE DEF Quiet
<1> QED
  BY <1>c, <1>1, <1>2, <1>3, <1>4, <1>5, <1>6, <1>7, <1>8, <1>9, <1>10, <1>11,
     <1>12, <1>13, <1>14, <1>15, <1>16, <1>17, <1>18, <1>19
  DEF Next, Script, Progress, MustEnd, Faults, Environment

-----------------------------------------------------------------------------
LEMMA InvNext == Inv /\ [Next]_vars => Inv'
  BY TypeNext, SoundInvNext, LoopInvNext, MountInvNext DEF Inv

LEMMA InvInit == Init => Inv
  BY TypeInit, SoundEmpty DEF Init, Inv, SoundInv, LoopInv, MountInv

(* the host half of the argument, for every reachable state *)
LEMMA InvHolds == Spec => []Inv
  BY InvInit, InvNext, PTL DEF Spec

(* At every line of every run, devices and mounts are those the run found   *)
(* plus exactly its own, whatever older runs left behind.                   *)
THEOREM AccountsForHost == Spec => []HostAccounted
<1>1. Inv => HostAccounted
  BY DEF Inv, LoopInv, MountInv, HostAccounted
<1> QED
  BY <1>1, InvHolds, PTL

(* a run that nothing kills ends where the script says so *)
LEMMA EndSteps ==
  ASSUME TypeOK, [Next]_vars, pc # 0, pc' = 0, faults' = faults
  PROVE  MustEnd \/ Decline \/ DetachWic
<1>1. faults \in Nat
  BY FaultAssumption DEF TypeOK
<1>2. ~Faults
  BY <1>1 DEF Faults, Fault, FaultInFetch, FaultInBunzip2, HostCrash, Unprovoked
<1>3. Environment => Decline
  BY DEF Environment, GuestWrites, StaleWriteback, OperatorUmount, OperatorDetach, Reboot
<1>4. Progress => DetachWic
  BY DEF Progress, Goto, Start, RmMnt, ImageExists, CreateImage, Cfdisk, AttachCard,
    Mkfs, MountPart, RmYoctomnt, RmWic, Fetch, Bunzip2, ListWic, AttachWic, CopyPart,
    UmountPart, StartQemu, QemuExits, DetachCard
<1> QED
  BY <1>2, <1>3, <1>4 DEF Next, Script, vars

(* Lines 73-76 give back what lines 27-45 took, and nothing else.           *)
THEOREM CompletedRunGivesBack == Spec => CompletedRunIsNeutral
<1> DEFINE Completes == pc = 76 /\ pc' = 0 /\ faults' = faults
           GivesBack == loop' = loop0 /\ mounts' = mounts0
<1>1. Inv /\ DetachWic /\ pc = 76 => GivesBack
  <2> SUFFICES ASSUME Inv, DetachWic, pc = 76 PROVE GivesBack
    OBVIOUS
  <2>1. TypeOK /\ LoopInv /\ MountInv
    BY DEF Inv
  <2>2. loop' = loop0
    <3>1. loop' = [loop EXCEPT ![yoctoImage] = "free"]
      BY OwnNotInUse DEF DetachWic, Detach, Gone
    <3>2. /\ loop \in LoopTable /\ loop0 \in LoopTable
          /\ loop0[yoctoImage] = "free"
          /\ \A l \in Loop : l # yoctoImage => loop[l] = loop0[l]
      BY <2>1 DEF TypeOK, LoopInv, LoopsAccounted, HoldsCard, HoldsWic
    <3> QED
      BY <3>1, <3>2 DEF LoopTable
  <2>3. mounts' = mounts0
    BY <2>1, MountsGivenBack DEF DetachWic
  <2> QED
    BY <2>2, <2>3
<1>2. Inv /\ [Next]_vars /\ Completes => DetachWic
  <2> SUFFICES ASSUME Inv, [Next]_vars, Completes PROVE DetachWic
    OBVIOUS
  <2>1. loop[yoctoImage] = "wic"
    BY DEF Inv, TypeOK, LoopInv, LoopsAccounted, HoldsCard, HoldsWic
  <2>2. ~MustEnd
    BY <2>1 DEF MustEnd, CommandFails, MustFail, Bunzip2Fails, CopyFails
  <2> QED
    BY <2>2, EndSteps DEF Inv, Decline
<1>3. Inv /\ [Next]_vars => [Completes => GivesBack]_vars
  BY <1>1, <1>2
<1> QED
  BY <1>3, InvHolds, PTL DEF Spec, CompletedRunIsNeutral

-----------------------------------------------------------------------------
(* What is behind the devices: rootfs.img behind those line 27 attaches, an *)
(* unpacked image of its own behind those line 43 does; and the card is     *)
(* never mounted where the image belongs.                                   *)
YoctoDirs == {"yoctomnt/boot", "yoctomnt/rootfs"}

FileInv ==
  /\ \A l \in Loop : /\ loop[l] = "card" => behind[l] = "card"
                     /\ loop[l] = "wic" => behind[l] = l
  /\ \A m \in YoctoDirs : \A i \in DOMAIN mounts[m] : behind[mounts[m][i]] # "card"

(* a step that only takes devices away, whoever takes them                  *)
LEMMA FileInvReleased ==
  ASSUME TypeOK, FileInv, Forget \/ ForgetCorrupting,
         \A l \in Loop : loop'[l] \in {loop[l], "closing", "free"},
         mounts' \in MountTable,
         \A m \in Dir : \A i \in DOMAIN mounts'[m] :
            i \in DOMAIN mounts[m] /\ mounts'[m][i] = mounts[m][i]
  PROVE  FileInv'
<1>1. \A l \in Loop : loop'[l] # "free" => behind'[l] = behind[l]
  BY FileStaysBehind
<1>2. ASSUME NEW l \in Loop PROVE behind'[l] \in {behind[l], "none"}
  BY DEF Forget, ForgetCorrupting, Unlink
<1>3. ASSUME NEW m \in YoctoDirs, NEW i \in DOMAIN mounts'[m]
      PROVE  behind'[mounts'[m][i]] # "card"
  <2>1. m \in Dir
    BY DEF YoctoDirs, Dir
  <2>2. mounts'[m][i] \in Loop
    BY <2>1 DEF MountTable
  <2> QED
    BY <1>2, <2>1, <2>2, FilesApart DEF FileInv
<1> QED
  BY <1>1, <1>3 DEF FileInv

LEMMA FileInvNext == Inv /\ FileInv /\ [Next]_vars => FileInv'
<1> SUFFICES ASSUME Inv, FileInv, [Next]_vars PROVE FileInv'
  OBVIOUS
<1>a. /\ TypeOK /\ DisksOK /\ loop \in LoopTable /\ mounts \in MountTable
      /\ Sound(loop, mounts)
  BY DEF Inv, TypeOK, SoundInv
<1>b. UNCHANGED <<loop, mounts, behind>> => FileInv'
  BY DEF FileInv
<1>c. ASSUME NEW l \in Loop, NEW k \in {"card", "wic"}, NEW f \in {"card", l},
             Attach(l, k), f = IF k = "card" THEN "card" ELSE l,
             behind' = [behind EXCEPT ![l] = f], mounts' = mounts
      PROVE  FileInv'
  <2>1. ~InUse(l)
    BY <1>a, <1>c DEF Sound, Attach, InUse
  <2>2. \A m \in YoctoDirs : \A i \in DOMAIN mounts[m] : mounts[m][i] # l
    BY <2>1 DEF InUse, Uses, YoctoDirs, Dir
  <2>3. behind \in [Loop -> File] /\ loop' = [loop EXCEPT ![l] = k]
    BY <1>a, <1>c DEF DisksOK, Attach
  <2>4. \A m \in YoctoDirs : \A i \in DOMAIN mounts[m] : behind'[mounts[m][i]] # "card"
    BY <1>c, <2>2, <2>3 DEF FileInv
  <2>5. \A x \in Loop : /\ loop'[x] = "card" => behind'[x] = "card"
                        /\ loop'[x] = "wic" => behind'[x] = x
    BY <1>a, <1>c, <2>3 DEF FileInv, LoopTable
  <2> QED
    BY <1>c, <2>4, <2>5 DEF FileInv
<1>d. ASSUME NEW m \in Dir, Umount(m), Forget PROVE FileInv'
  <2>1. mounts' \in MountTable
    BY <1>a, <1>d, MountTypes
  <2>2. \A l \in Loop : loop'[l] \in {loop[l], "closing", "free"}
    BY <1>a, <1>d, UmountFrees
  <2> QED
    BY <1>a, <1>d, <2>1, <2>2, UmountLeaves, FileInvReleased
<1>e. ASSUME NEW l \in Loop, Detach(l), mounts' = mounts, Forget PROVE FileInv'
  <2>1. \A k \in Loop : loop'[k] \in {loop[k], "closing", "free"}
    BY <1>a, <1>e DEF Detach, Gone, LoopTable
  <2> QED
    BY <1>a, <1>e, <2>1, FileInvReleased
<1>f. ASSUME loop' = AllFree, mounts' = NoMounts PROVE FileInv'
  BY <1>f DEF FileInv, AllFree, NoMounts, YoctoDirs, Dir
<1>g. ASSUME NEW l \in Loop, NEW m \in Dir, Mount(l, m), UNCHANGED <<loop, behind>>,
             m \in YoctoDirs => behind[l] # "card"
      PROVE  FileInv'
  <2>1. ASSUME NEW d \in YoctoDirs, NEW i \in DOMAIN mounts'[d]
        PROVE  behind[mounts'[d][i]] # "card"
    <3>1. CASE d # m
      BY <1>a, <1>g, <2>1, <3>1, MountsOn DEF FileInv, YoctoDirs, Dir
    <3>2. CASE d = m
      <4>1. mounts'[d] = Append(mounts[d], l) /\ mounts[d] \in Seq(Loop)
        BY <1>a, <1>g, <3>2, MountsOn DEF MountTable
      <4>2. mounts'[d][i] = l \/ (i \in DOMAIN mounts[d] /\ mounts'[d][i] = mounts[d][i])
        BY <2>1, <4>1, AppendProperties
      <4> QED
        BY <1>g, <3>2, <4>2 DEF FileInv
    <3> QED
      BY <3>1, <3>2
  <2> QED
    BY <1>g, <2>1 DEF FileInv
<1> USE DEF Goto, host, disks, work, run
<1>1. ASSUME NEW l \in Loop, AttachCard(l) PROVE FileInv'
  BY <1>1, <1>c DEF AttachCard
<1>2. ASSUME NEW l \in Loop, NEW b \in Build, AttachWic(l, b) PROVE FileInv'
  BY <1>2, <1>c DEF AttachWic
<1>3. CASE MountPart(32, 33, loopdevice, "mnt/boot")
           \/ MountPart(33, 37, loopdevice, "mnt/rootfs")
  <2>1. loopdevice \in Loop
    BY <1>3, <1>a DEF MountPart, TypeOK
  <2> QED
    BY <1>3, <1>g, <2>1 DEF MountPart, Dir, YoctoDirs
<1>4. CASE MountPart(44, 45, yoctoImage, "yoctomnt/boot")
           \/ MountPart(45, 49, yoctoImage, "yoctomnt/rootfs")
  <2>1. yoctoImage \in Loop /\ loop[yoctoImage] = "wic" /\ behind[yoctoImage] # "card"
    BY <1>4, FilesApart DEF MountPart, Inv, TypeOK, LoopInv, LoopsAccounted, HoldsCard,
      HoldsWic, FileInv
  <2> QED
    BY <1>4, <1>g, <2>1 DEF MountPart, Dir, YoctoDirs
<1>5. ASSUME NEW from, NEW to, NEW m \in Dir, UmountPart(from, to, m) PROVE FileInv'
  BY <1>5, <1>d DEF UmountPart
<1>6. CASE DetachCard \/ DetachWic
  <2>1. (pc = 75 => loopdevice \in Loop) /\ (pc = 76 => yoctoImage \in Loop)
    BY <1>a DEF TypeOK
  <2> QED
    BY <1>6, <1>e, <2>1 DEF DetachCard, DetachWic
<1>7. ASSUME NEW m \in Dir, OperatorUmount(m) PROVE FileInv'
  BY <1>7, <1>d DEF OperatorUmount
<1>8. ASSUME NEW l \in Loop, OperatorDetach(l) PROVE FileInv'
  BY <1>8, <1>e DEF OperatorDetach
<1>9. CASE Reboot \/ \E lost \in SUBSET Build : HostCrash(lost)
  BY <1>9, <1>f DEF Reboot, HostCrash
<1>10. CASE Start \/ RmMnt \/ ImageExists \/ CreateImage \/ Cfdisk
            \/ Mkfs(29, 30, "boot") \/ Mkfs(30, 32, "rootfs")
  BY <1>10, <1>b DEF Start, RmMnt, ImageExists, CreateImage, Cfdisk, Mkfs
<1>11. CASE RmYoctomnt \/ RmWic \/ Bunzip2 \/ ListWic \/ (\E d \in Deploys : Fetch(d))
            \/ CopyPart(49, 50, "boot") \/ CopyPart(50, 55, "rootfs")
  BY <1>11, <1>b DEF RmYoctomnt, RmWic, Bunzip2, ListWic, Fetch, CopyPart
<1>12. CASE StartQemu \/ GuestWrites \/ QemuExits \/ (\E p \in Part : StaleWriteback(p))
            \/ UNCHANGED vars
  BY <1>12, <1>b DEF StartQemu, GuestWrites, QemuExits, StaleWriteback, vars
<1>13. CASE CommandFails \/ Fault \/ Decline
            \/ CopyFails(49, "boot") \/ CopyFails(50, "rootfs")
            \/ (\E done \in SUBSET Build : Bunzip2Fails(done))
            \/ (\E done \in SUBSET Build, b \in Build : FaultInFetch(done, b))
            \/ (\E done \in SUBSET Build : FaultInBunzip2(done))
  BY <1>13, <1>b DEF CommandFails, Fault, Decline, CopyFails, Bunzip2Fails, FaultInFetch,
    FaultInBunzip2
<1> QED
  BY <1>1, <1>2, <1>3, <1>4, <1>5, <1>6, <1>7, <1>8, <1>9, <1>10, <1>11, <1>12, <1>13
  DEF Next, Script, Progress, MustEnd, Faults, Environment, Dir

-----------------------------------------------------------------------------
(* What is booted. Lines 39-43 take the images from none to the fetched one, *)
(* and from line 44 on what is behind yoctoImage is that build as it came.   *)
FromBuild(b) ==
  /\ fetched = {b}
  /\ fs[yoctoImage] = Contents(b) /\ table[yoctoImage] = Layout(b)
  /\ 44 < pc => "boot" \in Has[b]
  /\ 45 < pc => "rootfs" \in Has[b]

FetchInv ==
  /\ pc \in {40, 41} => wic = {}
  /\ pc = 41 => fetched # {} /\ fetched \subseteq bz2
  /\ pc = 42 => fetched # {} /\ fetched \subseteq wic
  /\ pc = 43 => fetched # {} /\ fetched \subseteq image /\ image = wic
  /\ 43 < pc => \E b \in Build : FromBuild(b)

(* the devices of the run, and the files behind them                        *)
LEMMA OwnFiles ==
  ASSUME Inv, FileInv
  PROVE  /\ HoldsCard => /\ loopdevice \in Loop /\ loop[loopdevice] = "card"
                         /\ behind[loopdevice] = "card"
         /\ HoldsWic => /\ yoctoImage \in Loop /\ loop[yoctoImage] = "wic"
                        /\ behind[yoctoImage] = yoctoImage
  BY DEF Inv, TypeOK, LoopInv, LoopsAccounted, HoldsCard, HoldsWic, FileInv

(* While the run's own mount is there, its file is what is read and written. *)
LEMMA OwnIsVisible ==
  ASSUME Inv, FileInv, pc # 0, NEW m \in Dir, HoldsMount(m)
  PROVE  /\ Mounted(m)
         /\ At(m) = IF m \in {"mnt/boot", "mnt/rootfs"} THEN "card" ELSE yoctoImage
<1>1. /\ pc \in Nat /\ mounts0[m] \in Seq(Loop)
      /\ m \in {"mnt/boot", "mnt/rootfs"} => HoldsCard /\ Own(m) = loopdevice
      /\ m \notin {"mnt/boot", "mnt/rootfs"} => HoldsWic /\ Own(m) = yoctoImage
  BY DEF Inv, TypeOK, Lines, MountTable, HoldsMount, HoldsCard, HoldsWic, Own
<1>2. Own(m) \in Loop
  BY <1>1, OwnFiles
<1>3. mounts[m] = Append(mounts0[m], Own(m))
  <2>1. Accounted(m)
    BY DEF Inv, MountInv, MountsAccounted
  <2> QED
    BY <2>1, Zenon DEF Accounted
<1>4. Mounted(m) /\ Visible(m) = Own(m)
  BY <1>1, <1>2, <1>3, VisibleInUse
<1> QED
  BY <1>1, <1>4, OwnFiles DEF At

(* line 39 removes the old images, and set -e stops a bunzip2 that left any *)
LEMMA FetchInvNext == Inv /\ FileInv /\ FetchInv /\ [Next]_vars => FetchInv'
<1> SUFFICES ASSUME Inv, FileInv, FetchInv, [Next]_vars PROVE FetchInv'
  OBVIOUS
<1>a. /\ pc \in Nat /\ TypeOK /\ DisksOK
      /\ 43 < pc => yoctoImage \in Loop
      /\ "card" \notin Loop
  BY FilesApart DEF Inv, TypeOK, Lines
<1>b. ASSUME 43 < pc, pc <= pc', yoctoImage' = yoctoImage, fetched' = fetched,
             fs'[yoctoImage] = fs[yoctoImage], table'[yoctoImage] = table[yoctoImage],
             pc \in {44, 45} => pc' = pc
      PROVE  FetchInv'
  <2>1. PICK b \in Build : FromBuild(b)
    BY <1>b DEF FetchInv
  <2>2. pc' = pc \/ 45 < pc
    BY <1>a, <1>b DEF TypeOK, Lines
  <2>3. pc' \in Nat /\ 43 < pc'
    BY <1>a, <1>b, DisksNext, TypeNext DEF TypeOK, Lines
  <2>4. FromBuild(b)'
    BY <1>a, <1>b, <2>1, <2>2, <2>3 DEF FromBuild
  <2> QED
    BY <2>3, <2>4 DEF FetchInv
<1>c. pc' = 0 => FetchInv'
  BY DEF FetchInv
<1> USE DEF Goto, Exit, host, disks, work, run
<1>1. CASE Start \/ RmMnt \/ ImageExists \/ CreateImage \/ Cfdisk
  BY <1>1, <1>a DEF Start, RmMnt, ImageExists, CreateImage, Cfdisk, FetchInv
<1>2. ASSUME NEW l \in Loop, AttachCard(l) PROVE FetchInv'
  BY <1>2, <1>a DEF AttachCard, FetchInv
<1>3. ASSUME NEW l \in Loop, NEW b \in Build, AttachWic(l, b) PROVE FetchInv'
  <2>1. fetched' = {b} /\ pc' = 44 /\ yoctoImage' = l
    BY <1>3 DEF AttachWic, FetchInv
  <2>2. fs'[l] = Contents(b) /\ table'[l] = Layout(b)
    BY <1>3, <1>a, FilesApart DEF AttachWic, DisksOK
  <2> QED
    BY <2>1, <2>2 DEF FetchInv, FromBuild
<1>4. CASE RmYoctomnt \/ RmWic \/ Bunzip2 \/ ListWic \/ (\E d \in Deploys : Fetch(d))
  BY <1>4, <1>a DEF RmYoctomnt, RmWic, Bunzip2, ListWic, Fetch, FetchInv
<1>5. CASE \/ Mkfs(29, 30, "boot") \/ Mkfs(30, 32, "rootfs")
           \/ MountPart(32, 33, loopdevice, "mnt/boot")
           \/ MountPart(33, 37, loopdevice, "mnt/rootfs")
  BY <1>5, <1>a DEF Mkfs, MountPart, FetchInv
<1>6. ASSUME NEW from \in {44, 45}, NEW to \in {45, 49}, NEW m, NEW p \in Part,
             MountPart(from, to, yoctoImage, m), PartOf[m] = p,
             from = 44 => to = 45 /\ p = "boot",
             from = 45 => to = 49 /\ p = "rootfs"
      PROVE  FetchInv'
  <2>1. PICK b \in Build : FromBuild(b)
    BY <1>6 DEF MountPart, FetchInv
  <2>2. Layout(b)[p] = "formatted"
    BY <1>6, <2>1, OwnFiles DEF MountPart, Partition, FromBuild, HoldsWic
  <2>3. p \in Has[b]
    BY <2>2 DEF Layout
  <2>4. pc = from /\ pc' = to /\ UNCHANGED <<fetched, fs, table, yoctoImage>>
    BY <1>6 DEF MountPart
  <2>5. FromBuild(b)'
    BY <1>6, <2>1, <2>3, <2>4 DEF FromBuild
  <2> QED
    BY <1>6, <2>4, <2>5 DEF FetchInv
<1>7. CASE MountPart(44, 45, yoctoImage, "yoctomnt/boot")
           \/ MountPart(45, 49, yoctoImage, "yoctomnt/rootfs")
  <2>1. PartOf["yoctomnt/boot"] = "boot" /\ PartOf["yoctomnt/rootfs"] = "rootfs"
    BY DEF PartOf, Dir
  <2>2. MountPart(44, 45, yoctoImage, "yoctomnt/boot") => FetchInv'
    BY <1>6, <2>1 DEF Part
  <2>3. MountPart(45, 49, yoctoImage, "yoctomnt/rootfs") => FetchInv'
    BY <1>6, <2>1 DEF Part
  <2> QED
    BY <1>7, <2>2, <2>3
<1>8. CASE CopyPart(49, 50, "boot") \/ CopyPart(50, 55, "rootfs")
  <2>1. pc \in {49, 50} /\ pc' \in {50, 55}
    BY <1>8 DEF CopyPart
  <2>2. At("mnt/boot") = "card" /\ At("mnt/rootfs") = "card"
    BY <2>1, OwnIsVisible DEF HoldsMount, Dir
  <2>3. fs'[yoctoImage] = fs[yoctoImage]
    BY <1>8, <1>a, <2>1, <2>2, FilesApart DEF CopyPart, Copied, Mnt, DisksOK
  <2> QED
    BY <1>8, <1>b, <2>1, <2>3 DEF CopyPart
<1>9. CASE \/ UmountPart(55, 56, "mnt/boot") \/ UmountPart(56, 60, "mnt/rootfs")
           \/ UmountPart(73, 74, "yoctomnt/boot")
           \/ UmountPart(74, 75, "yoctomnt/rootfs")
  <2>1. loop' = loop
    BY <1>9, OwnUmounts
  <2>2. pc \in {55, 56, 73, 74} /\ pc <= pc' /\ Forget
    BY <1>9 DEF UmountPart
  <2>3. yoctoImage \in Loop /\ loop[yoctoImage] = "wic"
    BY <2>2, OwnFiles DEF HoldsWic
  <2>4. fs'[yoctoImage] = fs[yoctoImage] /\ table'[yoctoImage] = table[yoctoImage]
    BY <2>1, <2>2, <2>3, FileStaysBehind
  <2> QED
    BY <1>9, <1>b, <2>2, <2>4 DEF UmountPart
<1>10. CASE DetachCard
  <2>1. pc = 75 /\ pc' = 76 /\ Forget
    BY <1>10 DEF DetachCard
  <2>2. yoctoImage \in Loop /\ loop[yoctoImage] = "wic" /\ loop[loopdevice] = "card"
    BY <2>1, OwnFiles DEF HoldsWic, HoldsCard
  <2>3. loop'[yoctoImage] = "wic"
    BY <1>10, <1>a, <2>2 DEF DetachCard, Detach, TypeOK, LoopTable
  <2>4. fs'[yoctoImage] = fs[yoctoImage] /\ table'[yoctoImage] = table[yoctoImage]
    BY <2>1, <2>2, <2>3, FileStaysBehind
  <2> QED
    BY <1>10, <1>b, <2>1, <2>4 DEF DetachCard
<1>11. CASE StartQemu \/ QemuExits
  BY <1>11, <1>b DEF StartQemu, QemuExits
<1>12. CASE GuestWrites
  <2>1. fs'[yoctoImage] = fs[yoctoImage]
    BY <1>12, <1>a DEF GuestWrites, DisksOK
  <2> QED
    BY <1>12, <1>b, <2>1 DEF GuestWrites
<1>13. ASSUME NEW p \in Part, StaleWriteback(p) PROVE FetchInv'
  <2>1. 43 < pc => fs'[yoctoImage] = fs[yoctoImage]
    BY <1>13, <1>a DEF StaleWriteback, DisksOK
  <2>2. pc <= 43 => FetchInv'
    BY <1>13, <1>a DEF StaleWriteback, FetchInv
  <2>3. pc' = pc /\ UNCHANGED <<fetched, yoctoImage, table>>
    BY <1>13 DEF StaleWriteback
  <2>4. CASE 43 < pc
    <3>1. pc <= pc' /\ table'[yoctoImage] = table[yoctoImage]
      BY <1>a, <2>3
    <3> QED
      BY <1>b, <2>1, <2>3, <2>4, <3>1, Zenon
  <2> QED
    BY <1>a, <2>2, <2>4
<1>14. CASE DetachWic \/ CommandFails \/ Fault \/ Decline
            \/ CopyFails(49, "boot") \/ CopyFails(50, "rootfs")
  BY <1>14, <1>c DEF DetachWic, CommandFails, Fault, Decline, CopyFails, Unprovoked
<1>15. CASE \/ \E done \in SUBSET Build : Bunzip2Fails(done)
            \/ \E done \in SUBSET Build, b \in Build : FaultInFetch(done, b)
            \/ \E done \in SUBSET Build : FaultInBunzip2(done)
            \/ \E lost \in SUBSET Build : HostCrash(lost)
  BY <1>15, <1>c DEF Bunzip2Fails, FaultInFetch, FaultInBunzip2, HostCrash, Unprovoked
<1>16. CASE UNCHANGED vars
  BY <1>16 DEF vars, FetchInv, FromBuild
<1>17. CASE \/ \E d \in Dir : OperatorUmount(d)
            \/ \E l \in Loop : OperatorDetach(l)
            \/ Reboot
  BY <1>17, <1>c DEF OperatorUmount, OperatorDetach, Reboot
<1> QED
  BY <1>1, <1>2, <1>3, <1>4, <1>5, <1>7, <1>8, <1>9, <1>10, <1>11,
     <1>12, <1>13, <1>14, <1>15, <1>16, <1>17
  DEF Next, Script, Progress, MustEnd, Faults, Environment

(* While the run's image is mounted, its partitions are what is read.       *)
LEMMA SourceIsOwn ==
  ASSUME Inv, FileInv, 45 < pc, pc <= 73, NEW p \in Part, NEW b \in Build, FromBuild(b)
  PROVE  Source(p) = {b}
<1>1. HoldsMount(Yoctomnt[p]) /\ Yoctomnt[p] \in Dir \ {"mnt/boot", "mnt/rootfs"}
  BY DEF HoldsMount, Yoctomnt, Part, Dir, Inv, TypeOK, Lines
<1>2. At(Yoctomnt[p]) = yoctoImage
  BY <1>1, OwnIsVisible
<1>3. PartOf[Yoctomnt[p]] = p
  BY SourceType DEF Inv
<1>4. p \in Has[b]
  BY DEF FromBuild, Inv, TypeOK, Lines, Part
<1> QED
  BY <1>2, <1>3, <1>4 DEF Source, Shown, FromBuild, Contents

(* The card, unless an older run left it mounted: formatted, then filled    *)
(* from the image, one partition after the other, and the guest's after.    *)
NotMountedBefore == \A p \in Part : mounts0[Mnt[p]] = <<>>

CardInv ==
  pc # 0 /\ NotMountedBefore =>
    /\ 29 < pc /\ pc <= 49 => fs["card"]["boot"] = {}
    /\ 30 < pc /\ pc <= 50 => fs["card"]["rootfs"] = {}
    /\ 49 < pc => fs["card"]["boot"] = fetched
    /\ 50 < pc => fs["card"]["rootfs"] \ {"guest"} = fetched

(* Nobody but the run has the card mounted, so nobody else writes it back.  *)
LEMMA NoStaleWriteback ==
  ASSUME MountInv, pc # 0, NotMountedBefore, NEW p \in Part
  PROVE  ~StaleWriteback(p)
<1> DEFINE d == Mnt[p]
<1>1. d \in {"mnt/boot", "mnt/rootfs"} /\ d \in Dir
  BY DEF Part, Mnt, Dir
<1>2. mounts[d] = IF HoldsMount(d) THEN Append(<<>>, loopdevice) ELSE <<>>
  BY <1>1, Zenon DEF MountInv, MountsAccounted, Accounted, NotMountedBefore, Own
<1> HIDE DEF d
<1>3. \A i \in DOMAIN mounts[d] : mounts[d][i] = loopdevice
  BY <1>2
<1> QED
  BY <1>3 DEF StaleWriteback, d

(* what rm -rf finds below ./yoctomnt/ is not the card *)
LEMMA CardNotBelow ==
  ASSUME Inv, FileInv, NEW m \in YoctoDirs
  PROVE  At(m) # "card"
<1>1. m \in Dir /\ mounts[m] \in Seq(Loop)
  BY DEF YoctoDirs, Dir, Inv, TypeOK, MountTable
<1>2. mounts[m] # <<>> => Len(mounts[m]) \in DOMAIN mounts[m]
  BY <1>1
<1> QED
  BY <1>2, FilesApart DEF At, Mounted, Visible, FileInv

(* lines 29-50 take the card from formatted to filled *)
LEMMA CardInvNext ==
  Inv /\ FileInv /\ FetchInv /\ CardInv /\ [Next]_vars => CardInv'
<1> SUFFICES ASSUME Inv, FileInv, FetchInv, CardInv, [Next]_vars, pc' # 0,
                    NotMountedBefore'
             PROVE  CardInv'
  BY DEF CardInv
<1>a. /\ pc \in Nat /\ fs \in [File -> [Part -> SUBSET Origin]]
      /\ fetched \in SUBSET Build /\ "guest" \notin Build
      /\ "card" \in File /\ "card" \notin Loop
  BY OriginAssumption, FilesApart DEF Inv, TypeOK, Lines, DisksOK
<1> USE <1>a DEF CardInv, Goto, Exit, host, disks, work, run
<1>b. pc # 0 /\ mounts0' = mounts0 => NotMountedBefore
  BY DEF NotMountedBefore
<1>1. CASE Start \/ ImageExists \/ CreateImage \/ Cfdisk
  BY <1>1, <1>b DEF Start, ImageExists, CreateImage, Cfdisk
<1>2. CASE RmMnt
  BY <1>2, <1>b DEF RmMnt
<1>3. ASSUME NEW l \in Loop, AttachCard(l) PROVE CardInv'
  BY <1>3, <1>b DEF AttachCard
<1>4. ASSUME NEW l \in Loop, NEW b \in Build, AttachWic(l, b) PROVE CardInv'
  <2>1. fs'["card"] = fs["card"]
    BY <1>4 DEF AttachWic
  <2> QED
    BY <1>4, <1>b, <2>1 DEF AttachWic
<1>5. CASE Mkfs(29, 30, "boot") \/ Mkfs(30, 32, "rootfs")
  <2>1. behind[loopdevice] = "card"
    BY <1>5, OwnFiles DEF Mkfs, HoldsCard
  <2> QED
    BY <1>5, <1>b, <2>1 DEF Mkfs, Part
<1>6. CASE RmWic \/ Bunzip2 \/ ListWic
  BY <1>6, <1>b DEF RmWic, Bunzip2, ListWic
<1>7. CASE \E d \in Deploys : Fetch(d)
  BY <1>7, <1>b DEF Fetch
<1>8. CASE \/ MountPart(32, 33, loopdevice, "mnt/boot")
           \/ MountPart(33, 37, loopdevice, "mnt/rootfs")
           \/ MountPart(44, 45, yoctoImage, "yoctomnt/boot")
           \/ MountPart(45, 49, yoctoImage, "yoctomnt/rootfs")
  BY <1>8, <1>b DEF MountPart
<1>9. CASE CopyPart(49, 50, "boot") \/ CopyPart(50, 55, "rootfs")
  <2>1. pc \in {49, 50} /\ pc # 0
    BY <1>9 DEF CopyPart
  <2>2. At("mnt/boot") = "card" /\ At("mnt/rootfs") = "card"
    BY <2>1, OwnIsVisible DEF HoldsMount, Dir
  <2>0. PICK b \in Build : FromBuild(b)
    BY <2>1 DEF FetchInv
  <2>3. \A p \in Part : Source(p) = fetched
    BY <2>0, <2>1, SourceIsOwn DEF FromBuild
  <2>4. "card" # "none" /\ PartOf["mnt/boot"] = "boot" /\ PartOf["mnt/rootfs"] = "rootfs"
    BY DEF PartOf, Dir
  <2>5. /\ CopyPart(49, 50, "boot") =>
             /\ fs'["card"]["boot"] = fs["card"]["boot"] \cup fetched
             /\ fs'["card"]["rootfs"] = fs["card"]["rootfs"]
        /\ CopyPart(50, 55, "rootfs") =>
             /\ fs'["card"]["rootfs"] = fs["card"]["rootfs"] \cup fetched
             /\ fs'["card"]["boot"] = fs["card"]["boot"]
    BY <2>2, <2>3, <2>4 DEF CopyPart, Copied, Mnt, Part
  <2>6. NotMountedBefore /\ fetched' = fetched /\ fetched \ {"guest"} = fetched
    BY <1>9, <1>b, <2>1 DEF CopyPart
  <2>7. CASE CopyPart(49, 50, "boot")
    <3>1. pc = 49 /\ pc' = 50 /\ fs["card"]["boot"] = {} /\ fs["card"]["rootfs"] = {}
      BY <2>6, <2>7 DEF CopyPart
    <3> QED
      BY <2>5, <2>6, <2>7, <3>1
  <2>8. CASE CopyPart(50, 55, "rootfs")
    <3>1. pc = 50 /\ pc' = 55 /\ fs["card"]["boot"] = fetched /\ fs["card"]["rootfs"] = {}
      BY <2>6, <2>8 DEF CopyPart
    <3>2. fs'["card"]["boot"] = fetched' /\ fs'["card"]["rootfs"] \ {"guest"} = fetched'
      BY <2>5, <2>6, <2>8, <3>1
    <3> QED
      BY <3>1, <3>2
  <2> QED
    BY <1>9, <2>7, <2>8
<1>10. CASE \/ UmountPart(55, 56, "mnt/boot") \/ UmountPart(56, 60, "mnt/rootfs")
            \/ UmountPart(73, 74, "yoctomnt/boot")
            \/ UmountPart(74, 75, "yoctomnt/rootfs")
  <2>1. fs'["card"] = fs["card"]
    BY <1>10, NamedFilesStay DEF UmountPart
  <2> QED
    BY <1>10, <1>b, <2>1 DEF UmountPart
<1>11. CASE GuestWrites
  BY <1>11, <1>b DEF GuestWrites, Part
<1>12. CASE StartQemu \/ QemuExits
  BY <1>12, <1>b DEF StartQemu, QemuExits
<1>13. CASE DetachCard
  <2>1. fs'["card"] = fs["card"]
    BY <1>13, NamedFilesStay DEF DetachCard
  <2> QED
    BY <1>13, <1>b, <2>1 DEF DetachCard
<1>14. CASE RmYoctomnt
  <2>1. fs'["card"] = fs["card"]
    <3>1. \A m \in YoctoDirs : At(m) # "card"
      BY CardNotBelow
    <3> QED
      BY <1>14, <3>1 DEF RmYoctomnt, Emptied, YoctoDirs
  <2> QED
    BY <1>14, <1>b, <2>1 DEF RmYoctomnt
<1>15. CASE \/ DetachWic \/ CommandFails \/ Fault \/ Decline
            \/ CopyFails(49, "boot") \/ CopyFails(50, "rootfs")
            \/ \E done \in SUBSET Build : Bunzip2Fails(done)
            \/ \E done \in SUBSET Build, b \in Build : FaultInFetch(done, b)
            \/ \E done \in SUBSET Build : FaultInBunzip2(done)
            \/ \E lost \in SUBSET Build : HostCrash(lost)
  BY <1>15 DEF DetachWic, CommandFails, Fault, Decline, CopyFails, Bunzip2Fails,
    FaultInFetch, FaultInBunzip2, HostCrash, Unprovoked
<1>16. ASSUME NEW p \in Part, StaleWriteback(p) PROVE CardInv'
  <2>1. pc' = pc /\ mounts0' = mounts0
    BY <1>16 DEF StaleWriteback
  <2>2. MountInv
    BY DEF Inv
  <2> QED
    BY <1>16, <1>b, <2>1, <2>2, NoStaleWriteback
<1>17. CASE UNCHANGED vars
  BY <1>17, <1>b DEF vars
<1>18. CASE \/ \E d \in Dir : OperatorUmount(d)
            \/ \E l \in Loop : OperatorDetach(l)
            \/ Reboot
  BY <1>18 DEF OperatorUmount, OperatorDetach, Reboot
<1> HIDE DEF CardInv
<1> QED
  BY <1>1, <1>2, <1>3, <1>4, <1>5, <1>6, <1>7, <1>8, <1>9, <1>10, <1>11,
     <1>12, <1>13, <1>14, <1>15, <1>16, <1>17, <1>18
  DEF Next, Script, Progress, MustEnd, Faults, Environment

(* what a run boots, and what it has set up to get there *)
BootInv == Inv /\ FileInv /\ FetchInv

LEMMA BootInvHolds == Spec => []BootInv
<1>1. Init => BootInv
  BY InvInit DEF BootInv, Init, DisksInit, AllFree, NoMounts, FileInv, FetchInv, YoctoDirs, Dir
<1>2. BootInv /\ [Next]_vars => BootInv'
  BY InvNext, FileInvNext, FetchInvNext DEF BootInv
<1> QED
  BY <1>1, <1>2, PTL DEF Spec

(* However many builds, archives and leftovers there are: a guest started   *)
(* on a card no older run has left mounted boots kernel and file systems of *)
(* one build, the one its run fetched.                                      *)
THEOREM BootsOneBuild == Spec => []BootsFetchedBuild
<1>1. Init => CardInv
  BY DEF Init, CardInv
<1>2. BootInv /\ CardInv /\ [Next]_vars => CardInv'
  BY CardInvNext DEF BootInv
<1>3. BootInv /\ CardInv => BootsFetchedBuild
  <2> SUFFICES ASSUME BootInv, CardInv, pc = 69, NotMountedBefore
               PROVE  \E b \in Build : /\ fetched = {b}
                                       /\ Source("boot") = {b}
                                       /\ fs["card"]["boot"] = {b}
                                       /\ fs["card"]["rootfs"] \ {"guest"} = {b}
    BY DEF BootsFetchedBuild, NotMountedBefore
  <2>1. PICK b \in Build : FromBuild(b)
    BY DEF BootInv, FetchInv
  <2>2. Source("boot") = {b}
    BY <2>1, SourceIsOwn DEF BootInv, Part
  <2> QED
    BY <2>1, <2>2 DEF FromBuild, CardInv
<1> QED
  BY <1>1, <1>2, <1>3, BootInvHolds, PTL DEF Spec

-----------------------------------------------------------------------------
(* What ends a run that nothing kills. What lines 32-74 mount, copy and     *)
(* unmount is the run's own, by BootInv, and there when it is needed.       *)

(* mkfs has made what line 32 and line 33 mount *)
TableInv == /\ 29 < pc /\ pc <= 33 => table["card"]["boot"] = "formatted"
            /\ 30 < pc /\ pc <= 33 => table["card"]["rootfs"] = "formatted"

LEMMA TableInvNext == BootInv /\ TableInv /\ [Next]_vars => TableInv'
<1> SUFFICES ASSUME BootInv, TableInv, [Next]_vars, 29 < pc', pc' <= 33
             PROVE  TableInv'
  BY TypeNext DEF TableInv, BootInv, Inv, TypeOK, Lines
<1>a. pc \in Nat /\ table \in TableType /\ "card" \in File
  BY FilesApart DEF BootInv, Inv, TypeOK, Lines, DisksOK, TableType
<1>1. \/ Mkfs(29, 30, "boot") \/ Mkfs(30, 32, "rootfs")
      \/ MountPart(32, 33, loopdevice, "mnt/boot")
      \/ (\E p \in Part : StaleWriteback(p)) \/ UNCHANGED vars
  BY <1>a DEF Next, Script, Progress, MustEnd, Faults, Environment, Goto, Exit, Unprovoked,
    Start, RmMnt, ImageExists, CreateImage, Cfdisk, AttachCard, Mkfs,
    MountPart, RmYoctomnt, RmWic, Fetch, Bunzip2, ListWic, AttachWic, CopyPart,
    UmountPart, StartQemu, GuestWrites, QemuExits, DetachCard, DetachWic,
    CommandFails, Bunzip2Fails, CopyFails, Decline, Fault, FaultInFetch, FaultInBunzip2,
    HostCrash, OperatorUmount, OperatorDetach, Reboot
<1>2. CASE Mkfs(29, 30, "boot") \/ Mkfs(30, 32, "rootfs")
  <2>1. behind[loopdevice] = "card"
    BY <1>2, OwnFiles DEF Mkfs, Goto, HoldsCard, BootInv
  <2> QED
    BY <1>2, <1>a, <2>1 DEF Mkfs, Goto, TableInv, TableType, Part
<1>3. CASE MountPart(32, 33, loopdevice, "mnt/boot")
           \/ (\E p \in Part : StaleWriteback(p)) \/ UNCHANGED vars
  BY <1>3 DEF MountPart, StaleWriteback, vars, disks, Goto, TableInv
<1> QED
  BY <1>1, <1>2, <1>3

(* The device of line 27 was free, so nothing of it is mounted yet.         *)
LEMMA CardNotBusy ==
  ASSUME BootInv, pc \in {29, 30}, NEW p \in Part
  PROVE  ~Busy(loopdevice, p) /\ Partition(loopdevice, p) = table["card"][p]
<1>1. HoldsCard /\ loopdevice \in Loop /\ loop0[loopdevice] = "free"
  BY DEF BootInv, Inv, TypeOK, LoopInv, HoldsCard
<1>2. \A m \in Dir : mounts[m] = mounts0[m]
  <2> SUFFICES ASSUME NEW m \in Dir PROVE mounts[m] = mounts0[m]
    OBVIOUS
  <2>1. Accounted(m) /\ ~HoldsMount(m)
    BY DEF BootInv, Inv, MountInv, MountsAccounted, HoldsMount
  <2> QED
    BY <2>1, Zenon DEF Accounted
<1>3. ~Uses(mounts0, loopdevice)
  BY <1>1 DEF BootInv, Inv, SoundInv, Sound
<1> QED
  BY <1>1, <1>2, <1>3, OwnFiles DEF BootInv, Busy, Uses, Partition

(* of the commands that must fail in the state they find, none does for     *)
(* want of what the run itself has set up                                   *)
LEMMA FailsForAReason ==
  ASSUME BootInv, TableInv, MustEnd \/ Decline
  PROVE  Leftover \/ Given
<1>a. pc \in Lines /\ Inv /\ FileInv /\ FetchInv /\ fetched \in SUBSET Build
  BY DEF BootInv, Inv, TypeOK
<1>b. ASSUME 43 < pc PROVE \E b \in Build : FromBuild(b)
  BY <1>b, <1>a DEF FetchInv
<1>1. ASSUME NEW done \in SUBSET Build, Bunzip2Fails(done) PROVE Leftover
  BY <1>1, <1>a DEF Bunzip2Fails, FetchInv, Leftover
<1>2. CASE Decline
  BY <1>2, CardNotBusy DEF Decline, Given, Part
<1>3. ASSUME NEW p \in Part, NEW line, CopyFails(line, p),
             (line = 49 /\ p = "boot") \/ (line = 50 /\ p = "rootfs")
      PROVE  Given
  <2>1. PICK b \in Build : FromBuild(b)
    BY <1>3, <1>b DEF CopyFails
  <2>2. pc = line /\ ~HasRoom(p)
    BY <1>3 DEF CopyFails
  <2>3. 45 < pc /\ pc <= 73
    BY <1>3, <2>2
  <2>4. Source(p) = {b} /\ fetched = {b}
    BY <1>a, <2>1, <2>3, SourceIsOwn DEF FromBuild
  <2>5. Fits[p] \notin Has[b]
    BY <2>2, <2>4, HasAssumption DEF HasRoom
  <2>6. <<pc, Fits[p]>> \in Needed /\ Fits[p] \in Features
    <3>1. Fits["boot"] = "boot fits" /\ Fits["rootfs"] = "rootfs fits"
      BY DEF Fits
    <3>2. (pc = 49 /\ Fits[p] = "boot fits") \/ (pc = 50 /\ Fits[p] = "rootfs fits")
      BY <1>3, <2>2, <3>1
    <3>3. /\ <<49, "boot fits">> \in Needed /\ <<50, "rootfs fits">> \in Needed
          /\ "boot fits" \in Features /\ "rootfs fits" \in Features
      BY DEF Needed, Features
    <3> QED
      BY <3>2, <3>3
  <2> QED
    BY <2>4, <2>5, <2>6 DEF Given
<1>4. CASE CommandFails
  <2> USE <1>a
  <2>0. MustFail
    BY <1>4 DEF CommandFails
  <2>1. CASE pc \in {27, 40, 42}
    BY <2>0, <2>1 DEF MustFail, Leftover, Given, FetchInv
  <2>2. CASE pc \in {29, 30}
    BY <2>0, <2>2, CardNotBusy DEF MustFail, Leftover, Part
  <2>3. CASE pc \in {32, 33}
    <3>1. behind[loopdevice] = "card"
      BY <2>3, OwnFiles DEF HoldsCard
    <3> QED
      BY <2>0, <2>3, <3>1 DEF MustFail, Partition, TableInv
  <2>4. CASE pc = 43
    BY <2>0, <2>4 DEF MustFail, Leftover, Given, FetchInv
  <2>5. CASE pc \in {44, 45}
    <3>1. PICK b \in Build : FromBuild(b)
      BY <1>b, <2>5
    <3>2. behind[yoctoImage] = yoctoImage
      BY <2>5, OwnFiles DEF HoldsWic
    <3>3. \A p \in Part : Partition(yoctoImage, p) # "formatted" => p \notin Has[b]
      BY <3>1, <3>2 DEF Partition, FromBuild, Layout
    <3>4. /\ pc = 44 => "boot" \notin Has[b]
          /\ pc = 45 => "rootfs" \notin Has[b]
      BY <2>0, <2>5, <3>3 DEF MustFail, Part
    <3>5. /\ <<44, "boot">> \in Needed /\ <<45, "rootfs">> \in Needed
          /\ "boot" \in Features /\ "rootfs" \in Features
      BY DEF Needed, Features, Part
    <3>6. b \in fetched
      BY <3>1 DEF FromBuild
    <3> QED
      BY <2>5, <3>4, <3>5, <3>6 DEF Given
  <2>6. CASE pc \in {49, 50, 60}
    <3>1. PICK b \in Build : FromBuild(b)
      BY <1>b, <2>6
    <3>2. \A p \in Part : Source(p) = {b}
      BY <2>6, <3>1, SourceIsOwn
    <3>3. pc = 60 /\ \E x \in BootFiles : ~HasFile(x)
      BY <2>0, <2>6, <3>2 DEF MustFail, Part
    <3>4. b \in DOMAIN Has
      BY HasAssumption
    <3>5. \A x \in BootFiles : ~HasFile(x) => x \notin Has[b]
      BY <3>2, <3>4 DEF HasFile, Part
    <3> QED
      BY <3>1, <3>3, <3>5 DEF Given, Needed, BootFiles, FromBuild, Part, Features
  <2>7. CASE pc \in {55, 56, 73, 74}
    <3>1. /\ pc = 55 => Mounted("mnt/boot")
          /\ pc = 56 => Mounted("mnt/rootfs")
          /\ pc = 73 => Mounted("yoctomnt/boot")
          /\ pc = 74 => Mounted("yoctomnt/rootfs")
      BY OwnIsVisible DEF HoldsMount, Dir
    <3> QED
      BY <2>0, <2>7, <3>1 DEF MustFail
  <2>8. CASE pc \in {75, 76}
    BY <2>0, <2>8, OwnFiles DEF MustFail, HoldsCard, HoldsWic
  <2> QED
    BY <2>0, <2>1, <2>2, <2>3, <2>4, <2>5, <2>6, <2>7, <2>8 DEF MustFail
<1> QED
  BY <1>1, <1>2, <1>3, <1>4 DEF MustEnd, Part

(* However often runs were cut off, and whatever they have left: a run that *)
(* nothing kills comes to its end, unless it meets one of the leftovers     *)
(* listed or is given what it cannot work with.                             *)
THEOREM EndsOnlyForAReason == Spec => EndsForAReason
<1> DEFINE Ends == pc # 0 /\ pc' = 0 /\ faults' = faults
<1>1. Init => TableInv
  BY DEF Init, TableInv
<1>2. BootInv /\ TableInv /\ [Next]_vars => TableInv'
  BY TableInvNext
<1>3. BootInv /\ TableInv /\ [Next]_vars => [Ends => Leftover \/ Given \/ pc = 76]_vars
  BY EndSteps, FailsForAReason DEF BootInv, Inv, DetachWic
<1> QED
  BY <1>1, <1>2, <1>3, BootInvHolds, PTL DEF Spec, EndsForAReason
=============================================================================
