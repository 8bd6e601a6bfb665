-------------------------- MODULE RunRaspian_proofs --------------------------
(***************************************************************************)
(* Theorems about RunRaspian, for any number of loop devices and releases. *)
(***************************************************************************)
EXTENDS RunRaspian, Host_proofs, SequenceTheorems, TLAPS

HoldsLoop == 15 < pc /\ pc <= 27
HoldsBoot == 16 < pc /\ pc <= 26

(* the device of the run, between lines 15 and 27, and no other *)
LoopInv ==
  pc # 0 =>
    /\ HoldsLoop => /\ raspiosImage \in Loop
                    /\ loop0[raspiosImage] = "free"
                    /\ loop = [loop0 EXCEPT ![raspiosImage] = "raspios"]
    /\ ~HoldsLoop => loop = loop0

(* its mount, on top of what older runs left, between lines 16 and 26 *)
MountInv ==
  pc # 0 =>
    mounts = IF HoldsBoot
             THEN [mounts0 EXCEPT !["raspios/boot"] = Append(@, raspiosImage)]
             ELSE mounts0

(* nothing in this directory writes to a release                            *)
FilesInv == \A i \in Image : fs[i] = Contents(i)

(* from line 14 on one release is the drive's, the device's and, as they    *)
(* are copied, the kernel's and the device tree's                           *)
DriveInv ==
  /\ 13 < pc /\ image # "none" => images = {image}
  /\ 14 < pc => image # "none"
  /\ HoldsLoop => behind[raspiosImage] = image
  /\ 20 < pc => dtb = image
  /\ 21 < pc => kernel = image

(* the kernel's bookkeeping, now and when the run began *)
SoundInv == Sound(loop, mounts) /\ Sound(loop0, mounts0)

IInv == TypeOK /\ SoundInv /\ LoopInv /\ MountInv /\ FilesInv /\ DriveInv

-----------------------------------------------------------------------------
(* What lines 20 and 21 read is the run's own mount, whatever it covers.    *)
LEMMA SourceIsOwn ==
  ASSUME IInv, HoldsBoot
  PROVE  \A x \in Features : Source(x) \subseteq {image}
<1> DEFINE older == mounts0["raspios/boot"]
<1>1. pc # 0 /\ HoldsLoop /\ raspiosImage \in Loop
  BY DEF IInv, TypeOK, Lines, LoopInv, HoldsBoot, HoldsLoop
<1>2. older \in Seq(Loop)
  BY DEF IInv, TypeOK, MountTable, Dir
<1>3. mounts["raspios/boot"] = Append(older, raspiosImage)
  BY <1>1 DEF IInv, MountInv, TypeOK, MountTable, Dir
<1> HIDE DEF older
<1>4. Mounted("raspios/boot") /\ Visible("raspios/boot") = raspiosImage
  BY <1>1, <1>2, <1>3, VisibleInUse DEF Dir
<1>5. At("raspios/boot") = image /\ image \in Image
  BY <1>1, <1>4 DEF At, IInv, TypeOK, Lines, DriveInv, HoldsLoop
<1>6. Shown("raspios/boot") \subseteq {image}
  BY <1>5 DEF Shown, IInv, FilesInv, Contents, PartOf, Dir, Part
<1> QED
  BY <1>6 DEF Source

(* Line 26 takes away what line 16 put there, and no device with it. *)
LEMMA UmountGivesBack ==
  ASSUME IInv, UmountBoot
  PROVE  mounts' = mounts0 /\ mounts' \in MountTable /\ loop' = loop
<1> DEFINE older == mounts0["raspios/boot"]
<1>1. pc = 26 /\ HoldsBoot /\ raspiosImage \in Loop
  BY DEF IInv, UmountBoot, Goto, LoopInv, HoldsBoot, HoldsLoop
<1>2. mounts0 \in MountTable /\ older \in Seq(Loop)
  BY DEF IInv, TypeOK, MountTable, Dir
<1>3. mounts = [mounts0 EXCEPT !["raspios/boot"] = Append(older, raspiosImage)]
  BY <1>1 DEF IInv, MountInv
<1>4. mounts["raspios/boot"] = Append(older, raspiosImage)
  BY <1>2, <1>3 DEF MountTable, Dir
<1>5. mounts' = [mounts EXCEPT !["raspios/boot"] =
                   SubSeq(Append(older, raspiosImage), 1,
                          Len(Append(older, raspiosImage)) - 1)]
  BY <1>4 DEF UmountBoot, Umount
<1>6. SubSeq(Append(older, raspiosImage), 1,
             Len(Append(older, raspiosImage)) - 1) = older
  BY <1>1, <1>2, UmountUndoesMount
<1>7. mounts' = [mounts EXCEPT !["raspios/boot"] = older]
  BY <1>5, <1>6
<1>8. mounts' = mounts0
  BY <1>2, <1>3, <1>7 DEF MountTable, Dir
<1>9. ASSUME NEW l \in Loop, loop[l] = "closing" PROVE Uses(mounts', l)
  <2>1. loop0[l] = "closing"
    BY <1>1, <1>9 DEF IInv, TypeOK, LoopTable, LoopInv
  <2> QED
    BY <1>8, <2>1 DEF IInv, SoundInv, Sound
<1>10. loop' = loop
  BY <1>9 DEF UmountBoot, Umount, IInv, TypeOK, LoopTable
<1> QED
  BY <1>2, <1>8, <1>10

(* before the first run *)
LEMMA IInvInit == Init => IInv
<1> SUFFICES ASSUME Init PROVE IInv
  OBVIOUS
<1>1. DisksOK /\ FilesInv
  BY DisksBegin, FilesApart DEF Init, DisksInit, FilesInv
<1> QED
  BY <1>1, EmptyTables, SoundEmpty, FaultAssumption
  DEF Init, IInv, TypeOK, Lines, SoundInv, LoopInv, MountInv, DriveInv, HoldsLoop, HoldsBoot

(* devices go, and the releases stay what they are                          *)
LEMMA ReleasesKept ==
  ASSUME IInv, Forget, \A l \in Loop : loop[l] = "free" => loop'[l] = "free"
  PROVE  DisksOK' /\ FilesInv'
<1>1. \A i \in Image : fs'[i] = fs[i]
  BY NamedFilesStay, FilesApart
<1> QED
  BY <1>1, DisksForgotten DEF IInv, TypeOK, FilesInv

(* nothing happens to the files                                             *)
LEMMA FilesStay ==
  ASSUME IInv, UNCHANGED <<loop, disks>>
  PROVE  DisksOK' /\ FilesInv'
  BY DisksStay DEF IInv, TypeOK, FilesInv, disks

(* every command, failure and act of the operator keeps IInv *)
LEMMA IInvNext == IInv /\ [Next]_vars => IInv'
<1> SUFFICES ASSUME IInv, [Next]_vars PROVE IInv'
  OBVIOUS
<1> DEFINE Files == DisksOK' /\ FilesInv'
<1>a. UNCHANGED <<loop, disks>> => Files
  BY FilesStay
<1>b. Forget /\ (\A l \in Loop : loop[l] = "free" => loop'[l] = "free") => Files
  BY ReleasesKept
<1>c. loop \in LoopTable /\ DisksOK
  BY DEF IInv, TypeOK
<1>d. image \in Image \cup {"none"} /\ "none" \notin Image /\ Image \subseteq Origin
      /\ Image \subseteq File /\ "none" \notin Loop
  BY FilesApart DEF IInv, TypeOK, Origin
<1>f. HoldsBoot => /\ Source("b.dtb") \subseteq {image}
                   /\ Source("kernel8.img") \subseteq {image}
  BY SourceIsOwn DEF Features
<1>g. 14 < pc => image \in Image
  BY DEF IInv, TypeOK, DriveInv
<1> HIDE DEF Files
<1> USE EmptyTables, SoundEmpty
    DEF IInv, TypeOK, Lines, SoundInv, LoopInv, MountInv, DriveInv, HoldsLoop,
        HoldsBoot, Goto, Exit, host, files, copied, run
<1>e. UNCHANGED <<loop, disks>> => DisksOK' /\ FilesInv' /\ behind' = behind
  BY <1>a DEF Files, disks
<1>1. CASE Start
  BY <1>1, <1>e DEF Start
<1>2. CASE ListImages
  BY <1>2, <1>d, <1>e DEF ListImages
<1>3. CASE Resize
  BY <1>3, <1>d, <1>e DEF Resize
<1>4. ASSUME NEW l \in Loop, AttachImage(l) PROVE IInv'
  <2>0. image \in File \ {"none"}
    BY <1>4, <1>d DEF AttachImage
  <2>1. loop' \in LoopTable /\ Sound(loop', mounts')
    BY <1>4, LoopTypes, SoundAttach DEF AttachImage
  <2>2. loop0[l] = "free" /\ loop' = [loop0 EXCEPT ![l] = "raspios"]
    BY <1>4 DEF AttachImage, Attach
  <2>3. DisksOK' /\ FilesInv' /\ behind'[l] = image
    <3>1. fs \in FsType /\ fs["none"] = Empty /\ table \in TableType /\ table["none"] = Blank
          /\ behind \in [Loop -> File]
      BY <1>c DEF DisksOK, FsType, TableType
    <3>2. DisksOK'
      BY <1>4, <1>c, <2>0, <3>1, DisksAttached DEF AttachImage
    <3> QED
      BY <1>4, <3>1, <3>2 DEF AttachImage, FilesInv
  <2> QED
    BY <1>4, <2>1, <2>2, <2>3 DEF AttachImage
<1>5. CASE MountBoot
  <2>1. raspiosImage \in Loop /\ "raspios/boot" \in Dir /\ loop' = loop
    BY <1>5 DEF MountBoot, Dir
  <2>2. mounts' \in MountTable /\ Sound(loop', mounts')
    BY <1>5, <2>1, MountTypes, SoundMount DEF MountBoot
  <2>3. mounts' = [mounts0 EXCEPT !["raspios/boot"] = Append(@, raspiosImage)]
    BY <1>5 DEF MountBoot, Mount
  <2> QED
    BY <1>5, <1>e, <2>2, <2>3 DEF MountBoot
<1>6. CASE CopyDtb
  <2>1. dtb' = image /\ image \in Image
    BY <1>6, <1>f, <1>g DEF CopyDtb
  <2> QED
    BY <1>6, <1>d, <1>e, <2>1 DEF CopyDtb
<1>7. CASE CopyKernel
  <2>1. kernel' = image /\ image \in Image
    BY <1>7, <1>f, <1>g DEF CopyKernel
  <2> QED
    BY <1>7, <1>d, <1>e, <2>1 DEF CopyKernel
<1>8. CASE UmountBoot
  <2>1. "raspios/boot" \in Dir
    BY DEF Dir
  <2>2. Sound(loop', mounts') /\ loop' = loop
    BY <1>8, <2>1, SoundUmount, UmountGivesBack DEF UmountBoot
  <2>3. DisksOK' /\ FilesInv'
    BY <1>8, <1>b, <2>2 DEF UmountBoot, Files
  <2>4. behind'[raspiosImage] = image
    <3>1. raspiosImage \in Loop /\ loop'[raspiosImage] = "raspios"
      BY <1>8, <2>2 DEF UmountBoot, LoopTable
    <3> QED
      BY <1>8, <3>1, FileStaysBehind DEF UmountBoot
  <2> QED
    BY <1>8, <2>2, <2>3, <2>4, UmountGivesBack DEF UmountBoot
<1>9. CASE DetachImage
  <2>1. raspiosImage \in Loop /\ mounts = mounts0 /\ mounts' = mounts
    BY <1>9 DEF DetachImage
  <2>2. ~InUse(raspiosImage)
    BY <1>9, <2>1 DEF DetachImage, Sound, InUse
  <2>3. loop' = loop0
    BY <1>9, <2>1, <2>2 DEF DetachImage, Detach, Gone, LoopTable
  <2>4. DisksOK' /\ FilesInv'
    BY <1>9, <1>b DEF DetachImage, Detach, LoopTable, Files
  <2> QED
    BY <1>9, <2>1, <2>3, <2>4 DEF DetachImage
<1>10. CASE StartQemu \/ QemuExits
  BY <1>10, <1>e DEF StartQemu, QemuExits
<1>11. CASE CommandFails \/ Fault
  BY <1>11, <1>e, FaultAssumption DEF CommandFails, Fault
<1>12. ASSUME NEW i \in Image, Download(i) PROVE IInv'
  <2>1. i \in File \ {"none"} /\ i \in Build \cup Image
    BY <1>d
  <2>2. DisksOK'
    <3>1. fs' \in FsType /\ fs'["none"] = Empty
      BY <1>12, <2>1, FileWritten, ContentsType DEF Download
    <3>2. table' \in TableType /\ table'["none"] = Blank
      BY <1>12, <2>1, ContentsType DEF Download, DisksOK, TableType
    <3> QED
      BY <1>12, <3>1, <3>2, DisksWritten DEF Download
  <2>3. FilesInv'
    BY <1>12, <1>d DEF Download, FilesInv, DisksOK
  <2> QED
    BY <1>12, <2>2, <2>3 DEF Download
<1>13. CASE MakeDirectory
  BY <1>13, <1>e DEF MakeDirectory
<1>18. ASSUME NEW i \in Image, Delete(i) PROVE IInv'
  BY <1>18, <1>e DEF Delete
<1>14. CASE OperatorUmount
  <2>1. "raspios/boot" \in Dir
    BY DEF Dir
  <2>2. mounts' \in MountTable /\ loop' \in LoopTable /\ Sound(loop', mounts')
    BY <1>14, <2>1, MountTypes, SoundUmount DEF OperatorUmount
  <2>3. DisksOK' /\ FilesInv'
    BY <1>14, <1>b, <2>1, UmountFrees DEF OperatorUmount, Files
  <2> QED
    BY <1>14, <2>2, <2>3 DEF OperatorUmount
<1>15. ASSUME NEW l \in Loop, OperatorDetach(l) PROVE IInv'
  <2>1. loop' \in LoopTable /\ Sound(loop', mounts')
    BY <1>15, LoopTypes, SoundDetach DEF OperatorDetach
  <2>2. DisksOK' /\ FilesInv'
    BY <1>15, <1>b DEF OperatorDetach, Detach, LoopTable, Files
  <2> QED
    BY <1>15, <2>1, <2>2 DEF OperatorDetach
<1>16. CASE Reboot
  <2>1. DisksOK' /\ FilesInv'
    BY <1>16, <1>b DEF Reboot, AllFree, Files
  <2> QED
    BY <1>16, <2>1 DEF Reboot
<1>17. CASE UNCHANGED vars
  BY <1>17, <1>e DEF vars
<1> HIDE DEF IInv
<1> QED
  BY <1>1, <1>2, <1>3, <1>4, <1>5, <1>6, <1>7, <1>8, <1>9, <1>10, <1>11,
     <1>12, <1>13, <1>14, <1>15, <1>16, <1>17, <1>18
  DEF Next, Script, Progress, Operator

-----------------------------------------------------------------------------
(* The state is well typed; above all, line 16 mounts and line 27 detaches  *)
(* the device that line 15 attached, never an empty string.                 *)
THEOREM TypeCorrect == Spec => []TypeOK
<1>1. IInv => TypeOK
  BY DEF IInv
<1> QED
  BY <1>1, IInvInit, IInvNext, PTL DEF Spec

(* Whatever older runs left attached or mounted, and wherever a run ends:   *)
(* the host is as the run found it plus its device from line 15 to 27 and   *)
(* its mount from line 16 to 26, and as the run found it when QEMU starts.  *)
THEOREM AccountsForHost == Spec => []HostAccounted
<1>1. ASSUME IInv PROVE HostAccounted
  <2> SUFFICES ASSUME pc # 0
               PROVE  /\ \A m \in Dir :
                           mounts[m] = IF m = "raspios/boot" /\ 16 < pc /\ pc <= 26
                                       THEN Append(mounts0[m], raspiosImage) ELSE mounts0[m]
                      /\ \A l \in Loop :
                           loop[l] = IF l = raspiosImage /\ 15 < pc /\ pc <= 27
                                     THEN "raspios" ELSE loop0[l]
    BY DEF HostAccounted
  <2>1. mounts0 \in MountTable /\ loop0 \in LoopTable
    BY <1>1 DEF IInv, TypeOK
  <2>2. ASSUME NEW m \in Dir
        PROVE  mounts[m] = IF m = "raspios/boot" /\ 16 < pc /\ pc <= 26
                           THEN Append(mounts0[m], raspiosImage) ELSE mounts0[m]
    <3>1. CASE HoldsBoot
      <4>1. mounts = [mounts0 EXCEPT !["raspios/boot"] =
                        Append(mounts0["raspios/boot"], raspiosImage)]
        BY <1>1, <3>1 DEF IInv, MountInv
      <4> QED
        BY <2>1, <3>1, <4>1 DEF HoldsBoot, MountTable
    <3>2. CASE ~HoldsBoot
      BY <1>1, <3>2 DEF IInv, MountInv, HoldsBoot
    <3> QED
      BY <3>1, <3>2
  <2>3. ASSUME NEW l \in Loop
        PROVE  loop[l] = IF l = raspiosImage /\ 15 < pc /\ pc <= 27
                         THEN "raspios" ELSE loop0[l]
    BY <1>1, <2>1 DEF IInv, LoopInv, HoldsLoop, LoopTable
  <2> QED
    BY <2>2, <2>3
<1> QED
  BY <1>1, IInvInit, IInvNext, PTL DEF Spec

(* QEMU gets kernel and device tree of the only release in the directory,   *)
(* the one on its drive.                                                    *)
THEOREM BootsTheDrive == Spec => []KernelMatchesDrive
<1>1. IInv => KernelMatchesDrive
  BY DEF IInv, DriveInv, KernelMatchesDrive
<1> QED
  BY <1>1, IInvInit, IInvNext, PTL DEF Spec

-----------------------------------------------------------------------------
(* The refinement: what each step is to a Launcher. *)

(* the lease is the run's device, which is not free *)
LeaseHeld ==
  /\ HoldsLoop => Leased = {raspiosImage} /\ loop[raspiosImage] # "free"
  /\ ~HoldsLoop => Leased = {}

(* ... at every line of the script *)
LEMMA LeaseType == IInv => LeaseHeld
<1> SUFFICES ASSUME IInv PROVE LeaseHeld
  OBVIOUS
<1>1. HoldsLoop => raspiosImage \in Loop /\ loop[raspiosImage] # "free"
  BY DEF IInv, TypeOK, Lines, LoopTable, LoopInv, HoldsLoop
<1>2. \A l \in Loop : l \in Leased <=> HoldsLoop /\ l = raspiosImage
  BY DEF Leased, HoldsLoop
<1>3. Leased \subseteq Loop
  BY DEF Leased
<1> QED
  BY <1>1, <1>2, <1>3, Zenon DEF LeaseHeld

(* every command, failure and act of the operator is a step or a stutter *)
LEMMA StepRefines ==
  IInv /\ LeaseHeld /\ LeaseHeld' /\ [Next]_vars => [L!Next]_(L!vars)
<1> SUFFICES ASSUME IInv, LeaseHeld, LeaseHeld', [Next]_vars
             PROVE  [L!Next]_(L!vars)
  OBVIOUS
<1>a. loop \in LoopTable /\ pc \in Lines
  BY DEF IInv, TypeOK
<1>b. /\ HoldsLoop => Leased = {raspiosImage} /\ loop[raspiosImage] # "free"
      /\ ~HoldsLoop => Leased = {}
  BY DEF LeaseHeld
<1>c. /\ HoldsLoop' => Leased' = {raspiosImage'} /\ loop'[raspiosImage'] # "free"
      /\ ~HoldsLoop' => Leased' = {}
  BY DEF LeaseHeld
<1> DEFINE Stutters == /\ Phase' = Phase /\ Leased' = Leased /\ Leaked' = Leaked
                       /\ faults' = faults
<1>d. Stutters => UNCHANGED L!vars
  BY DEF L!vars
<1> USE DEF HoldsLoop, Lines, Goto, Exit, host, files, copied, run
<1>1. CASE Start
  BY <1>1, <1>b, <1>c DEF Start, Phase, Leaked, L!Next, L!Begin
<1>2. CASE ListImages \/ Resize \/ MountBoot \/ CopyDtb \/ CopyKernel
  <2> Stutters
    BY <1>2, <1>b, <1>c DEF ListImages, Resize, MountBoot, CopyDtb, CopyKernel,
      Phase, Leaked
  <2> QED
    BY <1>d
<1>3. ASSUME NEW l \in Loop, AttachImage(l) PROVE L!Next
  <2>1. /\ Phase = "preparing" /\ Phase' = "preparing" /\ faults' = faults
        /\ Leased = {} /\ Leased' = {l}
    BY <1>3, <1>b, <1>c DEF AttachImage, Phase
  <2>2. l \notin Leaked /\ Leaked' = Leaked
    BY <1>3, <1>a, <2>1 DEF AttachImage, Attach, LoopTable, Leaked
  <2> QED
    BY <2>1, <2>2 DEF L!Next, L!Acquire
<1>4. CASE UmountBoot
  <2> Stutters
    BY <1>4, <1>b, <1>c, UmountGivesBack DEF UmountBoot, Phase, Leaked
  <2> QED
    BY <1>d
<1>5. CASE DetachImage
  <2>1. /\ raspiosImage \in Loop /\ Leased = {raspiosImage} /\ Leased' = {}
        /\ Phase = "preparing" /\ Phase' = "preparing" /\ faults' = faults
    BY <1>5, <1>b, <1>c DEF DetachImage, Phase, IInv, LoopInv
  <2>2. loop = [loop0 EXCEPT ![raspiosImage] = "raspios"] /\ loop' = loop0
    BY <1>5, IInvNext DEF DetachImage, IInv, LoopInv
  <2>3. loop0[raspiosImage] = "free" /\ loop0 \in LoopTable
    BY <1>5 DEF DetachImage, IInv, LoopInv, TypeOK
  <2>4. Leaked' = Leaked
    BY <2>1, <2>2, <2>3 DEF Leaked, LoopTable
  <2> QED
    BY <2>1, <2>4 DEF L!Next, L!Release
<1>6. CASE StartQemu
  BY <1>6, <1>b, <1>c DEF StartQemu, Phase, Leaked, L!Next, L!Boot
<1>7. CASE QemuExits
  BY <1>7, <1>b, <1>c DEF QemuExits, Phase, Leaked, L!Next, L!Finish
<1>8. CASE CommandFails \/ Fault
  <2>1. /\ Phase # "idle" /\ Phase' = "idle" /\ Leased' = {}
        /\ loop' = loop
    BY <1>8, <1>c DEF CommandFails, MustFail, Fault, Phase
  <2>2. Leaked \subseteq Leaked' /\ Leaked' \subseteq Leaked \cup Leased
    BY <2>1 DEF Leaked
  <2>3. \/ Phase = "preparing" /\ faults' = faults
        \/ faults' = faults + 1
    BY <1>8 DEF CommandFails, MustFail, Fault, Phase
  <2> QED
    BY <2>1, <2>2, <2>3 DEF L!Next, L!GiveUp, L!Fail, L!Leak
<1>9. CASE MakeDirectory \/ (\E i \in Image : Download(i) \/ Delete(i))
  <2> Stutters
    BY <1>9, <1>b, <1>c DEF MakeDirectory, Download, Delete, Phase, Leaked
  <2> QED
    BY <1>d
<1>10. CASE OperatorUmount \/ (\E l \in Loop : OperatorDetach(l))
  <2>1. /\ Phase = "idle" /\ Phase' = "idle" /\ faults' = faults
        /\ Leased = {} /\ Leased' = {}
    BY <1>10, <1>b, <1>c DEF OperatorUmount, OperatorDetach, Phase
  <2>2. \A l \in Loop : loop[l] = "free" => loop'[l] = "free"
    BY <1>10, <1>a DEF OperatorUmount, OperatorDetach, Umount, Detach, LoopTable
  <2>3. Leaked' \subseteq Leaked
    BY <2>1, <2>2 DEF Leaked
  <2> QED
    BY <2>1, <2>3 DEF L!Next, L!CleanUp
<1>11. CASE Reboot
  <2>1. Phase' = "idle" /\ Leased' = {} /\ Leaked' = {}
    BY <1>11, <1>c DEF Reboot, Phase, Leaked, AllFree
  <2>2. faults' = faults /\ Phase = "idle"
    BY <1>11 DEF Reboot, Phase
  <2> QED
    BY <2>1, <2>2 DEF L!Next, L!HostRestarts
<1>12. CASE UNCHANGED vars
  <2> Stutters
    BY <1>12, <1>b, <1>c DEF vars, Phase, Leaked
  <2> QED
    BY <1>d
<1> QED
  BY <1>1, <1>2, <1>3, <1>4, <1>5, <1>6, <1>7, <1>8, <1>9, <1>10, <1>11, <1>12
  DEF Next, Script, Progress, Operator

(* The Raspberry Pi OS launcher keeps a launcher's promise to the host: its *)
(* device is leased while it is read from, given back before the guest      *)
(* starts, and left behind only by a run that ends early.                   *)
THEOREM RaspianIsLauncher == Spec => ImplementsLauncher
<1>1. Init => L!Init
  BY EmptyTables DEF Init, L!Init, Phase, Leased, Leaked, AllFree
<1> QED
  BY <1>1, IInvInit, IInvNext, LeaseType, StepRefines, PTL
  DEF Spec, ImplementsLauncher, L!Spec
=============================================================================
