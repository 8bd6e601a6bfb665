---------------------- MODULE HostSessionGuests_proofs ----------------------
(***************************************************************************)
(* What the guests of HostSession are booted from, for any number of       *)
(* devices, builds and releases. A device that is mounted cannot change    *)
(* hands, whatever losetup -D does; so what a script formats, fills, reads *)
(* and boots is its own, unless a device was taken from it between its     *)
(* losetup and its mount.                                                  *)
(***************************************************************************)
EXTENDS HostSession_proofs

(* the scripts see the host and its files as this module does               *)
LEMMA AsInPrepare ==
  /\ \A m \in Dir : P!At(m) = At(m) /\ P!Shown(m) = Shown(m) /\ (P!Umount(m) <=> Umount(m))
  /\ \A l \in Loop : /\ P!Detach(l) <=> Detach(l)
                     /\ \A k : P!Attach(l, k) <=> Attach(l, k)
                     /\ \A p \in Part : P!Partition(l, p) = Partition(l, p)
  /\ \A D \in SUBSET Dir : P!Emptied(D) = Emptied(D)
  /\ \A X, m : m \in Dir => P!Copied(X, m) = Copied(X, m)
  /\ \A x \in Build : P!Contents(x) = Contents(x) /\ P!Layout(x) = Layout(x)
  /\ P!Forget <=> Forget
<1>1. /\ \A m \in Dir : P!At(m) = At(m) /\ P!Shown(m) = Shown(m)
      /\ \A l \in Loop : \A p \in Part : P!Partition(l, p) = Partition(l, p)
  BY DEF P!At, At, P!Shown, Shown, P!Mounted, Mounted, P!Visible, Visible, P!PartOf, PartOf,
    P!Dir, Dir, P!Partition, Partition
<1>2. /\ \A m \in Dir : P!Umount(m) <=> Umount(m)
      /\ \A l \in Loop : P!Detach(l) <=> Detach(l)
      /\ \A l \in Loop : \A k : P!Attach(l, k) <=> Attach(l, k)
  BY DEF P!Umount, Umount, P!Uses, Uses, P!Mounted, Mounted, P!Dir, Dir, P!Detach, Detach,
    P!Gone, Gone, P!InUse, InUse, P!Attach, Attach
<1>3. \A D \in SUBSET Dir : P!Emptied(D) = Emptied(D)
  BY DEF P!Emptied, Emptied, P!At, At, P!Mounted, Mounted, P!Visible, Visible,
    P!PartOf, PartOf, P!Dir, Dir, P!File, File, P!Part, Part
<1>4. \A X, m : m \in Dir => P!Copied(X, m) = Copied(X, m)
  BY DEF P!Copied, Copied, P!At, At, P!Mounted, Mounted, P!Visible, Visible,
    P!PartOf, PartOf, P!Dir, Dir, P!File, File, P!Part, Part
<1>5. \A x \in Build : P!Contents(x) = Contents(x) /\ P!Layout(x) = Layout(x)
  BY DEF P!Contents, Contents, P!Layout, Layout, P!Part, Part
<1>6. P!Forget <=> Forget
  BY DEF P!Forget, Forget, P!Unlink, Unlink, P!Remaining, Remaining, P!Released, Released,
    P!File, File, P!Empty, Empty, P!Blank, Blank, P!Part, Part
<1> QED
  BY <1>1, <1>2, <1>3, <1>4, <1>5, <1>6

LEMMA AsInRaspian ==
  /\ R!Shown("raspios/boot") = Shown("raspios/boot")
  /\ R!Umount("raspios/boot") <=> Umount("raspios/boot")
  /\ \A l \in Loop : /\ R!Detach(l) <=> Detach(l)
                     /\ \A k : R!Attach(l, k) <=> Attach(l, k)
  /\ \A x \in Image : R!Contents(x) = Contents(x) /\ R!Layout(x) = Layout(x)
  /\ R!Forget <=> Forget
<1>1. R!Shown("raspios/boot") = Shown("raspios/boot")
  BY DEF R!At, At, R!Shown, Shown, R!Mounted, Mounted, R!Visible, Visible, R!PartOf, PartOf,
    R!Dir, Dir
<1>2. /\ R!Umount("raspios/boot") <=> Umount("raspios/boot")
      /\ \A l \in Loop : R!Detach(l) <=> Detach(l)
      /\ \A l \in Loop : \A k : R!Attach(l, k) <=> Attach(l, k)
  BY DEF R!Umount, Umount, R!Uses, Uses, R!Mounted, Mounted, R!Dir, Dir, R!Detach, Detach,
    R!Gone, Gone, R!InUse, InUse, R!Attach, Attach
<1>3. \A x \in Image : R!Contents(x) = Contents(x) /\ R!Layout(x) = Layout(x)
  BY DEF R!Contents, Contents, R!Layout, Layout, R!Part, Part
<1>4. R!Forget <=> Forget
  BY DEF R!Forget, Forget, R!Unlink, Unlink, R!Remaining, Remaining, R!Released, Released,
    R!File, File, R!Empty, Empty, R!Blank, Blank, R!Part, Part
<1> QED
  BY <1>1, <1>2, <1>3, <1>4

-----------------------------------------------------------------------------
(* What a script has mounted is what it sees, and keeps its device.         *)
LEMMA OwnVisible ==
  ASSUME IInv, Kernel, MInv, pc # 0, NEW m \in PDir, P!HoldsMount(m)
  PROVE  /\ P!Own(m) \in Loop /\ loop[P!Own(m)] # "free"
         /\ Mounted(m) /\ At(m) = behind[P!Own(m)]
<1>1. P!Own(m) \in Loop
  BY DEF IInv, P!Lines, P!Own, P!HoldsMount, P!HoldsCard, P!HoldsWic
<1>2. mounts[m] = Append(mounts0[m], P!Own(m)) /\ m \in Dir
  BY Zenon DEF MInv, P!Accounted, PDir
<1>3. mounts0[m] \in Seq(Loop)
  BY <1>2 DEF MInv, MountTable
<1>4. Mounted(m) /\ Visible(m) = P!Own(m) /\ InUse(P!Own(m))
  BY <1>1, <1>2, <1>3, VisibleInUse
<1> QED
  BY <1>1, <1>4 DEF Kernel, Sound, InUse, At

CardThere == 32 < pc /\ pc <= 55 => loopdevice \in Loop /\ loop[loopdevice] # "free"
WicThere == 44 < pc /\ pc <= 73 => yoctoImage \in Loop /\ loop[yoctoImage] # "free"
BootThere == HoldsBoot => /\ raspiosImage \in Loop /\ loop[raspiosImage] # "free"
                          /\ At("raspios/boot") = behind[raspiosImage]

LEMMA OwnDevicesStay == IInv /\ Kernel /\ MInv => CardThere /\ WicThere /\ BootThere
<1> SUFFICES ASSUME IInv, Kernel, MInv PROVE CardThere /\ WicThere /\ BootThere
  OBVIOUS
<1>1. CardThere /\ WicThere
  BY OwnVisible DEF IInv, P!Lines, PDir, Dir, P!HoldsMount, P!Own, CardThere, WicThere
<1>2. ASSUME HoldsBoot
      PROVE  /\ raspiosImage \in Loop /\ loop[raspiosImage] # "free"
             /\ At("raspios/boot") = behind[raspiosImage]
  <2> DEFINE d == "raspios/boot"
  <2>1. rpc # 0 /\ raspiosImage \in Loop /\ d \in Dir
    BY <1>2 DEF IInv, R!Lines, HoldsBoot, HoldsImage, Dir
  <2>2. mounts[d] = Append(rmounts0[d], raspiosImage) /\ rmounts0[d] \in Seq(Loop)
    BY <1>2, <2>1 DEF MInv, RAccounted, MountTable
  <2>3. Mounted(d) /\ Visible(d) = raspiosImage /\ InUse(raspiosImage)
    BY <2>1, <2>2, VisibleInUse
  <2> QED
    BY <2>1, <2>3 DEF Kernel, Sound, InUse, At
<1> QED
  BY <1>1, <1>2 DEF BootThere

LEMMA OwnDevicesStayNext ==
  IInv /\ Kernel /\ MInv /\ [Next]_vars => (CardThere /\ WicThere /\ BootThere)'
  BY IInvNext, KernelNext, MInvNext, OwnDevicesStay, PTL

(* what is mounted on the directories of the card, and of the image *)
LEMMA OwnShown ==
  ASSUME IInv, Kernel, MInv, NEW p \in Part
  PROVE  /\ 33 < pc /\ pc <= 55 => At(P!Mnt[p]) = behind[loopdevice]
         /\ 45 < pc /\ pc <= 73 => At(P!Yoctomnt[p]) = behind[yoctoImage]
  BY OwnVisible DEF IInv, P!Lines, PDir, Dir, P!HoldsMount, P!Own, P!Mnt, P!Yoctomnt, Part

LEMMA Directories ==
  ASSUME NEW p \in Part
  PROVE  /\ P!Mnt[p] \in Dir /\ PartOf[P!Mnt[p]] = p
         /\ P!Yoctomnt[p] \in Dir /\ PartOf[P!Yoctomnt[p]] = p
  BY DEF P!Mnt, P!Yoctomnt, Part, PartOf, Dir

-----------------------------------------------------------------------------
(* The files stay well formed, and nothing is behind a device that is free. *)
FileTypes ==
  /\ DisksOK
  /\ fetched \in SUBSET Build
  /\ image \in Image \cup {"none"} /\ (14 < rpc => image \in Image)

(* devices go, and what is behind them is forgotten *)
LEMMA FilesForgotten ==
  ASSUME FileTypes, Kernel, Forget,
         \/ \E m \in Dir : Umount(m)
         \/ \E l \in Loop : Detach(l)
         \/ DetachAll \/ loop' = AllFree
  PROVE  DisksOK'
<1>1. \A l \in Loop : loop[l] = "free" => loop'[l] = "free"
  BY UmountFrees DEF Kernel, Detach, DetachAll, LoopTable, AllFree
<1> QED
  BY <1>1, DisksForgotten DEF FileTypes

LEMMA PrepareFileTypes == IInv /\ Kernel /\ FileTypes /\ Prepare => FileTypes'
<1> SUFFICES ASSUME IInv, Kernel, FileTypes, Prepare PROVE FileTypes'
  OBVIOUS
<1>a. /\ DisksOK /\ loop \in LoopTable /\ mounts \in MountTable
      /\ fs \in FsType /\ fs["none"] = Empty
      /\ table \in TableType /\ table["none"] = Blank
  BY DEF Kernel, FileTypes, DisksOK, FsType, TableType
<1>f. (fetched' \in {{}, fetched} \/ fetched' \in Deploys) /\ DisksOK' => FileTypes'
  BY DeployAssumption DEF FileTypes, Prepare, raspian
<1>s. UNCHANGED <<loop, disks>> => DisksOK'
  BY <1>a, DisksStay
<1>w. ASSUME UNCHANGED <<loop, behind, table>>, fs' \in FsType, fs'["none"] = Empty
      PROVE  DisksOK'
  BY <1>a, <1>w, DisksWritten
<1> USE DEF P!Goto, P!Exit, P!host, P!disks, P!work, P!run, disks
<1>1. CASE P!Start \/ P!ImageExists \/ P!CreateImage
  BY <1>1, <1>s, <1>f DEF P!Start, P!ImageExists, P!CreateImage
<1>2. CASE P!RmMnt \/ P!RmYoctomnt
  <2>1. \A D \in SUBSET Dir : P!Emptied(D) \in FsType /\ P!Emptied(D)["none"] = Empty
    BY <1>a, EmptiedType, AsInPrepare
  <2> QED
    BY <1>2, <1>w, <1>f, <2>1 DEF P!RmMnt, P!RmYoctomnt, Dir
<1>3. CASE P!Cfdisk
  <2>1. table' \in TableType /\ table'["none"] = Blank
    BY <1>3, <1>a, FilesApart DEF P!Cfdisk, P!Part, TableType, Part
  <2>2. DisksOK'
    BY <1>3, <1>a, <2>1, DisksWritten DEF P!Cfdisk
  <2> QED
    BY <1>3, <1>f, <2>2 DEF P!Cfdisk
<1>4. ASSUME NEW l \in Loop, P!AttachCard(l) PROVE FileTypes'
  <2>1. DisksOK'
    BY <1>4, <1>a, FilesApart, DisksAttached, AsInPrepare DEF P!AttachCard
  <2> QED
    BY <1>4, <1>f, <2>1 DEF P!AttachCard
<1>5. ASSUME NEW l \in Loop, NEW b \in Build, P!AttachWic(l, b) PROVE FileTypes'
  <2>1. l \in File \ {"none"}
    BY FilesApart
  <2>2. fs' \in FsType /\ fs'["none"] = Empty /\ table' \in TableType /\ table'["none"] = Blank
    BY <1>5, <1>a, <2>1, ContentsType, AsInPrepare DEF P!AttachWic, FsType, TableType
  <2>3. DisksOK'
    BY <1>5, <1>a, <2>1, <2>2, DisksAttached, AsInPrepare DEF P!AttachWic
  <2> QED
    BY <1>5, <1>f, <2>3 DEF P!AttachWic
<1>6. ASSUME NEW p \in Part, NEW from \in {29, 30}, NEW to, P!Mkfs(from, to, p)
      PROVE  FileTypes'
  <2>1. loopdevice \in Loop
    BY <1>6 DEF P!Mkfs, P!HoldsCard, IInv
  <2>2. Partition(loopdevice, p) # "missing"
    BY <1>6, <2>1, AsInPrepare DEF P!Mkfs
  <2>3. DisksOK'
    BY <1>6, <1>a, <2>1, <2>2, Formatted, DisksWritten DEF P!Mkfs
  <2> QED
    BY <1>6, <1>f, <2>3 DEF P!Mkfs
<1>7. CASE \/ P!MountPart(32, 33, loopdevice, "mnt/boot")
           \/ P!MountPart(33, 37, loopdevice, "mnt/rootfs")
           \/ P!MountPart(44, 45, yoctoImage, "yoctomnt/boot")
           \/ P!MountPart(45, 49, yoctoImage, "yoctomnt/rootfs")
  BY <1>7, <1>s, <1>f DEF P!MountPart
<1>8. CASE P!RmWic \/ P!Bunzip2 \/ P!ListWic \/ (\E d \in Deploys : P!Fetch(d))
  BY <1>8, <1>s, <1>f DEF P!RmWic, P!Bunzip2, P!ListWic, P!Fetch
<1>9. ASSUME NEW p \in Part, NEW line, NEW to,
             P!CopyPart(line, to, p) \/ P!CopyFails(line, p)
      PROVE  FileTypes'
  <2>1. P!Source(p) \in SUBSET Origin
    BY <1>a, Directories, AtFile, AsInPrepare DEF P!Source
  <2>2. /\ P!Copied(P!Source(p), P!Mnt[p]) \in FsType
        /\ P!Copied(P!Source(p), P!Mnt[p])["none"] = Empty
    BY <1>a, <2>1, Directories, CopiedType, AsInPrepare
  <2> QED
    BY <1>9, <1>a, <1>w, <1>f, <2>2 DEF P!CopyPart, P!CopyFails
<1>10. ASSUME NEW from, NEW to, NEW m \in Dir, P!UmountPart(from, to, m)
       PROVE  FileTypes'
  <2>1. DisksOK'
    BY <1>10, FilesForgotten, AsInPrepare DEF P!UmountPart
  <2> QED
    BY <1>10, <1>f, <2>1 DEF P!UmountPart
<1>11. CASE P!StartQemu \/ P!QemuExits
  BY <1>11, <1>s, <1>f DEF P!StartQemu, P!QemuExits
<1>12. ASSUME NEW p \in Part,
              (p = "rootfs" /\ P!GuestWrites) \/ P!StaleWriteback(p)
       PROVE  FileTypes'
  <2>1. PICK x \in Origin : fs' = [fs EXCEPT !["card"][p] = @ \cup {x}]
    BY <1>12 DEF P!GuestWrites, P!StaleWriteback, Origin
  <2>2. fs' \in FsType /\ fs'["none"] = Empty
    BY <1>a, <2>1, FilesApart, PartWritten
  <2>3. UNCHANGED <<loop, behind, table, fetched>>
    BY <1>12 DEF P!GuestWrites, P!StaleWriteback
  <2> QED
    BY <1>w, <1>f, <2>2, <2>3
<1>13. CASE P!DetachCard \/ P!DetachWic
  <2>1. (pc = 75 => loopdevice \in Loop) /\ (pc = 76 => yoctoImage \in Loop)
    BY DEF IInv, P!HoldsCard, P!HoldsWic
  <2>2. DisksOK'
    BY <1>13, <2>1, FilesForgotten, AsInPrepare DEF P!DetachCard, P!DetachWic
  <2> QED
    BY <1>13, <1>f, <2>2 DEF P!DetachCard, P!DetachWic
<1>14. CASE P!CommandFails \/ P!Decline \/ (\E done \in SUBSET Build : P!Bunzip2Fails(done))
  BY <1>14, <1>s, <1>f DEF P!CommandFails, P!Decline, P!Bunzip2Fails
<1> QED
  BY <1>1, <1>2, <1>3, <1>4, <1>5, <1>6, <1>7, <1>8, <1>9, <1>10, <1>11, <1>12, <1>13,
     <1>14
  DEF Prepare, P!Progress, P!MustEnd, Dir, Part

LEMMA RaspianFileTypes == IInv /\ Kernel /\ FileTypes /\ Raspian => FileTypes'
<1> SUFFICES ASSUME IInv, Kernel, FileTypes, Raspian PROVE FileTypes'
  OBVIOUS
<1>a. /\ DisksOK /\ loop \in LoopTable /\ fs \in FsType /\ table \in TableType
      /\ fs["none"] = Empty /\ table["none"] = Blank
      /\ rpc \in R!Lines /\ (HoldsImage => raspiosImage \in Loop)
      /\ image \in Image \cup {"none"} /\ (14 < rpc => image \in Image)
  BY DEF IInv, Kernel, FileTypes, DisksOK, FsType, TableType
<1>f. DisksOK' /\ image' \in Image \cup {"none"} /\ (14 < rpc' => image' \in Image) => FileTypes'
  BY DEF FileTypes, Raspian, prepare
<1>s. UNCHANGED <<loop, disks>> => DisksOK'
  BY <1>a, DisksStay
<1> USE <1>a DEF R!Lines, R!Goto, R!Exit, R!host, R!disks, R!files, R!copied, R!run, disks
<1>1. CASE R!Start \/ R!ListImages \/ R!Resize \/ R!CopyDtb \/ R!CopyKernel
  BY <1>1, <1>s, <1>f DEF R!Start, R!ListImages, R!Resize, R!CopyDtb, R!CopyKernel
<1>2. ASSUME NEW l \in Loop, R!AttachImage(l) PROVE FileTypes'
  <2>1. image \in Image /\ image \in File \ {"none"}
    BY <1>2, FilesApart DEF R!AttachImage
  <2>2. DisksOK'
    BY <1>2, <2>1, DisksAttached, AsInRaspian DEF R!AttachImage
  <2> QED
    BY <1>2, <1>f, <2>2 DEF R!AttachImage
<1>3. CASE R!MountBoot \/ R!StartQemu \/ R!QemuExits \/ R!CommandFails \/ R!MakeDirectory
  BY <1>3, <1>s, <1>f DEF R!MountBoot, R!StartQemu, R!QemuExits, R!CommandFails,
    R!MakeDirectory
<1>4. CASE R!UmountBoot
  <2>1. DisksOK'
    BY <1>4, FilesForgotten, AsInRaspian DEF R!UmountBoot, Dir
  <2> QED
    BY <1>4, <1>f, <2>1 DEF R!UmountBoot
<1>5. CASE R!DetachImage
  <2>1. DisksOK'
    BY <1>5, FilesForgotten, AsInRaspian DEF R!DetachImage, HoldsImage
  <2> QED
    BY <1>5, <1>f, <2>1 DEF R!DetachImage
<1>6. ASSUME NEW i \in Image, R!Download(i) PROVE FileTypes'
  <2>1. i \in File \ {"none"}
    BY FilesApart
  <2>2. fs' \in FsType /\ fs'["none"] = Empty /\ table' \in TableType /\ table'["none"] = Blank
    BY <1>6, <2>1, ContentsType, AsInRaspian DEF R!Download, FsType, TableType
  <2>3. DisksOK'
    BY <1>6, <2>2, DisksWritten DEF R!Download
  <2> QED
    BY <1>6, <1>f, <2>3 DEF R!Download
<1>7. CASE \E i \in Image : R!Delete(i)
  BY <1>7, <1>s, <1>f DEF R!Delete
<1> QED
  BY <1>1, <1>2, <1>3, <1>4, <1>5, <1>6, <1>7 DEF Raspian, R!Progress

LEMMA FileTypesNext == IInv /\ Kernel /\ FileTypes /\ [Next]_vars => FileTypes'
<1> SUFFICES ASSUME Kernel, FileTypes, Operator \/ UNCHANGED vars PROVE FileTypes'
  BY PrepareFileTypes, RaspianFileTypes DEF Next
<1>1. UNCHANGED <<prepare, raspian>> /\ DisksOK' => FileTypes'
  BY DEF FileTypes, prepare, raspian
<1>2. CASE Operator
  <2>1. DisksOK'
    BY <1>2, FilesForgotten DEF Operator, OperatorUmount, OperatorDetach, Sweep, Reboot, Operate
  <2> QED
    BY <1>1, <1>2, <2>1 DEF Operator, OperatorUmount, OperatorDetach, Sweep, Reboot, Operate
<1>3. CASE UNCHANGED vars
  BY <1>1, <1>3, DisksStay DEF vars, host, FileTypes
<1> QED
  BY <1>2, <1>3

-----------------------------------------------------------------------------
(* What is behind a device: what it was attached to, until it goes.         *)
BehindAttached(l, f) ==
  /\ loop[l] = "free" /\ loop'[l] # "free"
  /\ behind' = [behind EXCEPT ![l] = f]
  /\ f = "card" => pc = 27

LEMMA BehindMoves ==
  ASSUME IInv, Kernel, FileTypes, [Next]_vars
  PROVE  \/ behind' = behind \/ Unlink
         \/ \E l \in Loop, f \in File \ {"none"} : BehindAttached(l, f)
<1> DEFINE Moves == \/ behind' = behind \/ Unlink
                    \/ \E l \in Loop, f \in File \ {"none"} : BehindAttached(l, f)
<1>a. loop \in LoopTable /\ (14 < rpc => image \in Image)
  BY DEF Kernel, FileTypes
<1>b. Forget => Moves
  BY DEF Forget
<1>1. CASE Prepare
  <2> USE DEF P!Goto, P!host, P!disks
  <2>1. ASSUME NEW l \in Loop, P!AttachCard(l) PROVE Moves
    <3>1. BehindAttached(l, "card")
      BY <1>a, <2>1 DEF P!AttachCard, P!Attach, BehindAttached, LoopTable
    <3> QED
      BY <3>1, FilesApart
  <2>2. ASSUME NEW l \in Loop, NEW b \in Build, P!AttachWic(l, b) PROVE Moves
    <3>1. BehindAttached(l, l)
      BY <1>a, <2>2, FilesApart DEF P!AttachWic, P!Attach, BehindAttached, LoopTable
    <3> QED
      BY <3>1, FilesApart
  <2>3. CASE P!Forget
    BY <1>b, <2>3, AsInPrepare
  <2>4. P!Progress =>
          \/ \E l \in Loop : P!AttachCard(l)
          \/ \E l \in Loop, b \in Build : P!AttachWic(l, b)
          \/ P!Forget \/ behind' = behind
    BY DEF P!Progress, P!Start, P!RmMnt, P!ImageExists, P!CreateImage, P!Cfdisk, P!Mkfs,
      P!MountPart, P!RmYoctomnt, P!RmWic, P!Fetch, P!Bunzip2, P!ListWic, P!CopyPart,
      P!UmountPart, P!StartQemu, P!QemuExits, P!DetachCard, P!DetachWic
  <2>5. \/ P!MustEnd \/ P!Decline \/ P!GuestWrites
        \/ \E p \in Part : P!StaleWriteback(p)
        => behind' = behind
    BY DEF P!MustEnd, P!CommandFails, P!Bunzip2Fails, P!CopyFails, P!Decline, P!GuestWrites,
      P!StaleWriteback
  <2> QED
    BY <1>1, <2>1, <2>2, <2>3, <2>4, <2>5 DEF Prepare
<1>2. CASE Raspian
  <2> USE DEF R!Goto, R!host, R!disks
  <2>1. ASSUME NEW l \in Loop, R!AttachImage(l) PROVE Moves
    <3>1. BehindAttached(l, image) /\ image \in Image
      BY <1>a, <2>1, FilesApart DEF R!AttachImage, R!Attach, BehindAttached, LoopTable
    <3> QED
      BY <3>1, FilesApart
  <2>2. CASE R!Forget
    BY <1>b, <2>2, AsInRaspian
  <2>3. Raspian => (\E l \in Loop : R!AttachImage(l)) \/ R!Forget \/ behind' = behind
    BY DEF Raspian, R!Progress, R!Start, R!ListImages, R!Resize, R!MountBoot, R!CopyDtb,
      R!CopyKernel, R!UmountBoot, R!DetachImage, R!StartQemu, R!QemuExits, R!CommandFails,
      R!MakeDirectory, R!Download, R!Delete
  <2> QED
    BY <1>2, <2>1, <2>2, <2>3
<1>3. CASE Operator
  BY <1>3, <1>b DEF Operator, OperatorUmount, OperatorDetach, Sweep, Reboot, Operate
<1>4. CASE UNCHANGED vars
  BY <1>4 DEF vars, disks
<1> QED
  BY <1>1, <1>2, <1>3, <1>4 DEF Next

LEMMA BehindStays ==
  ASSUME IInv, Kernel, FileTypes, [Next]_vars, NEW l \in Loop,
         loop[l] # "free", loop'[l] # "free"
  PROVE  behind'[l] = behind[l]
  BY BehindMoves DEF FileTypes, DisksOK, Unlink, Released, BehindAttached

(* the card is behind a device from line 27 on only *)
LEMMA NoOtherCard ==
  ASSUME IInv, Kernel, FileTypes, [Next]_vars, NEW l \in Loop, pc # 27,
         behind'[l] = "card"
  PROVE  behind[l] = "card"
  BY BehindMoves, FilesApart DEF FileTypes, DisksOK, Unlink, BehindAttached

(* a run goes through the script from the top *)
LEMMA Forward ==
  ASSUME IInv, Prepare, pc' # 0
  PROVE  /\ pc <= pc'
         /\ pc < 27 => pc' <= 27
         /\ pc = 27 => pc' = 27 \/ \E l \in Loop : P!AttachCard(l)
         /\ pc # 27 => loopdevice' = loopdevice
         /\ pc < 43 => pc' <= 43
         /\ pc = 43 => pc' = 43 \/ \E l \in Loop, b \in Build : P!AttachWic(l, b)
         /\ pc # 43 => yoctoImage' = yoctoImage
<1>1. pc \in P!Lines
  BY DEF IInv
<1> QED
  BY <1>1
  DEF Prepare, P!Lines, P!Goto, P!Exit, P!run, P!Progress, P!Start, P!RmMnt, P!ImageExists,
    P!CreateImage, P!Cfdisk, P!AttachCard, P!AttachWic, P!Mkfs, P!MountPart, P!RmYoctomnt,
    P!RmWic, P!Fetch, P!Bunzip2, P!ListWic, P!CopyPart, P!UmountPart, P!StartQemu,
    P!QemuExits, P!DetachCard, P!DetachWic, P!MustEnd, P!CommandFails, P!Bunzip2Fails,
    P!CopyFails, P!Decline, P!GuestWrites, P!StaleWriteback

(* what a step makes of the scripts that have lost a device *)
LEMMA LostMoves ==
  ASSUME Next
  PROVE  /\ "prepare" \notin lost' /\ pc' # 0 => "prepare" \notin lost
         /\ "raspian" \notin lost' => "raspian" \notin lost
         /\ \A l \in PAwaits : loop'[l] = "free" => "prepare" \in lost' /\ "raspian" \in lost'
         /\ \A l \in RAwaits : loop'[l] = "free" => "raspian" \in lost'
         /\ "prepare" \in lost' => "prepare" \in lost \/ "raspian" \in lost'
<1>1. PICK s \in BOOLEAN : Remember(s)
  BY Zenon DEF Next, Prepare, Raspian, Operator, OperatorUmount, OperatorDetach, Sweep, Reboot
<1>2. lost' = {t \in lost : t = "raspian" \/ pc' # 0}
             \cup (IF \E l \in PAwaits : Taken(l) THEN {"prepare", "raspian"} ELSE {})
             \cup (IF \E l \in RAwaits : Taken(l) THEN {"raspian"} ELSE {})
  BY <1>1, Zenon DEF Remember
<1> QED
  BY <1>2 DEF Taken

-----------------------------------------------------------------------------
(* A run that has lost no device has the card and its image behind its      *)
(* names for as long as it uses them; nobody ever has the card mounted      *)
(* where the image belongs.                                                 *)
YoctoDirs == {"yoctomnt/boot", "yoctomnt/rootfs"}

HeldInv ==
  /\ "prepare" \in lost => "raspian" \in lost
  /\ "prepare" \notin lost =>
       /\ 27 < pc /\ pc <= 55 => behind[loopdevice] = "card"
       /\ 43 < pc /\ pc <= 73 => behind[yoctoImage] = yoctoImage
  /\ 43 < pc => behind[yoctoImage] # "card"
  /\ \A m \in YoctoDirs : \A i \in DOMAIN mounts[m] : behind[mounts[m][i]] # "card"

(* a device that is in the hands of the run does not go unnoticed *)
LEMMA NoticedGone ==
  ASSUME IInv, Kernel, MInv, Next, "prepare" \notin lost', pc <= pc'
  PROVE  /\ 27 < pc /\ pc' <= 55 /\ loopdevice' = loopdevice
              => loopdevice \in Loop /\ loop'[loopdevice] # "free"
         /\ 43 < pc /\ pc' <= 73 /\ yoctoImage' = yoctoImage
              => yoctoImage \in Loop /\ loop'[yoctoImage] # "free"
<1>1. /\ pc \in P!Lines /\ pc' \in P!Lines
      /\ P!HoldsCard => loopdevice \in Loop
      /\ P!HoldsWic => yoctoImage \in Loop
  BY IInvNext DEF IInv, Next
<1>2. CardThere' /\ WicThere'
  BY OwnDevicesStayNext
<1>3. /\ pc \in {29, 30, 32} /\ loopdevice \in Loop => loop'[loopdevice] # "free"
      /\ pc = 44 /\ yoctoImage \in Loop => loop'[yoctoImage] # "free"
  BY LostMoves DEF PAwaits
<1>4. ASSUME 27 < pc, pc' <= 55, loopdevice' = loopdevice
      PROVE  loopdevice \in Loop /\ loop'[loopdevice] # "free"
  BY <1>1, <1>2, <1>3, <1>4 DEF P!Lines, P!HoldsCard, CardThere
<1>5. ASSUME 43 < pc, pc' <= 73, yoctoImage' = yoctoImage
      PROVE  yoctoImage \in Loop /\ loop'[yoctoImage] # "free"
  BY <1>1, <1>2, <1>3, <1>5 DEF P!Lines, P!HoldsWic, WicThere
<1> QED
  BY <1>4, <1>5

(* where the image belongs, only what yoctoImage names is ever mounted *)
LEMMA YoctoMounts ==
  ASSUME IInv, Kernel, [Next]_vars, NEW m \in YoctoDirs, NEW i \in DOMAIN mounts'[m]
  PROVE  \/ i \in DOMAIN mounts[m] /\ mounts'[m][i] = mounts[m][i]
         \/ 43 < pc /\ mounts'[m][i] = yoctoImage
<1>a. m \in Dir /\ mounts \in MountTable /\ mounts[m] \in Seq(Loop)
  BY DEF YoctoDirs, Dir, Kernel, MountTable
<1>b. mounts'[m] = mounts[m] => i \in DOMAIN mounts[m] /\ mounts'[m][i] = mounts[m][i]
  OBVIOUS
<1>c. ASSUME NEW d \in Dir, Umount(d)
      PROVE  i \in DOMAIN mounts[m] /\ mounts'[m][i] = mounts[m][i]
  BY <1>a, <1>c, UmountLeaves
<1>1. CASE Prepare
  <2>1. ASSUME NEW d \in Dir \ {"raspios/boot"}, PMounts(d)
        PROVE  \/ i \in DOMAIN mounts[m] /\ mounts'[m][i] = mounts[m][i]
               \/ 43 < pc /\ mounts'[m][i] = yoctoImage
    <3>1. CASE d # m
      BY <1>a, <1>b, <2>1, <3>1, MountsOn DEF PMounts
    <3>2. CASE d = m
      <4>1. P!Own(m) = yoctoImage /\ 43 < pc /\ yoctoImage \in Loop
        <5>1. pc \in P!Lines /\ pc' \in P!Lines
          BY IInvNext DEF IInv
        <5>2. P!Own(m) = yoctoImage
          BY DEF YoctoDirs, P!Own
        <5>3. P!HoldsMount(m)' => P!HoldsWic'
          BY <5>1 DEF YoctoDirs, P!HoldsMount, P!HoldsWic, P!Lines
        <5> QED
          BY <2>1, <3>2, <5>2, <5>3 DEF PMounts, PHoldsAsBefore, P!HoldsWic
      <4>2. mounts'[m] = Append(mounts[m], yoctoImage)
        BY <1>a, <2>1, <3>2, <4>1, MountsOn DEF PMounts
      <4> QED
        BY <1>a, <4>1, <4>2, AppendProperties
    <3> QED
      BY <3>1, <3>2
  <2> QED
    BY <1>1, <1>b, <1>c, <2>1, PrepareMoves
    DEF PMoves, PQuiet, PStarts, PAttaches, PDetaches, PEndsEarly, PUmounts, host
<1>2. CASE Raspian
  <2>1. CASE RMounts
    <3>1. mounts'[m] = mounts[m]
      BY <1>a, <2>1, MountsOn DEF RMounts, YoctoDirs, Dir
    <3> QED
      BY <1>b, <3>1
  <2>2. CASE RUmounts
    BY <1>c, <2>2 DEF RUmounts, Dir
  <2>3. CASE mounts' = mounts
    BY <1>b, <2>3
  <2> QED
    BY <1>2, <2>1, <2>2, <2>3, RaspianMoves
    DEF RMoves, RQuiet, RStarts, RAttaches, RDetaches, REnds, REndsEarly, host
<1>3. CASE Operator
  <2>1. ~Reboot
    <3>1. Reboot => mounts'[m] = <<>>
      BY <1>a DEF Reboot, NoMounts
    <3>2. DOMAIN <<>> = {}
      OBVIOUS
    <3> QED
      BY <3>1, <3>2
  <2> QED
    BY <1>3, <1>b, <1>c, <2>1 DEF Operator, OperatorUmount, OperatorDetach, Sweep
<1>4. CASE UNCHANGED vars
  BY <1>4, <1>b DEF vars, host
<1> QED
  BY <1>1, <1>2, <1>3, <1>4 DEF Next

LEMMA HeldInvNext ==
  IInv /\ Kernel /\ MInv /\ FileTypes /\ HeldInv /\ [Next]_vars => HeldInv'
<1>s. HeldInv /\ UNCHANGED vars => HeldInv'
  BY DEF HeldInv, vars, host, disks, prepare
<1> SUFFICES ASSUME IInv, Kernel, MInv, FileTypes, HeldInv, Next PROVE HeldInv'
  BY <1>s
<1>a. /\ pc \in P!Lines /\ pc' \in P!Lines
      /\ P!HoldsCard => loopdevice \in Loop
      /\ P!HoldsWic => yoctoImage \in Loop
      /\ P!HoldsWic' => yoctoImage' \in Loop
      /\ DisksOK /\ behind \in [Loop -> File] /\ loop \in LoopTable
  BY IInvNext DEF IInv, Next, FileTypes, DisksOK
<1>b. \/ UNCHANGED <<pc, loopdevice, yoctoImage>>
      \/ pc' = 0
      \/ pc' # 0 /\ Prepare
  BY DEF Next, Raspian, Operator, OperatorUmount, OperatorDetach, Sweep, Reboot, Operate, prepare
<1>c. pc' # 0 => /\ pc <= pc'
                 /\ 27 < pc' => 27 < pc \/ \E l \in Loop : P!AttachCard(l)
                 /\ 27 < pc => loopdevice' = loopdevice
                 /\ 43 < pc' => 43 < pc \/ \E l \in Loop, b \in Build : P!AttachWic(l, b)
                 /\ 43 < pc => yoctoImage' = yoctoImage
  BY <1>a, <1>b, Forward DEF P!Lines
<1>1. "prepare" \in lost' => "raspian" \in lost'
  BY LostMoves DEF HeldInv
<1>2. ASSUME "prepare" \notin lost', 27 < pc', pc' <= 55
      PROVE  behind'[loopdevice'] = "card"
  <2>1. ASSUME NEW l \in Loop, P!AttachCard(l) PROVE behind'[loopdevice'] = "card"
    BY <1>a, <2>1 DEF P!AttachCard
  <2>2. CASE 27 < pc
    <3>1. /\ loopdevice' = loopdevice /\ loopdevice \in Loop
          /\ loop'[loopdevice] # "free" /\ behind[loopdevice] = "card"
      BY <1>2, <1>a, <1>c, <2>2, LostMoves, NoticedGone DEF HeldInv, P!Lines
    <3>2. loop[loopdevice] # "free"
      BY <1>a, <3>1, FilesApart DEF DisksOK
    <3> QED
      BY <3>1, <3>2, BehindStays
  <2> QED
    BY <1>2, <1>c, <2>1, <2>2
<1>3. ASSUME "prepare" \notin lost', 43 < pc', pc' <= 73
      PROVE  behind'[yoctoImage'] = yoctoImage'
  <2>1. ASSUME NEW l \in Loop, NEW b \in Build, P!AttachWic(l, b)
        PROVE  behind'[yoctoImage'] = yoctoImage'
    BY <1>a, <2>1 DEF P!AttachWic
  <2>2. CASE 43 < pc
    <3>1. /\ yoctoImage' = yoctoImage /\ yoctoImage \in Loop
          /\ loop'[yoctoImage] # "free" /\ behind[yoctoImage] = yoctoImage
      BY <1>3, <1>a, <1>c, <2>2, LostMoves, NoticedGone DEF HeldInv, P!Lines
    <3>2. loop[yoctoImage] # "free"
      BY <1>a, <3>1, FilesApart DEF DisksOK
    <3> QED
      BY <3>1, <3>2, BehindStays
  <2> QED
    BY <1>3, <1>c, <2>1, <2>2
<1>4. ASSUME 43 < pc' PROVE behind'[yoctoImage'] # "card"
  <2>1. ASSUME NEW l \in Loop, NEW b \in Build, P!AttachWic(l, b)
        PROVE  behind'[yoctoImage'] # "card"
    BY <1>a, <2>1, FilesApart DEF P!AttachWic
  <2>2. CASE 43 < pc
    <3>1. yoctoImage' = yoctoImage /\ yoctoImage \in Loop /\ behind[yoctoImage] # "card"
      BY <1>4, <1>a, <1>c, <2>2 DEF HeldInv, P!Lines, P!HoldsWic
    <3> QED
      BY <1>a, <2>2, <3>1, NoOtherCard DEF P!Lines
  <2> QED
    BY <1>4, <1>c, <2>1, <2>2
<1>5. ASSUME NEW m \in YoctoDirs, NEW i \in DOMAIN mounts'[m]
      PROVE  behind'[mounts'[m][i]] # "card"
  <2> DEFINE l == mounts'[m][i]
  <2>1. l \in Loop /\ behind[l] # "card" /\ m \in Dir
    <3>1. m \in Dir /\ mounts' \in MountTable
      BY KernelNext DEF Next, Kernel, YoctoDirs, Dir
    <3> QED
      BY <3>1, YoctoMounts DEF HeldInv, MountTable
  <2>2. CASE pc # 27
    BY <2>1, <2>2, NoOtherCard
  <2>3. CASE pc = 27
    <3>1. i \in DOMAIN mounts[m] /\ mounts[m][i] = l
      BY <2>3, YoctoMounts
    <3>2. loop[l] # "free"
      BY <2>1, <3>1 DEF Kernel, Sound, Uses
    <3> QED
      BY <2>1, <3>2, BehindMoves, FilesApart
      DEF FileTypes, DisksOK, Unlink, Released, BehindAttached
  <2> QED
    BY <2>2, <2>3
<1> HIDE DEF HeldInv
<1> QED
  BY <1>1, <1>2, <1>3, <1>4, <1>5 DEF HeldInv

-----------------------------------------------------------------------------
(* The one image there is at line 43 is the one just fetched, and what is   *)
(* behind yoctoImage stays that build as it came.                           *)
FromBuild(b) ==
  /\ fetched = {b}
  /\ fs[yoctoImage] = Contents(b) /\ table[yoctoImage] = Layout(b)
  /\ 44 < pc => "boot" \in Has[b]
  /\ 45 < pc => "rootfs" \in Has[b]

FetchInv ==
  /\ pc \in {40, 41} => wic = {}
  /\ pc = 41 => fetched # {} /\ fetched \subseteq bz2
  /\ pc = 42 => fetched # {} /\ fetched \subseteq wic
  /\ pc = 43 => fetched # {} /\ fetched \subseteq pimage /\ pimage = wic
  /\ 43 < pc /\ pc <= 73 /\ "prepare" \notin lost => \E b \in Build : FromBuild(b)

(* nobody writes to the image *)
ImageSame ==
  /\ fs'[yoctoImage] = fs[yoctoImage] /\ table'[yoctoImage] = table[yoctoImage]
  /\ yoctoImage' = yoctoImage

LEMMA ImageStays ==
  ASSUME IInv, Kernel, MInv, FileTypes, HeldInv, Next,
         "prepare" \notin lost', 43 < pc, pc <= pc', pc' <= 73
  PROVE  ImageSame
<1>a. /\ pc \in P!Lines /\ pc' \in P!Lines /\ pc # 0 /\ pc' # 0
      /\ "prepare" \notin lost /\ behind[yoctoImage] = yoctoImage
      /\ DisksOK /\ "card" \notin Loop /\ Loop \cap Image = {}
  BY IInvNext, LostMoves, FilesApart DEF IInv, Next, FileTypes, HeldInv, P!Lines
<1>b. yoctoImage' = yoctoImage
  <2>1. Prepare \/ UNCHANGED prepare
    BY DEF Next, Raspian, Operator, OperatorUmount, OperatorDetach, Sweep, Reboot, Operate
  <2> QED
    BY <1>a, <2>1, Forward DEF prepare
<1>c. yoctoImage \in Loop /\ loop'[yoctoImage] # "free"
  BY <1>b, NoticedGone
<1> DEFINE Same == fs'[yoctoImage] = fs[yoctoImage] /\ table'[yoctoImage] = table[yoctoImage]
<1>d. Forget => Same
  BY <1>c, FileStaysBehind
<1>1. ASSUME Prepare PROVE Same
  <2> USE DEF P!Goto, P!Exit, P!host, P!disks
  <2>1. ASSUME NEW p \in Part, NEW line \in {49, 50}, NEW to, P!CopyPart(line, to, p)
        PROVE  Same
    <3>1. At(P!Mnt[p]) = "card" /\ P!Mnt[p] \in Dir
      BY <1>a, <2>1, OwnShown, Directories DEF HeldInv, P!CopyPart
    <3>2. fs' = Copied(P!Source(p), P!Mnt[p]) /\ table' = table
      BY <2>1, <3>1, AsInPrepare DEF P!CopyPart
    <3> QED
      BY <1>a, <1>c, <3>1, <3>2, FilesApart DEF Copied, DisksOK
  <2>2. CASE P!GuestWrites \/ \E p \in Part : P!StaleWriteback(p)
    BY <1>a, <1>c, <2>2, FilesApart DEF P!GuestWrites, P!StaleWriteback, DisksOK
  <2>3. \/ P!Forget
        \/ UNCHANGED <<fs, table>>
        \/ P!CopyPart(49, 50, "boot") \/ P!CopyPart(50, 55, "rootfs")
        \/ P!GuestWrites \/ (\E p \in Part : P!StaleWriteback(p))
    BY <1>1, <1>a DEF Prepare, P!Progress, P!Start, P!RmMnt, P!ImageExists, P!CreateImage,
      P!Cfdisk, P!AttachCard, P!AttachWic, P!Mkfs, P!MountPart, P!RmYoctomnt, P!RmWic,
      P!Fetch, P!Bunzip2, P!ListWic, P!UmountPart, P!StartQemu, P!QemuExits, P!DetachCard,
      P!DetachWic, P!MustEnd, P!CommandFails, P!Bunzip2Fails, P!CopyFails, P!Decline
  <2> QED
    BY <1>d, <2>1, <2>2, <2>3, AsInPrepare DEF Part
<1>2. ASSUME Raspian PROVE Same
  <2>1. \/ R!Forget \/ UNCHANGED <<fs, table>> \/ \E i \in Image : R!Download(i)
    BY <1>2 DEF Raspian, R!Progress, R!Start, R!ListImages, R!Resize, R!AttachImage,
      R!MountBoot, R!CopyDtb, R!CopyKernel, R!UmountBoot, R!DetachImage, R!StartQemu,
      R!QemuExits, R!CommandFails, R!MakeDirectory, R!Delete, R!disks
  <2>2. ASSUME NEW i \in Image, R!Download(i)
        PROVE  Same
    BY <1>a, <1>c, <2>2 DEF R!Download, DisksOK
  <2> QED
    BY <1>d, <2>1, <2>2, AsInRaspian
<1>3. ASSUME Operator PROVE Same
  BY <1>3, <1>d DEF Operator, OperatorUmount, OperatorDetach, Sweep, Reboot, Operate
<1> QED
  BY <1>b, <1>1, <1>2, <1>3 DEF Next, ImageSame

(* line 39 removes the old images, and set -e stops a bunzip2 that left any *)
LEMMA PrepareFetches ==
  ASSUME IInv, Kernel, MInv, FileTypes, HeldInv, FetchInv, Prepare
  PROVE  FetchInv'
<1>a. pc \in P!Lines /\ pc' \in P!Lines
  BY IInvNext DEF IInv, Next
<1>n. Next
  BY DEF Next
<1>1. ASSUME 43 < pc, pc' # 0, pc' <= 73, "prepare" \notin lost'
      PROVE  \E b \in Build : FromBuild(b)'
  <2>1. pc <= pc' /\ "prepare" \notin lost /\ pc <= 73
    BY <1>1, <1>a, <1>n, Forward, LostMoves DEF P!Lines
  <2>2. PICK b \in Build : FromBuild(b)
    BY <1>1, <2>1 DEF FetchInv
  <2>3. ImageSame
    BY <1>1, <1>n, <2>1, ImageStays
  <2>4. /\ pc = 44 => pc' = 44 \/ P!MountPart(44, 45, yoctoImage, "yoctomnt/boot")
        /\ pc = 45 => pc' = 45 \/ P!MountPart(45, 49, yoctoImage, "yoctomnt/rootfs")
        /\ fetched' = fetched
    BY <1>1, <1>a DEF Prepare, P!Lines, P!Goto, P!Exit, P!run, P!work, P!Progress, P!Start,
      P!RmMnt, P!ImageExists, P!CreateImage, P!Cfdisk, P!AttachCard, P!AttachWic, P!Mkfs,
      P!MountPart, P!RmYoctomnt, P!RmWic, P!Fetch, P!Bunzip2, P!ListWic, P!CopyPart,
      P!UmountPart, P!StartQemu, P!QemuExits, P!DetachCard, P!DetachWic, P!MustEnd,
      P!CommandFails, P!Bunzip2Fails, P!CopyFails, P!Decline, P!GuestWrites,
      P!StaleWriteback
  <2>5. ASSUME NEW m \in YoctoDirs, NEW from, NEW to, P!MountPart(from, to, yoctoImage, m)
        PROVE  PartOf[m] \in Has[b]
    <3>1. yoctoImage \in Loop /\ behind[yoctoImage] = yoctoImage
      BY <1>1, <2>1 DEF IInv, P!HoldsWic, HeldInv, P!Lines
    <3>2. PartOf[m] \in Part /\ P!PartOf[m] = PartOf[m]
      BY DEF PartOf, Part, YoctoDirs, Dir, P!PartOf, P!Dir
    <3>3. Layout(b)[PartOf[m]] = "formatted"
      BY <2>2, <2>5, <3>1, <3>2, AsInPrepare DEF P!MountPart, Partition, FromBuild
    <3> QED
      BY <3>2, <3>3 DEF Layout
  <2>6. /\ pc = 44 /\ pc' # 44 => pc' = 45 /\ "boot" \in Has[b]
        /\ pc = 45 /\ pc' # 45 => pc' = 49 /\ "rootfs" \in Has[b]
    BY <2>4, <2>5 DEF P!MountPart, P!Goto, PartOf, YoctoDirs, Dir
  <2>7. FromBuild(b)'
    BY <1>1, <1>a, <2>1, <2>2, <2>3, <2>4, <2>6 DEF FromBuild, P!Lines, ImageSame
  <2> QED
    BY <2>7
<1>2. ASSUME NEW l \in Loop, NEW b \in Build, P!AttachWic(l, b)
      PROVE  FetchInv'
  <2>1. fetched' = {b} /\ pc' = 44 /\ yoctoImage' = l
    BY <1>2 DEF P!AttachWic, P!Goto, FetchInv
  <2>2. fs'[l] = Contents(b) /\ table'[l] = Layout(b)
    BY <1>2, FilesApart, AsInPrepare DEF P!AttachWic, FileTypes, DisksOK
  <2> QED
    BY <2>1, <2>2 DEF FetchInv, FromBuild
<1>3. ASSUME pc <= 43, pc' <= 43 PROVE FetchInv'
  BY <1>3, <1>a DEF FetchInv, Prepare, P!Lines, P!Goto, P!Exit, P!run, P!work, P!host,
      P!disks, P!Progress, P!Start, P!RmMnt, P!ImageExists, P!CreateImage, P!Cfdisk,
      P!AttachCard, P!AttachWic, P!Mkfs, P!MountPart, P!RmYoctomnt, P!RmWic, P!Fetch,
      P!Bunzip2, P!ListWic, P!CopyPart, P!UmountPart, P!StartQemu, P!QemuExits,
      P!DetachCard, P!DetachWic, P!MustEnd, P!CommandFails, P!Bunzip2Fails, P!CopyFails,
      P!Decline, P!GuestWrites, P!StaleWriteback
<1>4. pc' = 0 \/ 43 < pc' => pc' = 0 \/ 43 < pc \/ \E l \in Loop, b \in Build : P!AttachWic(l, b)
  BY <1>a, Forward DEF P!Lines
<1>5. CASE pc' = 0
  BY <1>5 DEF FetchInv
<1> QED
  BY <1>a, <1>1, <1>2, <1>3, <1>4, <1>5, Forward DEF FetchInv, P!Lines

LEMMA FetchInvNext ==
  IInv /\ Kernel /\ MInv /\ FileTypes /\ HeldInv /\ FetchInv /\ [Next]_vars => FetchInv'
<1>1. ASSUME IInv, Kernel, MInv, FileTypes, HeldInv, FetchInv, Raspian \/ Operator
      PROVE  FetchInv'
  <2>1. UNCHANGED prepare /\ Next
    BY <1>1 DEF Next, Raspian, Operator, OperatorUmount, OperatorDetach, Sweep, Reboot, Operate
  <2>2. ASSUME 43 < pc, pc <= 73, "prepare" \notin lost' PROVE \E b \in Build : FromBuild(b)'
    <3>1. pc' = pc /\ fetched' = fetched /\ "prepare" \notin lost /\ pc \in P!Lines
      BY <1>1, <2>1, <2>2, LostMoves DEF prepare, IInv, P!Lines
    <3>2. PICK b \in Build : FromBuild(b)
      BY <1>1, <2>2, <3>1 DEF FetchInv
    <3>3. ImageSame
      BY <1>1, <2>1, <2>2, <3>1, ImageStays DEF P!Lines
    <3> QED
      BY <3>1, <3>2, <3>3 DEF FromBuild, ImageSame
  <2> QED
    BY <1>1, <2>1, <2>2 DEF FetchInv, prepare
<1>2. FetchInv /\ UNCHANGED vars => FetchInv'
  BY DEF FetchInv, FromBuild, vars, prepare, disks
<1> QED
  BY <1>1, <1>2, PrepareFetches DEF Next

-----------------------------------------------------------------------------
(* The releases: nobody adds files of another to one, as long as no device  *)
(* was taken. From line 14 on, image is the one release there is; from line *)
(* 20 on it is what is mounted, and what is copied.                         *)
DriveInv ==
  /\ 13 < rpc /\ image # "none" => images = {image}
  /\ "raspian" \notin lost =>
       /\ \A i \in Image : fs[i]["boot"] \subseteq {i}
       /\ 15 < rpc /\ rpc <= 26 => behind[raspiosImage] = image
       /\ 20 < rpc => dtb = image
       /\ 21 < rpc => kernel = image

(* rm -rf and mkfs may empty what they find; cp writes to the card *)
LEMMA ReleasesKept ==
  ASSUME IInv, Kernel, MInv, FileTypes, HeldInv, Next, "raspian" \notin lost', NEW i \in Image
  PROVE  fs'[i]["boot"] \subseteq fs[i]["boot"] \cup {i}
<1> DEFINE Kept == fs'[i]["boot"] \subseteq fs[i]["boot"] \cup {i}
<1>a. /\ i \in File \ Loop /\ i # "card" /\ "boot" \in Part /\ "card" \notin Loop
      /\ fs \in [File -> [Part -> SUBSET Origin]]
      /\ "prepare" \notin lost
  BY FilesApart, LostMoves DEF FileTypes, DisksOK, HeldInv, Part
<1>b. Forget => Kept
  BY <1>a, NamedFilesStay
<1>1. ASSUME Prepare PROVE Kept
  <2> USE DEF P!Goto, P!Exit, P!host, P!disks
  <2>1. ASSUME NEW p \in Part, NEW line \in {49, 50}, NEW to,
               P!CopyPart(line, to, p) \/ P!CopyFails(line, p)
        PROVE  Kept
    <3>1. At(P!Mnt[p]) = "card" /\ P!Mnt[p] \in Dir
      BY <1>a, <2>1, OwnShown, Directories DEF HeldInv, P!CopyPart, P!CopyFails
    <3>2. fs' \in {fs, Copied(P!Source(p), P!Mnt[p])}
      BY <2>1, <3>1, AsInPrepare DEF P!CopyPart, P!CopyFails
    <3> QED
      BY <1>a, <3>1, <3>2 DEF Copied
  <2>2. CASE P!GuestWrites \/ \E p \in Part : P!StaleWriteback(p)
    BY <1>a, <2>2 DEF P!GuestWrites, P!StaleWriteback
  <2>3. CASE P!Mkfs(29, 30, "boot") \/ P!Mkfs(30, 32, "rootfs")
    BY <1>a, <2>3 DEF P!Mkfs
  <2>4. CASE \E l \in Loop, b \in Build : P!AttachWic(l, b)
    BY <1>a, <2>4 DEF P!AttachWic
  <2>5. CASE P!RmMnt \/ P!RmYoctomnt
    <3>1. PICK D \in SUBSET Dir : fs' = Emptied(D)
      BY <2>5, AsInPrepare DEF P!RmMnt, P!RmYoctomnt, Dir
    <3> QED
      BY <1>a, <3>1 DEF Emptied
  <2>6. CASE P!Forget
    BY <1>b, <2>6, AsInPrepare
  <2>7. CASE fs' = fs
    BY <2>7
  <2>8. \/ P!Forget \/ fs' = fs
        \/ P!CopyPart(49, 50, "boot") \/ P!CopyPart(50, 55, "rootfs")
        \/ P!CopyFails(49, "boot") \/ P!CopyFails(50, "rootfs")
        \/ P!GuestWrites \/ (\E p \in Part : P!StaleWriteback(p))
        \/ P!Mkfs(29, 30, "boot") \/ P!Mkfs(30, 32, "rootfs")
        \/ (\E l \in Loop, b \in Build : P!AttachWic(l, b))
        \/ P!RmMnt \/ P!RmYoctomnt
    BY <1>1 DEF Prepare, P!Progress, P!Start, P!ImageExists, P!CreateImage, P!Cfdisk,
      P!AttachCard, P!MountPart, P!RmWic, P!Fetch, P!Bunzip2, P!ListWic, P!UmountPart,
      P!StartQemu, P!QemuExits, P!DetachCard, P!DetachWic, P!MustEnd, P!CommandFails,
      P!Bunzip2Fails, P!Decline
  <2> QED
    BY <2>1, <2>2, <2>3, <2>4, <2>5, <2>6, <2>7, <2>8 DEF Part
<1>2. ASSUME Raspian PROVE Kept
  <2>1. ASSUME NEW j \in Image, R!Download(j) PROVE Kept
    <3>1. Contents(j)["boot"] \subseteq {j} /\ fs' = [fs EXCEPT ![j] = Contents(j)]
      BY <1>a, <2>1, AsInRaspian DEF R!Download, Contents
    <3> QED
      BY <1>a, <3>1
  <2>2. \/ R!Forget \/ fs' = fs \/ \E j \in Image : R!Download(j)
    BY <1>2 DEF Raspian, R!Progress, R!Start, R!ListImages, R!Resize, R!AttachImage,
      R!MountBoot, R!CopyDtb, R!CopyKernel, R!UmountBoot, R!DetachImage, R!StartQemu,
      R!QemuExits, R!CommandFails, R!MakeDirectory, R!Delete, R!disks
  <2> QED
    BY <1>b, <2>1, <2>2, AsInRaspian
<1>3. ASSUME Operator PROVE Kept
  BY <1>3, <1>b DEF Operator, OperatorUmount, OperatorDetach, Sweep, Reboot, Operate
<1> QED
  BY <1>1, <1>2, <1>3 DEF Next

(* the device of the release, noticed when it goes *)
LEMMA DriveStays ==
  ASSUME IInv, Kernel, MInv, FileTypes, DriveInv, Next, "raspian" \notin lost',
         15 < rpc, rpc <= rpc', rpc' <= 26, raspiosImage' = raspiosImage
  PROVE  behind'[raspiosImage] = behind[raspiosImage]
<1>1. rpc \in R!Lines /\ rpc' \in R!Lines /\ raspiosImage \in Loop
  BY IInvNext DEF IInv, Next, HoldsImage, R!Lines
<1>2. BootThere'
  BY OwnDevicesStayNext
<1>3. loop'[raspiosImage] # "free"
  BY <1>1, <1>2, LostMoves DEF RAwaits, BootThere, HoldsBoot, R!Lines
<1>4. loop[raspiosImage] # "free"
  BY <1>1, LostMoves, FilesApart DEF DriveInv, FileTypes, DisksOK, R!Lines
<1> QED
  BY <1>1, <1>3, <1>4, BehindStays DEF Next

LEMMA RaspianDrives ==
  ASSUME IInv, Kernel, MInv, FileTypes, HeldInv, DriveInv, Raspian
  PROVE  DriveInv'
<1>a. /\ rpc \in R!Lines /\ rpc' \in R!Lines
      /\ HoldsImage => raspiosImage \in Loop
      /\ "none" \notin Image /\ Image \subseteq File
      /\ FileTypes' /\ Next
      /\ behind \in [Loop -> File]
  BY IInvNext, FileTypesNext, FilesApart DEF IInv, Next, FileTypes, DisksOK
<1>b. "raspian" \notin lost' => "raspian" \notin lost
  BY <1>a, LostMoves
<1>c. "raspian" \notin lost' => \A i \in Image : fs'[i]["boot"] \subseteq {i}
  BY <1>a, <1>b, ReleasesKept DEF DriveInv
<1>d. (\/ UNCHANGED <<rpc, image, images, raspiosImage, dtb, kernel>>
       \/ rpc' = 0) => DriveInv'
  <2>1. ASSUME "raspian" \notin lost', 15 < rpc, rpc <= 26,
               UNCHANGED <<rpc, image, raspiosImage>>
        PROVE  behind'[raspiosImage'] = image'
    BY <1>a, <1>b, <2>1, DriveStays DEF DriveInv, R!Lines
  <2> QED
    BY <1>b, <1>c, <2>1 DEF DriveInv
<1>e. ASSUME 15 < rpc, rpc < rpc', UNCHANGED <<image, images, raspiosImage>>,
             "raspian" \notin lost' =>
               /\ 20 < rpc' => dtb' = image
               /\ 21 < rpc' => kernel' = image
      PROVE  DriveInv'
  <2>1. ASSUME "raspian" \notin lost', rpc' <= 26 PROVE behind'[raspiosImage'] = image'
    BY <1>a, <1>b, <1>e, <2>1, DriveStays DEF DriveInv, R!Lines
  <2> QED
    BY <1>a, <1>b, <1>c, <1>e, <2>1 DEF DriveInv, R!Lines
<1> USE DEF R!Goto, R!Exit, R!host, R!disks, R!files, R!copied, R!run
<1>1. CASE R!Start \/ R!ListImages \/ R!Resize
  BY <1>1, <1>a, <1>c DEF R!Start, R!ListImages, R!Resize, DriveInv
<1>2. ASSUME NEW l \in Loop, R!AttachImage(l) PROVE DriveInv'
  BY <1>2, <1>a, <1>c DEF R!AttachImage, DriveInv
<1>3. CASE R!MountBoot
  BY <1>3, <1>e DEF R!MountBoot
<1>4. CASE R!CopyDtb \/ R!CopyKernel
  <2>1. ASSUME "raspian" \notin lost PROVE \A x : R!Source(x) \subseteq {image}
    <3>1. HoldsBoot /\ BootThere /\ image \in Image
      BY <1>4, OwnDevicesStay DEF R!CopyDtb, R!CopyKernel, HoldsBoot, FileTypes
    <3>2. At("raspios/boot") = image
      BY <2>1, <3>1, <1>4 DEF BootThere, DriveInv, R!CopyDtb, R!CopyKernel
    <3>3. PartOf["raspios/boot"] = "boot"
      BY DEF PartOf, Dir
    <3>4. R!Shown("raspios/boot") \subseteq {image}
      BY <2>1, <3>1, <3>2, <3>3, AsInRaspian DEF Shown, DriveInv
    <3> QED
      BY <3>4 DEF R!Source
  <2>2. CASE R!CopyDtb
    BY <1>b, <1>e, <2>1, <2>2 DEF R!CopyDtb
  <2>3. CASE R!CopyKernel
    BY <1>b, <1>e, <2>1, <2>3 DEF R!CopyKernel, DriveInv
  <2> QED
    BY <1>4, <2>2, <2>3
<1>5. CASE R!UmountBoot \/ R!DetachImage \/ R!StartQemu
  <2>1. /\ rpc \in {26, 27, 30} /\ rpc < rpc'
        /\ UNCHANGED <<image, images, raspiosImage, dtb, kernel>>
    BY <1>5 DEF R!UmountBoot, R!DetachImage, R!StartQemu
  <2> QED
    BY <1>b, <1>e, <2>1 DEF DriveInv
<1>6. CASE R!QemuExits \/ R!CommandFails
  BY <1>6, <1>d DEF R!QemuExits, R!CommandFails
<1>7. CASE R!MakeDirectory \/ (\E i \in Image : R!Download(i) \/ R!Delete(i))
  <2>1. rpc' = 0
    BY <1>7 DEF R!MakeDirectory, R!Download, R!Delete
  <2> QED
    BY <1>d, <2>1
<1> QED
  BY <1>1, <1>2, <1>3, <1>4, <1>5, <1>6, <1>7 DEF Raspian, R!Progress

LEMMA DriveInvNext ==
  IInv /\ Kernel /\ MInv /\ FileTypes /\ HeldInv /\ DriveInv /\ [Next]_vars => DriveInv'
<1>1. ASSUME IInv, Kernel, MInv, FileTypes, HeldInv, DriveInv, Prepare \/ Operator
      PROVE  DriveInv'
  <2>1. UNCHANGED raspian /\ Next
    BY <1>1 DEF Next, Prepare, Operator, OperatorUmount, OperatorDetach, Sweep, Reboot,
      Operate
  <2>2. "raspian" \notin lost' => "raspian" \notin lost
    BY <2>1, LostMoves
  <2>3. "raspian" \notin lost' => \A i \in Image : fs'[i]["boot"] \subseteq {i}
    BY <1>1, <2>1, <2>2, ReleasesKept DEF DriveInv
  <2>4. ASSUME "raspian" \notin lost', 15 < rpc, rpc <= 26
        PROVE  behind'[raspiosImage] = image
    BY <1>1, <2>1, <2>2, <2>4, DriveStays DEF DriveInv, raspian, IInv, R!Lines
  <2> QED
    BY <1>1, <2>1, <2>2, <2>3, <2>4 DEF DriveInv, raspian
<1>2. DriveInv /\ UNCHANGED vars => DriveInv'
  BY DEF DriveInv, vars, raspian, disks
<1> QED
  BY <1>1, <1>2, RaspianDrives DEF Next

-----------------------------------------------------------------------------
(* While the image is mounted, its partitions are what is read.             *)
LEMMA SourceIsOwn ==
  ASSUME IInv, Kernel, MInv, HeldInv, "prepare" \notin lost, 45 < pc, pc <= 73,
         NEW p \in Part, NEW b \in Build, FromBuild(b)
  PROVE  P!Source(p) = {b}
<1>1. At(P!Yoctomnt[p]) = yoctoImage
  BY OwnShown DEF HeldInv, IInv, P!Lines
<1>2. P!Source(p) = fs[yoctoImage][p]
  BY <1>1, Directories, AsInPrepare DEF P!Source, Shown
<1>3. p \in Has[b]
  BY DEF FromBuild, IInv, P!Lines, Part
<1> QED
  BY <1>2, <1>3 DEF FromBuild, Contents

(* The card, unless an older run left it mounted: formatted, then filled    *)
(* from the image, one partition after the other, and the guest's after.    *)
NotMountedBefore == \A p \in Part : mounts0[P!Mnt[p]] = <<>>

CardInv ==
  pc # 0 /\ NotMountedBefore /\ "prepare" \notin lost =>
    /\ 29 < pc /\ pc <= 49 => fs["card"]["boot"] = {}
    /\ 30 < pc /\ pc <= 50 => fs["card"]["rootfs"] = {}
    /\ 49 < pc /\ pc <= 69 => fs["card"]["boot"] = fetched
    /\ 50 < pc /\ pc <= 69 => fs["card"]["rootfs"] \ {"guest"} = fetched

LEMMA NoStaleWriteback ==
  ASSUME MInv, pc # 0, NotMountedBefore, NEW p \in Part
  PROVE  ~P!StaleWriteback(p)
<1> DEFINE d == P!Mnt[p]
<1>1. d \in {"mnt/boot", "mnt/rootfs"} /\ d \in PDir
  BY DEF Part, P!Mnt, PDir, Dir
<1>2. mounts[d] = IF P!HoldsMount(d) THEN Append(<<>>, loopdevice) ELSE <<>>
  BY <1>1, Zenon DEF MInv, P!Accounted, NotMountedBefore, P!Own
<1> HIDE DEF d
<1>3. \A i \in DOMAIN mounts[d] : mounts[d][i] = loopdevice
  BY <1>2
<1> QED
  BY <1>3 DEF P!StaleWriteback, d

(* what rm -rf finds below ./yoctomnt/ is not the card *)
LEMMA CardNotBelow ==
  ASSUME Kernel, HeldInv, NEW m \in YoctoDirs
  PROVE  At(m) # "card"
<1>1. m \in Dir /\ mounts[m] \in Seq(Loop)
  BY DEF YoctoDirs, Dir, Kernel, MountTable
<1>2. mounts[m] # <<>> => Len(mounts[m]) \in DOMAIN mounts[m]
  BY <1>1
<1> QED
  BY <1>2, FilesApart DEF At, Mounted, Visible, HeldInv

(* lines 29-50 take the card from formatted to filled *)
LEMMA PrepareFills ==
  IInv /\ Kernel /\ MInv /\ FileTypes /\ HeldInv /\ FetchInv /\ CardInv /\ Prepare
    => CardInv'
<1> SUFFICES ASSUME IInv, Kernel, MInv, FileTypes, HeldInv, FetchInv, CardInv, Prepare,
                    pc' # 0, NotMountedBefore', "prepare" \notin lost'
             PROVE  CardInv'
  BY DEF CardInv
<1>a. /\ pc \in P!Lines /\ fs \in [File -> [Part -> SUBSET Origin]]
      /\ fetched \in SUBSET Build /\ "guest" \notin Build
      /\ "card" \in File /\ "card" \notin Loop
      /\ "prepare" \notin lost
  BY OriginAssumption, FilesApart, LostMoves DEF IInv, FileTypes, DisksOK, Next
<1> USE <1>a DEF CardInv, P!Lines, P!Goto, P!Exit, P!host, P!disks, P!work, P!run
<1>b. pc # 0 /\ mounts0' = mounts0 => NotMountedBefore
  BY DEF NotMountedBefore
<1>c. P!Forget => fs'["card"] = fs["card"]
  BY NamedFilesStay, AsInPrepare
<1>1. CASE P!Start \/ P!ImageExists \/ P!CreateImage \/ P!Cfdisk
  BY <1>1, <1>b DEF P!Start, P!ImageExists, P!CreateImage, P!Cfdisk
<1>2. CASE P!RmMnt
  BY <1>2, <1>b DEF P!RmMnt
<1>3. ASSUME NEW l \in Loop, P!AttachCard(l) PROVE CardInv'
  BY <1>3, <1>b DEF P!AttachCard
<1>4. ASSUME NEW l \in Loop, NEW b \in Build, P!AttachWic(l, b) PROVE CardInv'
  <2>1. fs'["card"] = fs["card"]
    BY <1>4 DEF P!AttachWic
  <2> QED
    BY <1>4, <1>b, <2>1 DEF P!AttachWic
<1>5. CASE P!Mkfs(29, 30, "boot") \/ P!Mkfs(30, 32, "rootfs")
  <2>1. behind[loopdevice] = "card"
    BY <1>5 DEF P!Mkfs, HeldInv
  <2> QED
    BY <1>5, <1>b, <2>1 DEF P!Mkfs, Part
<1>6. CASE P!RmWic \/ P!Bunzip2 \/ P!ListWic \/ (\E d \in Deploys : P!Fetch(d))
  BY <1>6, <1>b DEF P!RmWic, P!Bunzip2, P!ListWic, P!Fetch
<1>7. CASE \/ P!MountPart(32, 33, loopdevice, "mnt/boot")
           \/ P!MountPart(33, 37, loopdevice, "mnt/rootfs")
           \/ P!MountPart(44, 45, yoctoImage, "yoctomnt/boot")
           \/ P!MountPart(45, 49, yoctoImage, "yoctomnt/rootfs")
  BY <1>7, <1>b DEF P!MountPart
<1>8. CASE P!RmYoctomnt
  <2>1. fs' = Emptied(YoctoDirs)
    BY <1>8, AsInPrepare DEF P!RmYoctomnt, YoctoDirs, Dir
  <2>2. fs'["card"] = fs["card"]
    BY <2>1, CardNotBelow DEF Emptied
  <2> QED
    BY <1>8, <1>b, <2>2 DEF P!RmYoctomnt
<1>9. CASE P!CopyPart(49, 50, "boot") \/ P!CopyPart(50, 55, "rootfs")
  <2>1. pc \in {49, 50} /\ pc # 0
    BY <1>9 DEF P!CopyPart
  <2>2. \A p \in Part : At(P!Mnt[p]) = "card" /\ P!Mnt[p] \in Dir /\ PartOf[P!Mnt[p]] = p
    BY <2>1, OwnShown, Directories DEF HeldInv
  <2>0. PICK b \in Build : FromBuild(b)
    BY <2>1 DEF FetchInv
  <2>3. \A p \in Part : P!Source(p) = fetched
    BY <2>0, <2>1, SourceIsOwn DEF FromBuild
  <2>4. ASSUME NEW p \in Part, NEW line, NEW to, P!CopyPart(line, to, p)
        PROVE  fs'["card"] = [q \in Part |-> IF q = p THEN fs["card"][q] \cup fetched
                                             ELSE fs["card"][q]]
    <3>1. fs' = Copied(fetched, P!Mnt[p])
      BY <2>2, <2>3, <2>4, AsInPrepare DEF P!CopyPart
    <3> QED
      BY <2>2, <3>1, FilesApart DEF Copied
  <2>5. /\ P!CopyPart(49, 50, "boot") =>
             /\ fs'["card"]["boot"] = fs["card"]["boot"] \cup fetched
             /\ fs'["card"]["rootfs"] = fs["card"]["rootfs"]
        /\ P!CopyPart(50, 55, "rootfs") =>
             /\ fs'["card"]["rootfs"] = fs["card"]["rootfs"] \cup fetched
             /\ fs'["card"]["boot"] = fs["card"]["boot"]
    <3>1. "boot" \in Part /\ "rootfs" \in Part
      BY DEF Part
    <3>2. P!CopyPart(49, 50, "boot") =>
            fs'["card"] = [q \in Part |-> IF q = "boot" THEN fs["card"][q] \cup fetched
                                          ELSE fs["card"][q]]
      BY <2>4, <3>1, Zenon
    <3>3. P!CopyPart(50, 55, "rootfs") =>
            fs'["card"] = [q \in Part |-> IF q = "rootfs" THEN fs["card"][q] \cup fetched
                                          ELSE fs["card"][q]]
      BY <2>4, <3>1, Zenon
    <3> QED
      BY <3>1, <3>2, <3>3
  <2>6. NotMountedBefore /\ fetched' = fetched /\ fetched \ {"guest"} = fetched
    BY <1>9, <1>b, <2>1 DEF P!CopyPart
  <2>7. CASE P!CopyPart(49, 50, "boot")
    <3>1. pc = 49 /\ pc' = 50 /\ fs["card"]["boot"] = {} /\ fs["card"]["rootfs"] = {}
      BY <2>6, <2>7 DEF P!CopyPart
    <3> QED
      BY <2>5, <2>6, <2>7, <3>1
  <2>8. CASE P!CopyPart(50, 55, "rootfs")
    <3>1. pc = 50 /\ pc' = 55 /\ fs["card"]["boot"] = fetched /\ fs["card"]["rootfs"] = {}
      BY <2>6, <2>8 DEF P!CopyPart
    <3>2. fs'["card"]["boot"] = fetched' /\ fs'["card"]["rootfs"] \ {"guest"} = fetched'
      BY <2>5, <2>6, <2>8, <3>1
    <3> QED
      BY <3>1, <3>2
  <2> QED
    BY <1>9, <2>7, <2>8
<1>10. CASE \/ P!UmountPart(55, 56, "mnt/boot") \/ P!UmountPart(56, 60, "mnt/rootfs")
            \/ P!UmountPart(73, 74, "yoctomnt/boot")
            \/ P!UmountPart(74, 75, "yoctomnt/rootfs")
  <2>1. fs'["card"] = fs["card"]
    BY <1>10, <1>c DEF P!UmountPart
  <2> QED
    BY <1>10, <1>b, <2>1 DEF P!UmountPart
<1>11. CASE P!GuestWrites
  BY <1>11, <1>b DEF P!GuestWrites, Part
<1>12. CASE P!StartQemu \/ P!QemuExits \/ P!DetachCard
  BY <1>12, <1>b DEF P!StartQemu, P!QemuExits, P!DetachCard
<1>13. CASE \/ P!DetachWic \/ P!CommandFails \/ P!Decline
            \/ P!CopyFails(49, "boot") \/ P!CopyFails(50, "rootfs")
            \/ \E done \in SUBSET Build : P!Bunzip2Fails(done)
  BY <1>13 DEF P!DetachWic, P!CommandFails, P!Decline, P!CopyFails, P!Bunzip2Fails
<1>14. ASSUME NEW p \in Part, P!StaleWriteback(p) PROVE CardInv'
  <2>1. pc' = pc /\ mounts0' = mounts0
    BY <1>14 DEF P!StaleWriteback
  <2> QED
    BY <1>14, <1>b, <2>1, NoStaleWriteback
<1> HIDE DEF CardInv
<1> QED
  BY <1>1, <1>2, <1>3, <1>4, <1>5, <1>6, <1>7, <1>8, <1>9, <1>10, <1>11, <1>12, <1>13,
     <1>14
  DEF Prepare, P!Progress, P!MustEnd, Part

(* nobody else writes to the card *)
LEMMA CardInvNext ==
  IInv /\ Kernel /\ MInv /\ FileTypes /\ HeldInv /\ FetchInv /\ CardInv /\ [Next]_vars
    => CardInv'
<1>1. ASSUME CardInv, FileTypes, Raspian \/ Operator \/ UNCHANGED vars PROVE CardInv'
  <2>a. "card" \in File \ Loop /\ "card" \notin Image
    BY FilesApart
  <2>1. UNCHANGED prepare
    BY <1>1 DEF vars, Raspian, Operator, OperatorUmount, OperatorDetach, Sweep, Reboot,
      Operate
  <2>2. fs'["card"] = fs["card"]
    <3>1. CASE Forget \/ fs' = fs
      BY <2>a, <3>1, NamedFilesStay
    <3>2. ASSUME NEW i \in Image, R!Download(i) PROVE fs'["card"] = fs["card"]
      BY <2>a, <3>2 DEF R!Download
    <3>3. Raspian => R!Forget \/ fs' = fs \/ \E i \in Image : R!Download(i)
      BY DEF Raspian, R!Progress, R!Start, R!ListImages, R!Resize, R!AttachImage,
        R!MountBoot, R!CopyDtb, R!CopyKernel, R!UmountBoot, R!DetachImage, R!StartQemu,
        R!QemuExits, R!CommandFails, R!MakeDirectory, R!Delete, R!disks
    <3>4. Operator => Forget
      BY DEF Operator, OperatorUmount, OperatorDetach, Sweep, Reboot, Operate
    <3>5. UNCHANGED vars => fs' = fs
      BY DEF vars, disks
    <3> QED
      BY <1>1, <3>1, <3>2, <3>3, <3>4, <3>5, AsInRaspian
  <2>3. pc' # 0 /\ "prepare" \notin lost' => "prepare" \notin lost
    BY <1>1, LostMoves DEF Next, vars
  <2> QED
    BY <1>1, <2>1, <2>2, <2>3 DEF prepare, CardInv, NotMountedBefore
<1> QED
  BY <1>1, PrepareFills DEF Next

(* Two launchers, an operator and losetup -D, in any interleaving and on    *)
(* whatever earlier runs left: a guest of prepare_Qemu.sh boots kernel and  *)
(* file systems of the one build its run fetched (unless the card was still *)
(* mounted from before), one of run_Qemu-raspian.sh the kernel and device   *)
(* tree of the release on its drive; except for runs that were robbed of a  *)
(* device between its losetup and its mount, which go on with whatever the  *)
(* name then stands for.                                                    *)
THEOREM GuestsGetOneBuild == Spec => []GuestsConsistent
<1> DEFINE Files == FileTypes /\ HeldInv /\ FetchInv /\ DriveInv /\ CardInv
<1>1. Init => Files
  <2> SUFFICES ASSUME Init PROVE Files
    OBVIOUS
  <2>1. DisksInit /\ loop = AllFree /\ mounts = NoMounts
    BY DEF Init, P!Init, P!DisksInit, DisksInit, P!Contents, Contents, P!Layout, Layout,
      P!Empty, Empty, P!Blank, Blank, P!File, File, P!Part, Part, P!AllFree, AllFree,
      P!NoMounts, NoMounts, P!Dir, Dir
  <2>2. DisksOK
    BY <2>1, DisksBegin
  <2>3. FileTypes /\ pc = 0 /\ rpc = 0 /\ lost = {}
    BY <2>2 DEF Init, P!Init, R!Init, FileTypes
  <2>4. HeldInv
    BY <2>1, <2>3 DEF HeldInv, NoMounts, YoctoDirs, Dir
  <2>5. \A i \in Image : fs[i]["boot"] \subseteq {i}
    BY <2>1, FilesApart DEF DisksInit, Contents, Part
  <2> QED
    BY <2>3, <2>4, <2>5 DEF FetchInv, DriveInv, CardInv
<1>2. IInv /\ Kernel /\ MInv /\ Files => GuestsConsistent
  <2> SUFFICES ASSUME IInv, Kernel, MInv, FileTypes, HeldInv, FetchInv, DriveInv, CardInv
               PROVE  GuestsConsistent
    OBVIOUS
  <2>1. ASSUME "prepare" \notin lost, pc = 69, NotMountedBefore
        PROVE  \E b \in Build : /\ fetched = {b}
                                /\ P!Source("boot") = {b}
                                /\ fs["card"]["boot"] = {b}
                                /\ fs["card"]["rootfs"] \ {"guest"} = {b}
    <3>1. PICK b \in Build : FromBuild(b)
      BY <2>1 DEF FetchInv
    <3>2. P!Source("boot") = {b}
      BY <2>1, <3>1, SourceIsOwn DEF Part
    <3> QED
      BY <2>1, <3>1, <3>2 DEF FromBuild, CardInv
  <2>2. "prepare" \notin lost => P!BootsFetchedBuild
    BY <2>1 DEF P!BootsFetchedBuild, NotMountedBefore, P!Part, Part
  <2>3. ASSUME "raspian" \notin lost PROVE R!KernelMatchesDrive
    BY <2>3, FilesApart DEF DriveInv, FileTypes, R!KernelMatchesDrive
  <2> QED
    BY <2>2, <2>3 DEF GuestsConsistent
<1>3. IInv /\ Kernel /\ MInv /\ Files /\ [Next]_vars => Files'
  BY FileTypesNext, HeldInvNext, FetchInvNext, DriveInvNext, CardInvNext
<1> QED
  BY <1>1, <1>2, <1>3, SessionHolds, PTL DEF Spec
=============================================================================
