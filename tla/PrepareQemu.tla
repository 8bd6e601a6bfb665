----------------------------- MODULE PrepareQemu -----------------------------
(***************************************************************************)
(* 06_yocto_qemu/prepare_Qemu.sh, run again and again in one working       *)
(* directory: it makes the SD-card image rootfs.img, formats it, fills it  *)
(* from the newest Yocto .wic image and boots it in QEMU.                  *)
(*                                                                         *)
(* pc is the line of the script the shell executes next; 0 is "no run".    *)
(* Under `set -e' (line 6) a command that fails ends the run, and nothing  *)
(* undoes what the run has attached and mounted.                           *)
(***************************************************************************)
EXTENDS Disks

CONSTANTS Deploys,    \* the sets of archives the deploy directory .. may hold
          MaxFaults   \* bound: commands that fail or are killed unprovoked

ASSUME DeployAssumption == Deploys \subseteq SUBSET Build
ASSUME FaultAssumption == MaxFaults \in Nat

VARIABLES
  pc,          \* line of the next command
  img,         \* ./rootfs.img: "absent" or "present"
  bz2, torn,   \* archives in the working directory; those cut short
  wic,         \* unpacked images in the working directory
  loopdevice, yoctoImage,  \* the shell variables
  image,                   \* ... and the third, the names ls found
  fetched,     \* history: the archives line 40 copied in this run
  loop0, mounts0,          \* history: loop and mounts when the run began
  faults       \* unprovoked failures so far

Mnt == [boot |-> "mnt/boot", rootfs |-> "mnt/rootfs"]
Yoctomnt == [boot |-> "yoctomnt/boot", rootfs |-> "yoctomnt/rootfs"]
Lines == {0, 11, 13, 22, 27, 29, 30, 32, 33, 37, 39, 40, 41, 42, 43, 44, 45,
          49, 50, 55, 56, 60, 69, 73, 74, 75, 76}

host == <<loop, mounts>>
work == <<img, bz2, torn, wic>>
run == <<loopdevice, yoctoImage, image, fetched, loop0, mounts0>>
vars == <<pc, host, disks, work, run, faults>>

(* Well typed, and the shell variables name devices wherever they are used. *)
TypeOK ==
  /\ pc \in Lines
  /\ img \in {"absent", "present"}
  /\ DisksOK
  /\ bz2 \in SUBSET Build /\ torn \in SUBSET Build /\ wic \in SUBSET Build
  /\ loopdevice \in Loop \cup {"none"} /\ yoctoImage \in Loop \cup {"none"}
  /\ pc > 27 => loopdevice \in Loop
  /\ pc > 43 => yoctoImage \in Loop
  /\ image \in SUBSET Build /\ fetched \in SUBSET Build
  /\ loop \in LoopTable /\ loop0 \in LoopTable
  /\ mounts \in MountTable /\ mounts0 \in MountTable
  /\ faults \in 0..MaxFaults

Init ==
  /\ pc = 0
  /\ img = "absent" /\ DisksInit
  /\ bz2 = {} /\ torn = {} /\ wic = {}
  /\ loopdevice = "none" /\ yoctoImage = "none" /\ image = {} /\ fetched = {}
  /\ loop = AllFree /\ loop0 = AllFree
  /\ mounts = NoMounts /\ mounts0 = NoMounts
  /\ faults = 0

-----------------------------------------------------------------------------
(* Sequencing: the next command, or the end of the run. *)

Goto(from, to) == pc = from /\ pc' = to

Exit ==
  /\ pc' = 0
  /\ loopdevice' = "none" /\ yoctoImage' = "none"
  /\ image' = {} /\ fetched' = {}
  /\ loop0' = AllFree /\ mounts0' = NoMounts

Start ==
  /\ Goto(0, 11)
  /\ loop0' = loop /\ mounts0' = mounts
  /\ UNCHANGED <<host, disks, work, loopdevice, yoctoImage, image, fetched, faults>>

-----------------------------------------------------------------------------
(* Lines 10-33: the SD card. *)

(* rm -rf ./mnt/ || true *)
RmMnt ==
  /\ Goto(11, 13)
  /\ fs' = Emptied({"mnt/boot", "mnt/rootfs"})
  /\ UNCHANGED <<host, behind, table, work, run, faults>>

ImageExists ==
  /\ Goto(13, 27)
  /\ img = "present"
  /\ UNCHANGED <<host, disks, work, run, faults>>

CreateImage ==
  /\ Goto(13, 22)
  /\ img = "absent"
  /\ img' = "present"
  /\ UNCHANGED <<host, disks, bz2, torn, wic, run, faults>>

(* the operator leaves cfdisk having made none, one or both partitions      *)
Cfdisk ==
  /\ Goto(22, 27)
  /\ \E made \in {{}, {"boot"}, Part} :
       table' = [table EXCEPT !["card"] =
                   [p \in Part |-> IF p \in made THEN "raw" ELSE "missing"]]
  /\ UNCHANGED <<host, behind, fs, work, run, faults>>

(* mutant: reuse a device that has the card already                         *)
ReattachCard(l) ==
  /\ Goto(27, 29)
  /\ loop[l] \in {"free", "card"}
  /\ loop' = [loop EXCEPT ![l] = "card"]
  /\ behind' = [behind EXCEPT ![l] = "card"]
  /\ loopdevice' = l
  /\ UNCHANGED <<mounts, fs, table, work, yoctoImage, image, fetched, loop0, mounts0, faults>>

AttachCard(l) ==
  /\ Goto(27, 29)
  /\ Attach(l, "card")
  /\ behind' = [behind EXCEPT ![l] = "card"]
  /\ loopdevice' = l
  /\ UNCHANGED <<mounts, fs, table, work, yoctoImage, image, fetched, loop0, mounts0, faults>>

(* mutant: format the first time only                                       *)
MkfsOnce(from, to, p) ==
  /\ Goto(from, to)
  /\ Partition(loopdevice, p) # "missing" /\ ~Busy(loopdevice, p)
  /\ table' = [table EXCEPT ![behind[loopdevice]][p] = "formatted"]
  /\ UNCHANGED <<host, behind, fs, work, run, faults>>

(* mkfs DEVICEpN: whatever file is behind the device *)
Mkfs(from, to, p) ==
  /\ Goto(from, to)
  /\ Partition(loopdevice, p) # "missing" /\ ~Busy(loopdevice, p)
  /\ fs' = [fs EXCEPT ![behind[loopdevice]][p] = {}]
  /\ table' = [table EXCEPT ![behind[loopdevice]][p] = "formatted"]
  /\ UNCHANGED <<host, behind, work, run, faults>>

MountPart(from, to, l, m) ==
  /\ Goto(from, to)
  /\ Mount(l, m)
  /\ Partition(l, PartOf[m]) = "formatted"
  /\ UNCHANGED <<loop, disks, work, run, faults>>

-----------------------------------------------------------------------------
(* Lines 36-51: the Yocto image and the copy. *)

(* the same rm -rf: files of an unpacked image left mounted by an old run go *)
RmYoctomnt ==
  /\ Goto(37, 39)
  /\ fs' = Emptied({"yoctomnt/boot", "yoctomnt/rootfs"})
  /\ UNCHANGED <<host, behind, table, work, run, faults>>

(* mutant: line 39 left out                                                 *)
KeepWic ==
  /\ Goto(39, 40)
  /\ UNCHANGED <<host, disks, work, run, faults>>

RmWic ==
  /\ Goto(39, 40)
  /\ wic' = {}
  /\ UNCHANGED <<host, disks, img, bz2, torn, run, faults>>

Fetch(d) ==
  /\ Goto(40, 41)
  /\ d # {}
  /\ bz2' = bz2 \cup d /\ torn' = torn \ d
  /\ fetched' = d
  /\ UNCHANGED <<host, disks, img, wic, loopdevice, yoctoImage, image, loop0, mounts0, faults>>

(* bunzip2 unpacks every archive in the directory, those of old runs too, *)
(* but not over an image that is there                                    *)
Bunzip2 ==
  /\ Goto(41, 42)
  /\ bz2 # {} /\ torn = {} /\ bz2 \cap wic = {}
  /\ wic' = wic \cup bz2 /\ bz2' = {}
  /\ UNCHANGED <<host, disks, img, torn, run, faults>>

ListWic ==
  /\ Goto(42, 43)
  /\ wic # {}
  /\ image' = wic
  /\ UNCHANGED <<host, disks, work, loopdevice, yoctoImage, fetched, loop0, mounts0, faults>>

(* one unpacked image, or "$image" holds several names and losetup fails *)
AttachWic(l, b) ==
  /\ Goto(43, 44)
  /\ image = {b} /\ b \in wic
  /\ Attach(l, "wic")
  /\ behind' = [behind EXCEPT ![l] = l]
  /\ fs' = [fs EXCEPT ![l] = Contents(b)]
  /\ table' = [table EXCEPT ![l] = Layout(b)]
  /\ yoctoImage' = l
  /\ UNCHANGED <<mounts, work, loopdevice, image, fetched, loop0, mounts0, faults>>

Source(p) == Shown(Yoctomnt[p])

HasRoom(p) ==
  At(Mnt[p]) # "none" => \A x \in Source(p) \cap DOMAIN Has : Fits[p] \in Has[x]

CopyPart(from, to, p) ==
  /\ Goto(from, to)
  /\ Source(p) # {} /\ HasRoom(p)
  /\ fs' = Copied(Source(p), Mnt[p])
  /\ UNCHANGED <<host, behind, table, work, run, faults>>

-----------------------------------------------------------------------------
(* Lines 53-78: unmount, boot, clean up. *)

(* mutant: unmount whatever is mounted on the directory, not the newest     *)
UmountStack(from, to, m) ==
  /\ Goto(from, to)
  /\ Mounted(m)
  /\ mounts' = [mounts EXCEPT ![m] = <<>>]
  /\ loop' = [l \in Loop |-> IF loop[l] = "closing" /\ ~Uses(mounts', l)
                             THEN "free" ELSE loop[l]]
  /\ Forget
  /\ UNCHANGED <<work, run, faults>>

UmountPart(from, to, m) ==
  /\ Goto(from, to)
  /\ Umount(m)
  /\ Forget
  /\ UNCHANGED <<work, run, faults>>

(* kernel and device tree come from ./yoctomnt/boot, the disk is rootfs.img *)
BootFiles == {"b-plus.dtb", "kernel8.img"}
HasFile(x) == \E o \in Source("boot") \cap DOMAIN Has : x \in Has[o]
StartQemu ==
  /\ Goto(60, 69)
  /\ \A x \in BootFiles : HasFile(x)
  /\ UNCHANGED <<host, disks, work, run, faults>>

(* the guest mounts its root read-write *)
GuestWrites ==
  /\ pc = 69
  /\ fs' = [fs EXCEPT !["card"]["rootfs"] = @ \cup {"guest"}]
  /\ UNCHANGED <<pc, host, behind, table, work, run, faults>>

QemuExits ==
  /\ Goto(69, 73)
  /\ UNCHANGED <<host, disks, work, run, faults>>

(* mutant: line 75 left out                                                 *)
KeepCard ==
  /\ Goto(75, 76)
  /\ UNCHANGED <<host, disks, work, run, faults>>

DetachCard ==
  /\ Goto(75, 76)
  /\ Detach(loopdevice)
  /\ Forget
  /\ UNCHANGED <<mounts, work, run, faults>>

(* mutant: line 76 left out                                                 *)
KeepImage ==
  /\ pc = 76
  /\ Exit
  /\ UNCHANGED <<host, disks, work, faults>>

DetachWic ==
  /\ pc = 76
  /\ Detach(yoctoImage)
  /\ Forget
  /\ Exit
  /\ UNCHANGED <<mounts, work, faults>>

-----------------------------------------------------------------------------
(* Runs that end early. *)

(* set -e: the commands that must fail in the state they find               *)
MustFail ==
  \/ pc \in {27, 43} /\ NoFreeLoop
  \/ pc = 29 /\ (Partition(loopdevice, "boot") = "missing" \/ Busy(loopdevice, "boot"))
  \/ pc = 30 /\ (Partition(loopdevice, "rootfs") = "missing" \/ Busy(loopdevice, "rootfs"))
  \/ pc = 32 /\ Partition(loopdevice, "boot") # "formatted"
  \/ pc = 33 /\ Partition(loopdevice, "rootfs") # "formatted"
  \/ pc = 40 /\ {} \in Deploys
  \/ pc = 42 /\ wic = {}
  \/ pc = 43 /\ (Cardinality(image) # 1 \/ ~(image \subseteq wic))
  \/ pc = 44 /\ Partition(yoctoImage, "boot") # "formatted"
  \/ pc = 45 /\ Partition(yoctoImage, "rootfs") # "formatted"
  \/ pc = 49 /\ Source("boot") = {}
  \/ pc = 50 /\ Source("rootfs") = {}
  \/ pc = 55 /\ ~Mounted("mnt/boot")
  \/ pc = 56 /\ ~Mounted("mnt/rootfs")
  \/ pc = 60 /\ \E x \in BootFiles : ~HasFile(x)
  \/ pc = 73 /\ ~Mounted("yoctomnt/boot")
  \/ pc = 74 /\ ~Mounted("yoctomnt/rootfs")
  \/ pc = 75 /\ loop[loopdevice] = "free"
  \/ pc = 76 /\ loop[yoctoImage] = "free"

(* mutant: `|| true' on line 27                                             *)
LosetupIgnored ==
  /\ MustFail
  /\ IF pc = 27 THEN pc' = 29 /\ UNCHANGED run ELSE Exit
  /\ UNCHANGED <<host, disks, work, faults>>

CommandFails ==
  /\ MustFail
  /\ Exit
  /\ UNCHANGED <<host, disks, work, faults>>

(* a cut-short archive stops bunzip2, an image that is there makes it pass  *)
(* over an archive; what it unpacked stays                                  *)
Bunzip2Fails(done) ==
  /\ pc = 41
  /\ bz2 = {} \/ torn # {} \/ bz2 \cap wic # {}
  /\ done \subseteq bz2 \ (torn \cup wic)
  /\ torn = {} => done = bz2 \ wic
  /\ wic' = wic \cup done /\ bz2' = bz2 \ done
  /\ Exit
  /\ UNCHANGED <<host, disks, img, torn, faults>>

(* cp fills the partition and fails *)
CopyFails(line, p) ==
  /\ pc = line
  /\ Source(p) # {} /\ ~HasRoom(p)
  /\ fs' \in {fs, Copied(Source(p), Mnt[p])}
  /\ Exit
  /\ UNCHANGED <<host, behind, table, work, faults>>

(* mkfs.ext4 finds a file system, asks, and the operator says no *)
Decline ==
  /\ pc = 30
  /\ Partition(loopdevice, "rootfs") = "formatted"
  /\ Exit
  /\ UNCHANGED <<host, disks, work, faults>>

Unprovoked == pc # 0 /\ faults < MaxFaults /\ faults' = faults + 1 /\ Exit

(* any command may fail, and any run may be killed, between two commands *)
Fault == Unprovoked /\ UNCHANGED <<host, disks, work>>

(* ... while cp is writing archive b, having copied those of done *)
FaultInFetch(done, b) ==
  /\ pc = 40
  /\ \E d \in Deploys : b \in d /\ done \subseteq d \ {b}
  /\ Unprovoked
  /\ bz2' = bz2 \cup done \cup {b} /\ torn' = (torn \ done) \cup {b}
  /\ UNCHANGED <<host, disks, img, wic>>

(* ... while bunzip2 is at work *)
FaultInBunzip2(done) ==
  /\ pc = 41
  /\ done \subseteq bz2 \ (torn \cup wic)
  /\ Unprovoked
  /\ wic' = wic \cup done /\ bz2' = bz2 \ done
  /\ UNCHANGED <<host, disks, img, torn>>

(* The host loses its power: devices and mounts are gone, archives copied   *)
(* since may lack their end, and the card may be inconsistent.              *)
HostCrash(lost) ==
  /\ Unprovoked
  /\ loop' = AllFree /\ mounts' = NoMounts
  /\ Forget \/ ForgetCorrupting
  /\ lost \subseteq bz2 /\ torn' = torn \cup lost
  /\ UNCHANGED <<img, bz2, wic>>

-----------------------------------------------------------------------------
(* The world around the script. *)

(* A file system of rootfs.img left mounted by an older run still has      *)
(* buffers of its own; it may write them over what this run puts there.    *)
StaleWriteback(p) ==
  /\ loopdevice # "none"
  /\ \E i \in DOMAIN mounts[Mnt[p]] :
       LET l == mounts[Mnt[p]][i] IN l # loopdevice /\ behind[l] = "card"
  /\ fs' = [fs EXCEPT !["card"][p] = @ \cup {"corrupt"}]
  /\ UNCHANGED <<pc, host, behind, table, work, run, faults>>

(* The clean-up the guides ask for, by hand, between runs. *)
OperatorUmount(m) ==
  /\ pc = 0
  /\ Umount(m)
  /\ Forget
  /\ UNCHANGED <<pc, work, run, faults>>

OperatorDetach(l) ==
  /\ pc = 0
  /\ Detach(l)
  /\ Forget
  /\ UNCHANGED <<pc, mounts, work, run, faults>>

(* an orderly restart of the host keeps the files and drops the rest *)
Reboot ==
  /\ pc = 0
  /\ loop' = AllFree /\ mounts' = NoMounts
  /\ Forget
  /\ UNCHANGED <<pc, work, run, faults>>

-----------------------------------------------------------------------------
Progress ==
  \/ Start
  \/ RmMnt \/ ImageExists \/ CreateImage \/ Cfdisk
  \/ \E l \in Loop : AttachCard(l)
  \/ Mkfs(29, 30, "boot") \/ Mkfs(30, 32, "rootfs")
  \/ MountPart(32, 33, loopdevice, "mnt/boot")
  \/ MountPart(33, 37, loopdevice, "mnt/rootfs")
  \/ RmYoctomnt \/ RmWic
  \/ \E d \in Deploys : Fetch(d)
  \/ Bunzip2 \/ ListWic
  \/ \E l \in Loop, b \in Build : AttachWic(l, b)
  \/ MountPart(44, 45, yoctoImage, "yoctomnt/boot")
  \/ MountPart(45, 49, yoctoImage, "yoctomnt/rootfs")
  \/ CopyPart(49, 50, "boot") \/ CopyPart(50, 55, "rootfs")
  \/ UmountPart(55, 56, "mnt/boot")
  \/ UmountPart(56, 60, "mnt/rootfs")
  \/ StartQemu \/ QemuExits
  \/ UmountPart(73, 74, "yoctomnt/boot")
  \/ UmountPart(74, 75, "yoctomnt/rootfs")
  \/ DetachCard \/ DetachWic

MustEnd ==
  \/ CommandFails
  \/ \E done \in SUBSET Build : Bunzip2Fails(done)
  \/ CopyFails(49, "boot") \/ CopyFails(50, "rootfs")

Script == Progress \/ MustEnd

Faults ==
  \/ Fault
  \/ \E done \in SUBSET Build, b \in Build : FaultInFetch(done, b)
  \/ \E done \in SUBSET Build : FaultInBunzip2(done)
  \/ \E lost \in SUBSET Build : HostCrash(lost)

Environment ==
  \/ Decline
  \/ GuestWrites
  \/ \E p \in Part : StaleWriteback(p)
  \/ \E m \in Dir : OperatorUmount(m)
  \/ \E l \in Loop : OperatorDetach(l)
  \/ Reboot

Next == Script \/ Faults \/ Environment

Spec == Init /\ [][Next]_vars

(* commands return, QEMU is quit, and the operator runs the script again *)
FairSpec == Spec /\ WF_vars(Script)

-----------------------------------------------------------------------------
(* Properties. *)

(* what this run has attached and mounted at line pc *)
Own(m) == IF m \in {"mnt/boot", "mnt/rootfs"} THEN loopdevice ELSE yoctoImage
HoldsMount(m) == \/ m = "mnt/boot"        /\ 32 < pc /\ pc <= 55
                 \/ m = "mnt/rootfs"      /\ 33 < pc /\ pc <= 56
                 \/ m = "yoctomnt/boot"   /\ 44 < pc /\ pc <= 73
                 \/ m = "yoctomnt/rootfs" /\ 45 < pc /\ pc <= 74
HoldsCard == 27 < pc /\ pc <= 75
HoldsWic == 43 < pc /\ pc <= 76

Accounted(m) ==
  mounts[m] = IF HoldsMount(m) THEN Append(mounts0[m], Own(m)) ELSE mounts0[m]
MountsAccounted == \A m \in Dir : Accounted(m)
LoopsAccounted ==
  \A l \in Loop : loop[l] = IF HoldsCard /\ l = loopdevice THEN "card"
                            ELSE IF HoldsWic /\ l = yoctoImage THEN "wic"
                            ELSE loop0[l]

(* At every line the host is as the run found it, plus exactly the run's    *)
(* own devices and, on top of whatever older runs left on each directory,   *)
(* its own mounts: so each umount of lines 55-74 hits its own mount.        *)
HostAccounted == pc # 0 => MountsAccounted /\ LoopsAccounted

(* A run that reaches line 78 leaves devices and mounts as it found them.   *)
CompletedRunIsNeutral ==
  [][pc = 76 /\ pc' = 0 /\ faults' = faults
       => loop' = loop0 /\ mounts' = mounts0]_vars

(* Unless an older run left rootfs.img mounted, the guest boots with a      *)
(* kernel and both partitions of one and the same build, the one this run   *)
(* fetched: nothing of an older card, archive or image remains.             *)
BootsFetchedBuild ==
  pc = 69 /\ (\A p \in Part : mounts0[Mnt[p]] = <<>>) =>
    \E b \in Build : /\ fetched = {b}
                     /\ Source("boot") = {b}
                     /\ fs["card"]["boot"] = {b}
                     /\ fs["card"]["rootfs"] \ {"guest"} = {b}

(* what older runs, or the failures of older runs, left behind: every loop  *)
(* device, a card without a partition, an archive cut short, an archive     *)
(* that is unpacked besides the one this run fetched                        *)
Leftover ==
  \/ pc \in {27, 43} /\ NoFreeLoop
  \/ pc = 29 /\ table["card"]["boot"] = "missing"
  \/ pc = 30 /\ table["card"]["rootfs"] = "missing"
  \/ pc = 41 /\ torn # {}
  \/ pc = 43 /\ ~(image \subseteq fetched)

(* what this run was given: a refusal to format again, no archive or more   *)
(* than one, or a build that lacks what the line needs of it                *)
Needed == {<<44, "boot">>, <<45, "rootfs">>, <<49, "boot fits">>,
           <<50, "rootfs fits">>, <<60, "b-plus.dtb">>, <<60, "kernel8.img">>}
Given ==
  \/ pc = 30 /\ table["card"]["rootfs"] = "formatted"
  \/ pc = 40 /\ {} \in Deploys
  \/ pc = 43 /\ Cardinality(fetched) # 1
  \/ \E b \in fetched, x \in Features : <<pc, x>> \in Needed /\ x \notin Has[b]

(* A run that nothing kills comes to its end unless it meets one of these.  *)
(* Whatever else earlier ends have left ends no run, at no line: file       *)
(* systems mounted on the run's directories, the card or an image still     *)
(* attached, a card half filled, images unpacked.                           *)
EndsForAReason ==
  [][pc # 0 /\ pc' = 0 /\ faults' = faults
       => Leftover \/ Given \/ pc = 76]_vars

(* The script is a Launcher: devices it attaches are leased from the host   *)
(* and, once a guest has been booted, all given back unless something fails *)
(* unprovoked; devices of older runs are never touched.                     *)
Phase == IF pc = 0 THEN "idle" ELSE IF pc < 69 THEN "preparing"
         ELSE IF pc = 69 THEN "guest" ELSE "cleaning"
Leased == {l \in Loop : \/ HoldsCard /\ l = loopdevice
                        \/ HoldsWic /\ l = yoctoImage}
Leaked == {l \in Loop : loop[l] # "free"} \ Leased

L == INSTANCE Launcher WITH phase <- Phase, leased <- Leased, leaked <- Leaked,
                            failures <- faults
ImplementsLauncher == L!Spec

Lacking(b) == \E n \in Needed : n[2] \notin Has[b]

(* Once failures have stopped, running the script again and again boots a   *)
(* guest again and again, unless the operator refuses to format again and   *)
(* again or keeps fetching builds that cannot be booted, or one of three    *)
(* leftovers of an early end stands in the way: an image that cfdisk never  *)
(* gave both partitions (every run ends at line 29 or 30), an archive cut   *)
(* short (line 41), or too many loop devices that no run detached.          *)
RetriesRecover ==
  \/ []<>(pc = 69)
  \/ []<><<Decline>>_vars
  \/ []<>(\E b \in fetched : Lacking(b))
  \/ <>[](table["card"]["rootfs"] = "missing")
  \/ <>[](torn # {})
  \/ []<>(pc \in {27, 43} /\ NoFreeLoop)

-----------------------------------------------------------------------------
(* What the guides say and the script does not do. *)

(* 03_virt_sdcard.md:119, unmount and detach whenever a run is over.        *)
CleansUpWhenFinished == pc = 0 => loop = AllFree /\ mounts = NoMounts
=============================================================================
