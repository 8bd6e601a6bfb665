----------------------------- MODULE RunRaspian -----------------------------
(***************************************************************************)
(* 06_yocto_qemu/run_Qemu-raspian.sh: it takes the kernel and the device   *)
(* tree out of a Raspberry Pi OS image, gives the loop device back, and    *)
(* only then starts QEMU on the image.                                     *)
(*                                                                         *)
(* pc is the line of the script the shell executes next; 0 is "no run".    *)
(* `set -e' (line 6) ends a run at the first command that fails.           *)
(***************************************************************************)
EXTENDS Disks

CONSTANTS Programs,   \* the QEMU programs installed on the host
          MaxFaults   \* bound: commands that fail or are killed unprovoked

ASSUME FaultAssumption == MaxFaults \in Nat

VARIABLES
  pc,             \* line of the next command
  images,         \* the files ./2*[0-9]*.img
  size,           \* size[i]: "small", "4G" or "large", next to 4G
  directory,      \* ./raspios/boot exists: no command of the script makes it
  raspiosImage,   \* the shell variable
  image,          \* the shell variable
  dtb, kernel,    \* whose the two copied files are
  loop0, mounts0, \* history: loop and mounts when the run began
  faults

host == <<loop, mounts>>
files == <<images, size, directory>>
copied == <<dtb, kernel>>
run == <<image, raspiosImage, loop0, mounts0>>
vars == <<pc, host, disks, files, copied, run, faults>>

Lines == {0, 13, 14, 15, 16, 20, 21, 26, 27, 30, 41}

(* Well typed, and "$raspiosImage" names a device wherever it is used.      *)
TypeOK ==
  /\ pc \in Lines
  /\ images \in SUBSET Image
  /\ size \in [Image -> {"small", "4G", "large"}]
  /\ directory \in BOOLEAN
  /\ image \in Image \cup {"none"}
  /\ raspiosImage \in Loop \cup {"none"}
  /\ pc \in 16..27 => raspiosImage \in Loop
  /\ DisksOK
  /\ dtb \in Origin \cup {"none"} /\ kernel \in Origin \cup {"none"}
  /\ loop \in LoopTable /\ loop0 \in LoopTable
  /\ mounts \in MountTable /\ mounts0 \in MountTable
  /\ faults \in 0..MaxFaults

Init ==
  /\ pc = 0
  /\ images = {} /\ size \in [Image -> {"small", "4G", "large"}]
  /\ directory \in BOOLEAN
  /\ image = "none" /\ raspiosImage = "none"
  /\ DisksInit
  /\ dtb = "none" /\ kernel = "none"
  /\ loop = AllFree /\ loop0 = AllFree
  /\ mounts = NoMounts /\ mounts0 = NoMounts
  /\ faults = 0

-----------------------------------------------------------------------------
Goto(from, to) == pc = from /\ pc' = to

Exit ==
  /\ pc' = 0
  /\ image' = "none" /\ raspiosImage' = "none"
  /\ loop0' = AllFree /\ mounts0' = NoMounts

Start ==
  /\ Goto(0, 13)
  /\ loop0' = loop /\ mounts0' = mounts
  /\ UNCHANGED <<host, disks, files, copied, image, raspiosImage, faults>>

(* several files make one string that names none of them: line 14 fails     *)
ListImages ==
  /\ Goto(13, 14)
  /\ \/ \E i \in Image : images = {i} /\ image' = i
     \/ Cardinality(images) > 1 /\ image' = "none"
  /\ UNCHANGED <<host, disks, files, copied, raspiosImage, loop0, mounts0, faults>>

(* qemu-img does not shrink an image *)
Resize ==
  /\ Goto(14, 15)
  /\ image \in {i \in Image : size[i] # "large"}
  /\ size' = [size EXCEPT ![image] = "4G"]
  /\ UNCHANGED <<host, disks, images, directory, copied, run, faults>>

AttachImage(l) ==
  /\ Goto(15, 16)
  /\ Attach(l, "raspios")
  /\ behind' = [behind EXCEPT ![l] = image]
  /\ raspiosImage' = l
  /\ UNCHANGED <<mounts, fs, table, files, copied, image, loop0, mounts0, faults>>

(* mutant: mountpoint -q ./raspios/boot || mount ...                        *)
MountBootOnce ==
  /\ Goto(16, 20)
  /\ directory
  /\ \/ Mounted("raspios/boot") /\ UNCHANGED mounts
     \/ /\ ~Mounted("raspios/boot") /\ Mount(raspiosImage, "raspios/boot")
        /\ Partition(raspiosImage, "boot") = "formatted"
  /\ UNCHANGED <<loop, disks, files, copied, run, faults>>

MountBoot ==
  /\ Goto(16, 20)
  /\ directory
  /\ Mount(raspiosImage, "raspios/boot")
  /\ Partition(raspiosImage, "boot") = "formatted"
  /\ UNCHANGED <<loop, disks, files, copied, run, faults>>

(* whose copy of file x is in ./raspios/boot *)
Source(x) == {o \in Shown("raspios/boot") \cap DOMAIN Has : x \in Has[o]}

CopyDtb ==
  /\ Goto(20, 21)
  /\ dtb' \in Source("b.dtb")
  /\ UNCHANGED <<host, disks, files, kernel, run, faults>>

CopyKernel ==
  /\ Goto(21, 26)
  /\ kernel' \in Source("kernel8.img")
  /\ UNCHANGED <<host, disks, files, dtb, run, faults>>

UmountBoot ==
  /\ Goto(26, 27)
  /\ Umount("raspios/boot")
  /\ Forget
  /\ UNCHANGED <<files, copied, run, faults>>

(* mutant: line 27 left out *)
KeepImage ==
  /\ Goto(27, 30)
  /\ UNCHANGED <<host, disks, files, copied, run, faults>>

(* mutant: `losetup -D', as in the guide *)
DetachEverything ==
  /\ Goto(27, 30)
  /\ DetachAll
  /\ Forget
  /\ UNCHANGED <<mounts, files, copied, run, faults>>

DetachImage ==
  /\ Goto(27, 30)
  /\ Detach(raspiosImage)
  /\ Forget
  /\ UNCHANGED <<mounts, files, copied, run, faults>>

StartQemu ==
  /\ Goto(30, 41)
  /\ "qemu-system-arm64" \in Programs
  /\ UNCHANGED <<host, disks, files, copied, run, faults>>

QemuExits ==
  /\ pc = 41
  /\ Exit
  /\ UNCHANGED <<host, disks, files, copied, faults>>

-----------------------------------------------------------------------------
(* set -e: the commands that must fail in the state they find               *)
MustFail ==
  \/ pc = 13 /\ images = {}
  \/ pc = 14 /\ image \notin {i \in Image : size[i] # "large"}
  \/ pc = 15 /\ NoFreeLoop
  \/ pc = 16 /\ (~directory \/ Partition(raspiosImage, "boot") # "formatted")
  \/ pc = 20 /\ Source("b.dtb") = {}
  \/ pc = 21 /\ Source("kernel8.img") = {}
  \/ pc = 26 /\ ~Mounted("raspios/boot")
  \/ pc = 27 /\ loop[raspiosImage] = "free"
  \/ pc = 30 /\ "qemu-system-arm64" \notin Programs

(* mutant: `|| true' on line 15                                             *)
LosetupIgnored ==
  /\ MustFail
  /\ IF pc = 15 THEN pc' = 16 /\ UNCHANGED run ELSE Exit
  /\ UNCHANGED <<host, disks, files, copied, faults>>

CommandFails ==
  /\ MustFail
  /\ Exit
  /\ UNCHANGED <<host, disks, files, copied, faults>>

(* any command may fail, and any run may be killed, between two commands    *)
Fault ==
  /\ pc # 0 /\ faults < MaxFaults
  /\ faults' = faults + 1
  /\ Exit
  /\ UNCHANGED <<host, disks, files, copied>>

-----------------------------------------------------------------------------
(* Between runs, the operator downloads and deletes releases, makes the     *)
(* mount point, cleans up or restarts the host.                             *)
Download(i) ==
  /\ pc = 0 /\ i \notin images
  /\ images' = images \cup {i}
  /\ fs' = [fs EXCEPT ![i] = Contents(i)]
  /\ table' = [table EXCEPT ![i] = Layout(i)]
  /\ UNCHANGED <<pc, host, behind, size, directory, copied, run, faults>>

Delete(i) ==
  /\ pc = 0
  /\ images' = images \ {i}
  /\ UNCHANGED <<pc, host, disks, size, directory, copied, run, faults>>

MakeDirectory ==
  /\ pc = 0 /\ directory' = TRUE
  /\ UNCHANGED <<pc, host, disks, images, size, copied, run, faults>>

OperatorUmount ==
  /\ pc = 0
  /\ Umount("raspios/boot")
  /\ Forget
  /\ UNCHANGED <<pc, files, copied, run, faults>>

OperatorDetach(l) ==
  /\ pc = 0
  /\ Detach(l)
  /\ Forget
  /\ UNCHANGED <<pc, mounts, files, copied, run, faults>>

Reboot ==
  /\ pc = 0
  /\ loop' = AllFree /\ mounts' = NoMounts
  /\ Forget
  /\ UNCHANGED <<pc, files, copied, run, faults>>

-----------------------------------------------------------------------------
Progress ==
  \/ Start \/ ListImages \/ Resize
  \/ \E l \in Loop : AttachImage(l)
  \/ MountBoot \/ CopyDtb \/ CopyKernel \/ UmountBoot \/ DetachImage
  \/ StartQemu \/ QemuExits

Script == Progress \/ CommandFails

Operator ==
  \/ \E i \in Image : Download(i) \/ Delete(i)
  \/ MakeDirectory \/ OperatorUmount
  \/ \E l \in Loop : OperatorDetach(l)
  \/ Reboot

Next == Script \/ Fault \/ Operator

Spec == Init /\ [][Next]_vars

-----------------------------------------------------------------------------
(* Kernel and device tree QEMU is started with are those of the release on  *)
(* the drive, whatever older runs copied or left mounted.                   *)
KernelMatchesDrive ==
  pc \in {30, 41} => images = {image} /\ dtb = image /\ kernel = image

(* At every line the host is as the run found it, plus its own device at    *)
(* lines 16-27 and, on top of what older runs left on ./raspios/boot, its   *)
(* own mount at lines 20-26. So whatever ends a run, it leaks no more than  *)
(* these two, and, unlike prepare_Qemu.sh, nothing once line 27 is passed:  *)
(* a QEMU that fails leaves nothing attached.                               *)
HostAccounted ==
  pc # 0 =>
    /\ \A m \in Dir :
         mounts[m] = IF m = "raspios/boot" /\ 16 < pc /\ pc <= 26
                     THEN Append(mounts0[m], raspiosImage) ELSE mounts0[m]
    /\ \A l \in Loop :
         loop[l] = IF l = raspiosImage /\ 15 < pc /\ pc <= 27
                   THEN "raspios" ELSE loop0[l]

(* The script is a Launcher with a lease of its own: returned before QEMU   *)
(* starts, leaked only by a run that ends early.                            *)
Phase == IF pc = 0 THEN "idle" ELSE IF pc = 41 THEN "guest" ELSE "preparing"
Leased == {l \in Loop : 15 < pc /\ pc <= 27 /\ l = raspiosImage}
Leaked == {l \in Loop : loop[l] # "free"} \ Leased

L == INSTANCE Launcher WITH phase <- Phase, leased <- Leased, leaked <- Leaked,
                            failures <- faults
ImplementsLauncher == L!Spec

(* README.md:46, the scripts run Raspbian images: line 30 starts QEMU       *)
StartsQemu == [][pc = 30 => pc' = 41]_pc
=============================================================================
