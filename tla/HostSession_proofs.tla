------------------------- MODULE HostSession_proofs -------------------------
(***************************************************************************)
(* The two scripts do not take each other's devices, for any number of     *)
(* devices, builds and releases.                                           *)
(***************************************************************************)
EXTENDS HostSession, Host_proofs, TLAPS

HoldsImage == 15 < rpc /\ rpc <= 27

(* a name in use is that of a device; with LeasesKept, of the right one     *)
IInv ==
  /\ loop \in LoopTable
  /\ pc \in P!Lines /\ rpc \in R!Lines
  /\ P!HoldsCard => loopdevice \in Loop
  /\ P!HoldsWic => yoctoImage \in Loop
  /\ HoldsImage => raspiosImage \in Loop
  /\ LeasesKept

(* before the scripts are started *)
LEMMA IInvInit == Init => IInv
  BY EmptyTables
  DEF Init, P!Init, R!Init, P!AllFree, AllFree, IInv, LeasesKept, HoldsImage,
      P!HoldsCard, P!HoldsWic, P!Lines, R!Lines

(* prepare_Qemu.sh takes only free devices and detaches its own; its        *)
(* umounts free only devices on their way out, never one that is held       *)
LEMMA PrepareKeeps == IInv /\ Prepare => IInv'
<1> SUFFICES ASSUME IInv, Prepare PROVE IInv'
  OBVIOUS
<1>a. UNCHANGED raspian
  BY DEF Prepare
<1>b. ~swept' => ~swept \/ Idle'
  BY Zenon DEF Prepare, Remember
<1> USE <1>a, <1>b, LoopAssumption
    DEF IInv, LeasesKept, HoldsImage, P!HoldsCard, P!HoldsWic, P!Lines, R!Lines,
        P!Goto, P!host, P!disks, P!work, P!run, Idle, raspian
<1>1. CASE P!Start \/ P!RmMnt \/ P!ImageExists \/ P!CreateImage \/ P!Cfdisk
  BY <1>1 DEF P!Start, P!RmMnt, P!ImageExists, P!CreateImage, P!Cfdisk
<1>2. ASSUME NEW l \in Loop, P!AttachCard(l) PROVE IInv'
  BY <1>2 DEF P!AttachCard, P!Attach, LoopTable
<1>3. CASE \/ P!Mkfs(29, 30, "boot") \/ P!Mkfs(30, 32, "rootfs")
           \/ P!CopyPart(49, 50, "boot") \/ P!CopyPart(50, 55, "rootfs")
  BY <1>3 DEF P!Mkfs, P!CopyPart
<1>4. CASE \/ P!MountPart(32, 33, loopdevice, "mnt/boot")
           \/ P!MountPart(33, 37, loopdevice, "mnt/rootfs")
           \/ P!MountPart(44, 45, yoctoImage, "yoctomnt/boot")
           \/ P!MountPart(45, 49, yoctoImage, "yoctomnt/rootfs")
  BY <1>4 DEF P!MountPart
<1>5. CASE P!RmYoctomnt \/ P!RmWic \/ P!Bunzip2 \/ P!ListWic \/ (\E d \in Deploys : P!Fetch(d))
  BY <1>5 DEF P!RmYoctomnt, P!RmWic, P!Bunzip2, P!ListWic, P!Fetch
<1>6. ASSUME NEW l \in Loop, NEW b \in Build, P!AttachWic(l, b) PROVE IInv'
  BY <1>6 DEF P!AttachWic, P!Attach, LoopTable
<1>7. ASSUME NEW from \in {55, 56, 73, 74}, NEW to \in {56, 60, 74, 75},
             NEW m \in Dir, P!UmountPart(from, to, m), from < to
      PROVE  IInv'
  BY <1>7 DEF P!UmountPart, P!Umount, P!Uses, LoopTable
<1>8. CASE P!StartQemu \/ P!QemuExits \/ P!GuestWrites
  BY <1>8 DEF P!StartQemu, P!QemuExits, P!GuestWrites
<1>9. CASE P!DetachCard
  BY <1>9 DEF P!DetachCard, P!Detach, P!Gone, LoopTable
<1>10. CASE P!DetachWic
  BY <1>10 DEF P!DetachWic, P!Detach, P!Gone, P!Exit, LoopTable
<1>11. CASE P!CommandFails \/ (\E done \in SUBSET Build : P!Bunzip2Fails(done))
            \/ P!CopyFails(49, "boot") \/ P!CopyFails(50, "rootfs") \/ P!Decline
  BY <1>11 DEF P!CommandFails, P!Bunzip2Fails, P!CopyFails, P!Decline, P!Exit
<1>12. CASE \E p \in Part : P!StaleWriteback(p)
  BY <1>12 DEF P!StaleWriteback
<1> HIDE DEF IInv
<1> QED
  BY <1>1, <1>2, <1>3, <1>4, <1>5, <1>6, <1>7, <1>8, <1>9, <1>10, <1>11, <1>12
  DEF Prepare, P!Progress, P!MustEnd, Dir

(* ... and so does run_Qemu-raspian.sh                                      *)
LEMMA RaspianKeeps == IInv /\ Raspian => IInv'
<1> SUFFICES ASSUME IInv, Raspian PROVE IInv'
  OBVIOUS
<1>a. UNCHANGED prepare
  BY DEF Raspian
<1>b. ~swept' => ~swept \/ Idle'
  BY Zenon DEF Raspian, Remember
<1> USE <1>a, <1>b, LoopAssumption
    DEF IInv, LeasesKept, HoldsImage, P!HoldsCard, P!HoldsWic, P!Lines, R!Lines,
        R!Goto, R!Exit, R!host, R!files, R!copied, R!run, Idle, prepare
<1>1. CASE R!Start \/ R!ListImages \/ R!Resize \/ R!CopyDtb \/ R!CopyKernel
  BY <1>1 DEF R!Start, R!ListImages, R!Resize, R!CopyDtb, R!CopyKernel
<1>2. ASSUME NEW l \in Loop, R!AttachImage(l) PROVE IInv'
  BY <1>2 DEF R!AttachImage, R!Attach, LoopTable
<1>3. CASE R!MountBoot
  BY <1>3 DEF R!MountBoot
<1>4. CASE R!UmountBoot
  BY <1>4 DEF R!UmountBoot, R!Umount, R!Uses, LoopTable
<1>5. CASE R!DetachImage
  BY <1>5 DEF R!DetachImage, R!Detach, R!Gone, LoopTable
<1>6. CASE R!StartQemu \/ R!QemuExits
  BY <1>6 DEF R!StartQemu, R!QemuExits
<1>7. CASE R!CommandFails
  BY <1>7 DEF R!CommandFails
<1>8. CASE R!MakeDirectory \/ (\E i \in Image : R!Download(i) \/ R!Delete(i))
  BY <1>8 DEF R!MakeDirectory, R!Download, R!Delete
<1> HIDE DEF IInv
<1> QED
  BY <1>1, <1>2, <1>3, <1>4, <1>5, <1>6, <1>7, <1>8
  DEF Raspian, R!Progress

(* the operator detaches what no script names, or sweeps                    *)
LEMMA OperatorKeeps == IInv /\ Operator => IInv'
<1> SUFFICES ASSUME IInv, Operator PROVE IInv'
  OBVIOUS
<1> USE LoopAssumption
    DEF IInv, LeasesKept, HoldsImage, P!HoldsCard, P!HoldsWic, P!Lines, R!Lines,
        Idle, Operate, prepare, raspian
<1>1. ASSUME NEW m \in Dir, OperatorUmount(m) PROVE IInv'
  <2>1. ~swept' => ~swept \/ Idle'
    BY <1>1, Zenon DEF OperatorUmount, Remember
  <2> QED
    BY <1>1, <2>1 DEF OperatorUmount, Umount, LoopTable
<1>2. ASSUME NEW l \in Loop, OperatorDetach(l) PROVE IInv'
  <2>1. ~swept' => ~swept \/ Idle'
    BY <1>2, Zenon DEF OperatorDetach, Remember
  <2> QED
    BY <1>2, <2>1 DEF OperatorDetach, Named, Detach, Gone, LoopTable
<1>3. CASE Sweep
  <2>1. ~swept' => Idle
    BY <1>3, Zenon DEF Sweep, Remember
  <2>2. loop' \in LoopTable
    BY <1>3, LoopTypes DEF Sweep, DetachAll, Gone, LoopTable
  <2> QED
    BY <1>3, <2>1, <2>2 DEF Sweep
<1>4. CASE Reboot
  BY <1>4, EmptyTables DEF Reboot
<1> QED
  BY <1>1, <1>2, <1>3, <1>4 DEF Operator

(* and nothing else happens *)
LEMMA IInvNext == IInv /\ [Next]_vars => IInv'
<1>1. IInv /\ UNCHANGED vars => IInv'
  BY DEF IInv, LeasesKept, HoldsImage, P!HoldsCard, P!HoldsWic, vars, host,
         prepare, raspian
<1> QED
  BY <1>1, PrepareKeeps, RaspianKeeps, OperatorKeeps DEF Next

(* However the two scripts interleave, and on whatever earlier runs left:   *)
(* as long as nobody types losetup -D, what a script calls its device is    *)
(* its own file's, so neither formats, mounts or detaches the other's.      *)
THEOREM KeepsLeases == Spec => []LeasesKept
<1>1. IInv => LeasesKept
  BY DEF IInv
<1> QED
  BY <1>1, IInvInit, IInvNext, PTL DEF Spec

-----------------------------------------------------------------------------
(* What a step of prepare_Qemu.sh is to the host: nothing, or one of the    *)
(* few things a script does to devices and mounts. All that follows about   *)
(* devices and mounts is argued from these.                                 *)

PHoldsAsBefore ==
  /\ pc' # 0
  /\ mounts0' = mounts0 /\ early' = early
  /\ P!HoldsCard' <=> P!HoldsCard
  /\ P!HoldsWic' <=> P!HoldsWic
  /\ loopdevice' = loopdevice /\ yoctoImage' = yoctoImage

PQuiet ==
  /\ UNCHANGED host
  /\ \/ UNCHANGED <<pc, loopdevice, yoctoImage, mounts0, early>>
     \/ pc # 0 /\ PHoldsAsBefore /\ \A m \in Dir : P!HoldsMount(m)' <=> P!HoldsMount(m)

PStarts == pc = 0 /\ pc' = 11 /\ UNCHANGED <<host, early>> /\ mounts0' = mounts

PAttaches(l, f) ==
  /\ Attach(l, f) /\ UNCHANGED <<mounts, mounts0, early>>
  /\ \/ f = "card" /\ pc = 27 /\ pc' = 29 /\ loopdevice' = l /\ yoctoImage' = yoctoImage
     \/ f = "wic" /\ pc = 43 /\ pc' = 44 /\ yoctoImage' = l /\ loopdevice' = loopdevice

PMounts(m) ==
  /\ pc # 0 /\ PHoldsAsBefore
  /\ P!Own(m) \in Loop /\ Mount(P!Own(m), m) /\ loop' = loop
  /\ ~P!HoldsMount(m) /\ P!HoldsMount(m)'
  /\ \A d \in Dir \ {m} : P!HoldsMount(d)' <=> P!HoldsMount(d)

PUmounts(m) ==
  /\ pc # 0 /\ PHoldsAsBefore
  /\ P!Own(m) \in Loop /\ Umount(m)
  /\ P!HoldsMount(m) /\ ~P!HoldsMount(m)'
  /\ \A d \in Dir \ {m} : P!HoldsMount(d)' <=> P!HoldsMount(d)

PDetaches ==
  /\ mounts' = mounts /\ early' = early
  /\ \/ /\ pc = 75 /\ pc' = 76 /\ Detach(loopdevice) /\ loopdevice \in Loop
        /\ UNCHANGED <<loopdevice, yoctoImage, mounts0>>
     \/ pc = 76 /\ pc' = 0 /\ Detach(yoctoImage) /\ yoctoImage \in Loop

PEndsEarly == pc' = 0 /\ UNCHANGED host /\ early' = TRUE

PMoves ==
  \/ PQuiet \/ PStarts \/ PDetaches \/ PEndsEarly
  \/ \E l \in Loop, f \in {"card", "wic"} : PAttaches(l, f)
  \/ \E m \in Dir \ {"raspios/boot"} : PMounts(m) \/ PUmounts(m)

(* there is no other *)
LEMMA PrepareMoves ==
  ASSUME IInv, Prepare
  PROVE  PMoves
<1>a. /\ pc \in P!Lines
      /\ P!HoldsCard => loopdevice \in Loop
      /\ P!HoldsWic => yoctoImage \in Loop
  BY DEF IInv
<1>b. ASSUME NEW l \in Loop PROVE P!Detach(l) => Detach(l)
  BY DEF P!Detach, Detach, P!Gone, Gone, P!InUse, InUse, P!Uses, Uses, P!Dir, Dir
<1>c. ASSUME NEW m \in Dir PROVE P!Umount(m) => Umount(m)
  BY DEF P!Umount, Umount, P!Uses, Uses, P!Dir, Dir
<1> USE <1>a DEF PMoves, PHoldsAsBefore, P!Lines, P!Goto, P!Exit, P!host, P!disks,
                 P!work, P!run, host
<1>1. CASE P!Progress /\ UNCHANGED early
  <2>1. CASE P!Start
    BY <1>1, <2>1 DEF P!Start, PStarts
  <2>2. CASE P!RmMnt \/ P!ImageExists \/ P!CreateImage \/ P!Cfdisk
    BY <1>1, <2>2 DEF P!RmMnt, P!ImageExists, P!CreateImage, P!Cfdisk, PQuiet,
      P!HoldsCard, P!HoldsWic, P!HoldsMount
  <2>3. ASSUME NEW l \in Loop, P!AttachCard(l) PROVE PMoves
    BY <1>1, <2>3 DEF P!AttachCard, P!Attach, Attach, PAttaches
  <2>4. CASE \/ P!Mkfs(29, 30, "boot") \/ P!Mkfs(30, 32, "rootfs")
             \/ P!CopyPart(49, 50, "boot") \/ P!CopyPart(50, 55, "rootfs")
    BY <1>1, <2>4 DEF P!Mkfs, P!CopyPart, PQuiet, P!HoldsCard, P!HoldsWic, P!HoldsMount
  <2>5. CASE \/ P!MountPart(32, 33, loopdevice, "mnt/boot")
             \/ P!MountPart(33, 37, loopdevice, "mnt/rootfs")
             \/ P!MountPart(44, 45, yoctoImage, "yoctomnt/boot")
             \/ P!MountPart(45, 49, yoctoImage, "yoctomnt/rootfs")
    <3>1. \E m \in Dir \ {"raspios/boot"} : PMounts(m)
      BY <1>1, <2>5 DEF P!MountPart, P!Mount, Mount, PMounts, Dir, P!Own,
        P!HoldsCard, P!HoldsWic, P!HoldsMount
    <3> QED
      BY <3>1
  <2>6. CASE P!RmYoctomnt \/ P!RmWic \/ P!Bunzip2 \/ P!ListWic \/ (\E d \in Deploys : P!Fetch(d))
    BY <1>1, <2>6 DEF P!RmYoctomnt, P!RmWic, P!Bunzip2, P!ListWic, P!Fetch, PQuiet,
      P!HoldsCard, P!HoldsWic, P!HoldsMount
  <2>7. ASSUME NEW l \in Loop, NEW b \in Build, P!AttachWic(l, b) PROVE PMoves
    BY <1>1, <2>7 DEF P!AttachWic, P!Attach, Attach, PAttaches
  <2>8. CASE \/ P!UmountPart(55, 56, "mnt/boot")
             \/ P!UmountPart(56, 60, "mnt/rootfs")
             \/ P!UmountPart(73, 74, "yoctomnt/boot")
             \/ P!UmountPart(74, 75, "yoctomnt/rootfs")
    <3>1. \E m \in Dir \ {"raspios/boot"} : PUmounts(m)
      BY <1>1, <1>c, <2>8 DEF P!UmountPart, PUmounts, Dir, P!Own,
        P!HoldsCard, P!HoldsWic, P!HoldsMount
    <3> QED
      BY <3>1
  <2>9. CASE P!StartQemu \/ P!QemuExits
    BY <1>1, <2>9 DEF P!StartQemu, P!QemuExits, PQuiet,
      P!HoldsCard, P!HoldsWic, P!HoldsMount
  <2>10. CASE P!DetachCard \/ P!DetachWic
    BY <1>1, <1>b, <2>10 DEF P!DetachCard, P!DetachWic, PDetaches, P!HoldsCard, P!HoldsWic
  <2> HIDE DEF PMoves
  <2> QED
    BY <1>1, <2>1, <2>2, <2>3, <2>4, <2>5, <2>6, <2>7, <2>8, <2>9, <2>10 DEF P!Progress
<1>2. CASE (P!MustEnd \/ P!Decline) /\ early' = TRUE
  BY <1>2 DEF P!MustEnd, P!CommandFails, P!Bunzip2Fails, P!CopyFails, P!Decline, PEndsEarly
<1>3. CASE /\ P!GuestWrites \/ (\E p \in Part : P!StaleWriteback(p))
           /\ UNCHANGED early
  BY <1>3 DEF P!GuestWrites, P!StaleWriteback, PQuiet
<1> QED
  BY <1>1, <1>2, <1>3 DEF Prepare

(* The same for run_Qemu-raspian.sh. *)
HoldsBoot == 16 < rpc /\ rpc <= 26

RHoldsAsBefore ==
  /\ rpc # 0 /\ rpc' # 0
  /\ rmounts0' = rmounts0 /\ early' = early
  /\ HoldsImage' <=> HoldsImage
  /\ raspiosImage' = raspiosImage

RQuiet ==
  /\ UNCHANGED host
  /\ \/ UNCHANGED <<rpc, raspiosImage, rmounts0, early>>
     \/ RHoldsAsBefore /\ (HoldsBoot' <=> HoldsBoot)

RStarts == rpc = 0 /\ rpc' = 13 /\ UNCHANGED <<host, early>> /\ rmounts0' = mounts

RAttaches(l) ==
  /\ rpc = 15 /\ rpc' = 16
  /\ Attach(l, "raspios") /\ UNCHANGED <<mounts, rmounts0, early>>
  /\ raspiosImage' = l

RMounts ==
  /\ rpc = 16 /\ rpc' = 20 /\ RHoldsAsBefore
  /\ raspiosImage \in Loop /\ Mount(raspiosImage, "raspios/boot") /\ loop' = loop

RUmounts ==
  /\ rpc = 26 /\ rpc' = 27 /\ RHoldsAsBefore
  /\ raspiosImage \in Loop /\ Umount("raspios/boot")

RDetaches ==
  /\ rpc = 27 /\ rpc' = 30 /\ UNCHANGED <<mounts, rmounts0, early>>
  /\ raspiosImage \in Loop /\ Detach(raspiosImage)

REnds == rpc = 41 /\ rpc' = 0 /\ UNCHANGED <<host, early>>

REndsEarly == rpc' = 0 /\ UNCHANGED host /\ early' = TRUE

RMoves ==
  \/ RQuiet \/ RStarts \/ RMounts \/ RUmounts \/ RDetaches \/ REnds \/ REndsEarly
  \/ \E l \in Loop : RAttaches(l)

(* there is no other *)
LEMMA RaspianMoves ==
  ASSUME IInv, Raspian
  PROVE  RMoves
<1>a. rpc \in R!Lines /\ (HoldsImage => raspiosImage \in Loop)
  BY DEF IInv
<1>b. ASSUME NEW l \in Loop PROVE R!Detach(l) => Detach(l)
  BY DEF R!Detach, Detach, R!Gone, Gone, R!InUse, InUse, R!Uses, Uses, R!Dir, Dir
<1>c. ASSUME NEW m \in Dir PROVE R!Umount(m) => Umount(m)
  BY DEF R!Umount, Umount, R!Uses, Uses, R!Dir, Dir
<1> USE <1>a DEF RMoves, RHoldsAsBefore, HoldsImage, HoldsBoot, R!Lines, R!Goto,
                 R!Exit, R!host, R!files, R!copied, R!run, host
<1>1. CASE R!Progress /\ UNCHANGED early
  <2>1. CASE R!Start
    BY <1>1, <2>1 DEF R!Start, RStarts
  <2>2. CASE R!ListImages \/ R!Resize \/ R!CopyDtb \/ R!CopyKernel \/ R!StartQemu
    BY <1>1, <2>2 DEF R!ListImages, R!Resize, R!CopyDtb, R!CopyKernel, R!StartQemu, RQuiet
  <2>3. ASSUME NEW l \in Loop, R!AttachImage(l) PROVE RMoves
    BY <1>1, <2>3 DEF R!AttachImage, R!Attach, Attach, RAttaches
  <2>4. CASE R!MountBoot
    BY <1>1, <2>4 DEF R!MountBoot, R!Mount, Mount, RMounts
  <2>5. CASE R!UmountBoot
    BY <1>1, <1>c, <2>5 DEF R!UmountBoot, RUmounts, Dir
  <2>6. CASE R!DetachImage
    BY <1>1, <1>b, <2>6 DEF R!DetachImage, RDetaches
  <2>7. CASE R!QemuExits
    BY <1>1, <2>7 DEF R!QemuExits, REnds
  <2> HIDE DEF RMoves
  <2> QED
    BY <1>1, <2>1, <2>2, <2>3, <2>4, <2>5, <2>6, <2>7 DEF R!Progress
<1>2. CASE R!CommandFails /\ early' = TRUE
  BY <1>2 DEF R!CommandFails, REndsEarly
<1>3. CASE /\ R!MakeDirectory \/ (\E i \in Image : R!Download(i) \/ R!Delete(i))
           /\ UNCHANGED early
  BY <1>3 DEF R!MakeDirectory, R!Download, R!Delete, RQuiet
<1> QED
  BY <1>1, <1>2, <1>3 DEF Raspian

-----------------------------------------------------------------------------
(* The kernel's bookkeeping, which no interleaving upsets.                  *)
LEMMA KernelNext == IInv /\ Kernel /\ [Next]_vars => Kernel'
<1> SUFFICES ASSUME IInv, Kernel, [Next]_vars PROVE HostMoves
  BY KernelKept
<1> USE DEF HostMoves, host
<1>1. CASE Prepare
  <2>1. PMoves
    BY <1>1, PrepareMoves
  <2> QED
    BY <2>1 DEF PMoves, PQuiet, PStarts, PDetaches, PEndsEarly, PAttaches,
      PMounts, PUmounts
<1>2. CASE Raspian
  <2>1. RMoves
    BY <1>2, RaspianMoves
  <2> QED
    BY <2>1 DEF RMoves, RQuiet, RStarts, RMounts, RUmounts, RDetaches, REnds,
      REndsEarly, RAttaches, Dir
<1>3. CASE Operator
  BY <1>3 DEF Operator, OperatorUmount, OperatorDetach, Sweep, Reboot
<1>4. CASE UNCHANGED vars
  BY <1>4 DEF vars
<1> QED
  BY <1>1, <1>2, <1>3, <1>4 DEF Next

-----------------------------------------------------------------------------
(* Whose mounts are where. A script mounts and unmounts on directories of   *)
(* its own, and the operator unmounts only where no script is running.      *)
PDir == Dir \ {"raspios/boot"}

RAccounted ==
  mounts["raspios/boot"] = IF HoldsBoot
                           THEN Append(rmounts0["raspios/boot"], raspiosImage)
                           ELSE rmounts0["raspios/boot"]

MInv ==
  /\ pc # 0 => mounts0 \in MountTable /\ \A m \in PDir : P!Accounted(m)
  /\ rpc # 0 => rmounts0 \in MountTable /\ RAccounted

(* what a step leaves alone stays accounted for *)
LEMMA Frame ==
  ASSUME NEW m \in Dir, P!Accounted(m), mounts'[m] = mounts[m], mounts0' = mounts0,
         P!HoldsMount(m)' <=> P!HoldsMount(m), P!HoldsMount(m) => P!Own(m)' = P!Own(m)
  PROVE  P!Accounted(m)'
<1>1. CASE P!HoldsMount(m)
  <2>1. mounts[m] = Append(mounts0[m], P!Own(m))
    BY <1>1 DEF P!Accounted
  <2>2. mounts'[m] = Append(mounts0'[m], P!Own(m)')
    BY <1>1, <2>1, Zenon
  <2> QED
    BY <1>1, <2>2, Zenon DEF P!Accounted
<1>2. CASE ~P!HoldsMount(m)
  BY <1>2, Zenon DEF P!Accounted
<1> QED
  BY <1>1, <1>2

(* the moves of prepare_Qemu.sh, on one of its directories *)
LEMMA PrepareMounts ==
  ASSUME Kernel, MInv, PMoves, pc' # 0
  PROVE  mounts0' \in MountTable /\ \A m \in PDir : P!Accounted(m)'
<1> SUFFICES ASSUME NEW m \in PDir
             PROVE  mounts0' \in MountTable /\ P!Accounted(m)'
  BY DEF PDir, Dir
<1>a. /\ mounts \in MountTable /\ m \in Dir
      /\ pc # 0 => mounts0 \in MountTable /\ P!Accounted(m)
  BY DEF Kernel, MInv, PDir
<1>1. CASE PQuiet
  <2>1. pc # 0 /\ mounts'[m] = mounts[m] /\ mounts0' = mounts0
    BY <1>1 DEF PQuiet, PHoldsAsBefore, host
  <2>2. P!HoldsMount(m)' <=> P!HoldsMount(m)
    BY <1>1, <1>a DEF PQuiet, P!HoldsMount
  <2>3. P!Own(m)' = P!Own(m)
    BY <1>1 DEF PQuiet, PHoldsAsBefore, P!Own
  <2> QED
    BY <1>a, <2>1, <2>2, <2>3, Frame
<1>2. CASE PStarts
  <2>1. ~P!HoldsMount(m)'
    BY <1>2 DEF PStarts, P!HoldsMount
  <2> QED
    BY <1>2, <1>a, <2>1, Zenon DEF PStarts, P!Accounted, host
<1>3. ASSUME NEW l \in Loop, NEW f \in {"card", "wic"}, PAttaches(l, f)
      PROVE  mounts0' \in MountTable /\ P!Accounted(m)'
  <2>1. pc # 0 /\ mounts'[m] = mounts[m] /\ mounts0' = mounts0
    BY <1>3 DEF PAttaches
  <2>2. P!HoldsMount(m)' <=> P!HoldsMount(m)
    BY <1>3 DEF PAttaches, P!HoldsMount
  <2>3. P!HoldsMount(m) => P!Own(m)' = P!Own(m)
    BY <1>3 DEF PAttaches, P!HoldsMount, P!Own
  <2> QED
    BY <1>a, <2>1, <2>2, <2>3, Frame
<1>4. ASSUME NEW d \in PDir, PMounts(d)
      PROVE  mounts0' \in MountTable /\ P!Accounted(m)'
  <2>1. /\ pc # 0 /\ mounts0' = mounts0 /\ P!Own(d) \in Loop /\ Mount(P!Own(d), d)
        /\ d \in Dir /\ P!Own(m)' = P!Own(m)
    BY <1>4 DEF PMounts, PHoldsAsBefore, P!Own, PDir
  <2>2. CASE m = d
    <3>1. mounts'[m] = Append(mounts[m], P!Own(m))
      BY <1>a, <2>1, <2>2, MountsOn
    <3>2. ~P!HoldsMount(m) /\ P!HoldsMount(m)'
      BY <1>4, <2>2 DEF PMounts
    <3>3. mounts[m] = mounts0[m]
      BY <1>a, <2>1, <3>2, Zenon DEF P!Accounted
    <3> QED
      BY <1>a, <2>1, <3>1, <3>2, <3>3, Zenon DEF P!Accounted
  <2>3. CASE m # d
    <3>1. mounts'[m] = mounts[m]
      BY <1>a, <2>1, <2>3, MountsOn
    <3>2. P!HoldsMount(m)' <=> P!HoldsMount(m)
      BY <1>4, <1>a, <2>3 DEF PMounts
    <3> QED
      BY <1>a, <2>1, <3>1, <3>2, Frame
  <2> QED
    BY <2>2, <2>3
<1>5. ASSUME NEW d \in PDir, PUmounts(d)
      PROVE  mounts0' \in MountTable /\ P!Accounted(m)'
  <2>1. /\ pc # 0 /\ mounts0' = mounts0 /\ P!Own(d) \in Loop /\ Umount(d)
        /\ d \in Dir /\ P!Own(m)' = P!Own(m)
    BY <1>5 DEF PUmounts, PHoldsAsBefore, P!Own, PDir
  <2>2. CASE m = d
    <3>1. mounts'[m] = SubSeq(mounts[m], 1, Len(mounts[m]) - 1)
      BY <1>a, <2>1, <2>2, UmountsFrom
    <3>2. P!HoldsMount(m) /\ ~P!HoldsMount(m)'
      BY <1>5, <2>2 DEF PUmounts
    <3>3. mounts[m] = Append(mounts0[m], P!Own(m))
      BY <1>a, <2>1, <3>2, Zenon DEF P!Accounted
    <3>4. mounts0[m] \in Seq(Loop)
      BY <1>a, <2>1 DEF MountTable
    <3>5. mounts'[m] = mounts0[m]
      BY <2>1, <2>2, <3>1, <3>3, <3>4, UmountUndoesMount, Zenon
    <3> QED
      BY <1>a, <2>1, <3>2, <3>5, Zenon DEF P!Accounted
  <2>3. CASE m # d
    <3>1. mounts'[m] = mounts[m]
      BY <1>a, <2>1, <2>3, UmountsFrom
    <3>2. P!HoldsMount(m)' <=> P!HoldsMount(m)
      BY <1>5, <1>a, <2>3 DEF PUmounts
    <3> QED
      BY <1>a, <2>1, <3>1, <3>2, Frame
  <2> QED
    BY <2>2, <2>3
<1>6. CASE PDetaches
  <2>1. pc # 0 /\ mounts'[m] = mounts[m] /\ mounts0' = mounts0
    BY <1>6 DEF PDetaches
  <2>2. P!HoldsMount(m)' <=> P!HoldsMount(m)
    BY <1>6 DEF PDetaches, P!HoldsMount
  <2>3. P!Own(m)' = P!Own(m)
    BY <1>6 DEF PDetaches, P!Own
  <2> QED
    BY <1>a, <2>1, <2>2, <2>3, Frame
<1>7. CASE PEndsEarly
  BY <1>7 DEF PEndsEarly
<1> QED
  BY <1>1, <1>2, <1>3, <1>4, <1>5, <1>6, <1>7 DEF PMoves, PDir

(* ... and of run_Qemu-raspian.sh, on its own *)
LEMMA RaspianMounts ==
  ASSUME Kernel, MInv, RMoves, rpc' # 0
  PROVE  rmounts0' \in MountTable /\ RAccounted'
<1> DEFINE d == "raspios/boot"
<1>a. /\ mounts \in MountTable /\ d \in Dir
      /\ rpc # 0 => rmounts0 \in MountTable /\ RAccounted
  BY DEF Kernel, MInv, Dir
<1> USE DEF RAccounted, HoldsBoot, RHoldsAsBefore, host
<1>1. CASE RQuiet
  BY <1>1, <1>a DEF RQuiet
<1>2. CASE RStarts
  BY <1>2, <1>a DEF RStarts
<1>3. CASE \E l \in Loop : RAttaches(l)
  BY <1>3, <1>a DEF RAttaches
<1>4. CASE RMounts
  BY <1>4, <1>a, MountsOn DEF RMounts
<1>5. CASE RUmounts
  <2>1. mounts'[d] = SubSeq(mounts[d], 1, Len(mounts[d]) - 1)
    BY <1>5, <1>a, UmountsFrom DEF RUmounts
  <2>2. mounts[d] = Append(rmounts0[d], raspiosImage) /\ rmounts0[d] \in Seq(Loop)
    BY <1>5, <1>a DEF RUmounts, MountTable
  <2>3. mounts'[d] = rmounts0[d]
    BY <1>5, <2>1, <2>2, UmountUndoesMount, Zenon DEF RUmounts
  <2> QED
    BY <1>5, <1>a, <2>3 DEF RUmounts
<1>6. CASE RDetaches
  BY <1>6, <1>a DEF RDetaches
<1>7. CASE REnds \/ REndsEarly
  BY <1>7 DEF REnds, REndsEarly
<1> QED
  BY <1>1, <1>2, <1>3, <1>4, <1>5, <1>6, <1>7 DEF RMoves

(* neither script touches the other's directories *)
LEMMA OthersMounts ==
  ASSUME Kernel
  PROVE  /\ PMoves => mounts'["raspios/boot"] = mounts["raspios/boot"]
         /\ RMoves => \A m \in PDir : mounts'[m] = mounts[m]
<1>1. ASSUME PMoves PROVE mounts'["raspios/boot"] = mounts["raspios/boot"]
  <2>1. ASSUME NEW m \in PDir, PMounts(m) \/ PUmounts(m)
        PROVE  mounts'["raspios/boot"] = mounts["raspios/boot"]
    BY <2>1, MountsOn, UmountsFrom DEF Kernel, PMounts, PUmounts, PDir, Dir
  <2> QED
    BY <1>1, <2>1 DEF PMoves, PQuiet, PStarts, PAttaches, PDetaches, PEndsEarly,
      PDir, host
<1>2. ASSUME RMoves, NEW m \in PDir PROVE mounts'[m] = mounts[m]
  <2>1. CASE RMounts \/ RUmounts
    BY <2>1, MountsOn, UmountsFrom DEF Kernel, RMounts, RUmounts, PDir, Dir
  <2> QED
    BY <1>2, <2>1 DEF RMoves, RQuiet, RStarts, RAttaches, RDetaches, REnds,
      REndsEarly, host
<1> QED
  BY <1>1, <1>2

(* a step of one script is none of the other's accounts *)
LEMMA OtherAccounts ==
  ASSUME Kernel, MInv
  PROVE  /\ PMoves /\ UNCHANGED raspian /\ rpc' # 0
              => rmounts0' \in MountTable /\ RAccounted'
         /\ RMoves /\ UNCHANGED prepare /\ pc' # 0
              => mounts0' \in MountTable /\ \A m \in PDir : P!Accounted(m)'
<1>1. ASSUME PMoves, UNCHANGED raspian, rpc' # 0
      PROVE  rmounts0' \in MountTable /\ RAccounted'
  BY <1>1, OthersMounts DEF MInv, RAccounted, HoldsBoot, raspian
<1>2. ASSUME RMoves, UNCHANGED prepare, pc' # 0, NEW m \in PDir
      PROVE  mounts0' \in MountTable /\ P!Accounted(m)'
  <2>1. /\ mounts'[m] = mounts[m] /\ m \in Dir
        /\ mounts0' = mounts0 /\ mounts0 \in MountTable /\ P!Accounted(m)
    BY <1>2, OthersMounts DEF MInv, prepare, PDir
  <2>2. (P!HoldsMount(m)' <=> P!HoldsMount(m)) /\ P!Own(m)' = P!Own(m)
    BY <1>2 DEF prepare, P!HoldsMount, P!Own
  <2> QED
    BY <2>1, <2>2, Frame
<1> QED
  BY <1>1, <1>2 DEF PDir, Dir

LEMMA MInvNext == IInv /\ Kernel /\ MInv /\ [Next]_vars => MInv'
<1> SUFFICES ASSUME IInv, Kernel, MInv, [Next]_vars PROVE MInv'
  OBVIOUS
<1>1. CASE Prepare
  BY <1>1, PrepareMoves, PrepareMounts, OtherAccounts DEF Prepare, MInv
<1>2. CASE Raspian
  BY <1>2, RaspianMoves, RaspianMounts, OtherAccounts DEF Raspian, MInv
<1>3. ASSUME UNCHANGED <<prepare, raspian>>,
             pc # 0 => \A m \in PDir : mounts'[m] = mounts[m],
             rpc # 0 => mounts'["raspios/boot"] = mounts["raspios/boot"]
      PROVE  MInv'
  <2>1. ASSUME rpc # 0 PROVE rmounts0' \in MountTable /\ RAccounted'
    BY <1>3, <2>1 DEF MInv, RAccounted, HoldsBoot, raspian
  <2>2. ASSUME pc # 0, NEW m \in PDir PROVE mounts0' \in MountTable /\ P!Accounted(m)'
    <3>1. /\ mounts'[m] = mounts[m] /\ m \in Dir
          /\ mounts0' = mounts0 /\ mounts0 \in MountTable /\ P!Accounted(m)
      BY <1>3, <2>2 DEF MInv, prepare, PDir
    <3>2. (P!HoldsMount(m)' <=> P!HoldsMount(m)) /\ P!Own(m)' = P!Own(m)
      BY <1>3 DEF prepare, P!HoldsMount, P!Own
    <3> QED
      BY <3>1, <3>2, Frame
  <2>3. pc' = pc /\ rpc' = rpc
    BY <1>3 DEF prepare, raspian
  <2> QED
    BY <2>1, <2>2, <2>3 DEF MInv, PDir, Dir
<1>4. CASE Operator
  <2>1. ASSUME NEW d \in Dir, OperatorUmount(d) PROVE MInv'
    BY <1>3, <2>1, UmountsFrom DEF OperatorUmount, Operate, Kernel, PDir, Dir
  <2>2. CASE Sweep \/ (\E l \in Loop : OperatorDetach(l))
    BY <1>3, <2>2 DEF Sweep, OperatorDetach, Operate
  <2>3. CASE Reboot
    BY <1>3, <2>3 DEF Reboot, Operate, Idle
  <2> QED
    BY <1>4, <2>1, <2>2, <2>3 DEF Operator
<1>5. CASE UNCHANGED vars
  BY <1>3, <1>5 DEF vars, host
<1> QED
  BY <1>1, <1>2, <1>4, <1>5 DEF Next

(* before the scripts are started *)
LEMMA SessionInit == Init => IInv /\ Kernel /\ MInv
<1> SUFFICES ASSUME Init PROVE Kernel /\ MInv
  BY IInvInit
<1>1. loop = AllFree /\ mounts = NoMounts /\ pc = 0 /\ rpc = 0
  BY DEF Init, P!Init, R!Init, P!AllFree, AllFree, P!NoMounts, NoMounts, P!Dir, Dir
<1> QED
  BY <1>1, EmptyTables, SoundEmpty DEF Kernel, MInv

LEMMA SessionHolds == Spec => [](IInv /\ Kernel /\ MInv)
  BY SessionInit, IInvNext, KernelNext, MInvNext, PTL DEF Spec

(* Whatever losetup -D, the operator and the other script do: what a script *)
(* unmounts is what it has mounted.                                         *)
THEOREM KeepsMounts == Spec => []MountsKept
<1>1. MInv => MountsKept
  BY DEF MInv, MountsKept, RAccounted, HoldsBoot, PDir
<1> QED
  BY <1>1, SessionHolds, PTL

-----------------------------------------------------------------------------
(* While no run has ended early, there is nothing on the host but what the  *)
(* scripts hold: no mount but theirs, and no device that is not free but    *)
(* one that a script in progress will detach. After losetup -D the name may *)
(* stand for another file, or for one both want to detach; it is still a    *)
(* name of one of them.                                                     *)
Held(l) == \/ P!HoldsCard /\ l = loopdevice
           \/ P!HoldsWic /\ l = yoctoImage
           \/ HoldsImage /\ l = raspiosImage

OnlyMounts ==
  /\ \A m \in PDir : mounts[m] = IF P!HoldsMount(m) THEN <<P!Own(m)>> ELSE <<>>
  /\ mounts["raspios/boot"] = IF HoldsBoot THEN <<raspiosImage>> ELSE <<>>

OnlyLeases == \A l \in Loop : loop[l] # "free" => Held(l)

Clean == ~early => OnlyMounts /\ OnlyLeases

(* a mount is of a device that is held for longer than it is mounted *)
LEMMA InUseIsHeld ==
  ASSUME IInv, OnlyMounts, NEW l \in Loop, InUse(l)
  PROVE  \/ 32 < pc /\ pc <= 56 /\ l = loopdevice
         \/ 44 < pc /\ pc <= 74 /\ l = yoctoImage
         \/ HoldsBoot /\ l = raspiosImage
<1>1. PICK m \in Dir : \E i \in DOMAIN mounts[m] : mounts[m][i] = l
  BY DEF InUse, Uses
<1>2. \A x : /\ (\E i \in DOMAIN <<x>> : <<x>>[i] = l) => x = l
             /\ ~ \E i \in DOMAIN <<>> : <<>>[i] = l
  OBVIOUS
<1>3. CASE m = "raspios/boot"
  <2>1. HoldsBoot /\ l = raspiosImage
    BY <1>1, <1>2, <1>3 DEF OnlyMounts
  <2> QED
    BY <2>1
<1>4. CASE m # "raspios/boot"
  <2>1. m \in PDir /\ mounts[m] = IF P!HoldsMount(m) THEN <<P!Own(m)>> ELSE <<>>
    BY <1>4 DEF OnlyMounts, PDir
  <2>2. P!HoldsMount(m) /\ l = P!Own(m)
    BY <1>1, <1>2, <2>1, Zenon
  <2> QED
    BY <2>1, <2>2 DEF IInv, P!Lines, P!HoldsMount, P!Own, PDir, Dir
<1> QED
  BY <1>3, <1>4

(* what is mounted goes the way of MountsKept, with nothing underneath *)
LEMMA OneMount ==
  ASSUME NEW l \in Loop
  PROVE  /\ Append(<<>>, l) = <<l>>
         /\ SubSeq(<<l>>, 1, Len(<<l>>) - 1) = <<>>
  OBVIOUS

LEMMA PrepareOnlyMounts ==
  ASSUME IInv, Kernel, OnlyMounts, PMoves, UNCHANGED raspian, ~early'
  PROVE  OnlyMounts'
<1>a. mounts'["raspios/boot"] = mounts["raspios/boot"]
  BY OthersMounts
<1> SUFFICES ASSUME NEW m \in PDir
             PROVE  mounts'[m] = IF P!HoldsMount(m)' THEN <<P!Own(m)'>> ELSE <<>>
  BY <1>a DEF OnlyMounts, HoldsBoot, raspian, PDir, Dir
<1>b. /\ mounts \in MountTable /\ m \in Dir /\ pc \in P!Lines
      /\ mounts[m] = IF P!HoldsMount(m) THEN <<P!Own(m)>> ELSE <<>>
  BY DEF Kernel, OnlyMounts, PDir, IInv
<1>c. ASSUME mounts'[m] = mounts[m], P!HoldsMount(m)' <=> P!HoldsMount(m),
             P!HoldsMount(m) => P!Own(m)' = P!Own(m)
      PROVE  mounts'[m] = IF P!HoldsMount(m)' THEN <<P!Own(m)'>> ELSE <<>>
  BY <1>b, <1>c, Zenon
<1>1. CASE PQuiet \/ PStarts \/ PDetaches \/ PEndsEarly
           \/ (\E l \in Loop, f \in {"card", "wic"} : PAttaches(l, f))
  <2>1. mounts'[m] = mounts[m]
    BY <1>1 DEF PQuiet, PStarts, PDetaches, PEndsEarly, PAttaches, host
  <2>2. ~PEndsEarly
    BY DEF PEndsEarly
  <2>3. P!HoldsMount(m)' <=> P!HoldsMount(m)
    BY <1>1, <1>b, <2>2 DEF PQuiet, PStarts, PDetaches, PAttaches, P!HoldsMount
  <2>4. P!HoldsMount(m) => P!Own(m)' = P!Own(m)
    BY <1>1, <2>2 DEF PQuiet, PHoldsAsBefore, PStarts, PDetaches, PAttaches,
      P!HoldsMount, P!Own
  <2> QED
    BY <1>c, <2>1, <2>3, <2>4
<1>2. ASSUME NEW d \in PDir, PMounts(d) \/ PUmounts(d)
      PROVE  mounts'[m] = IF P!HoldsMount(m)' THEN <<P!Own(m)'>> ELSE <<>>
  <2>1. d \in Dir /\ P!Own(m)' = P!Own(m) /\ P!Own(d) \in Loop
    BY <1>2 DEF PMounts, PUmounts, PHoldsAsBefore, P!Own, PDir
  <2>2. CASE m # d
    <3>1. mounts'[m] = mounts[m] /\ (P!HoldsMount(m)' <=> P!HoldsMount(m))
      BY <1>2, <1>b, <2>1, <2>2, MountsOn, UmountsFrom DEF PMounts, PUmounts
    <3> QED
      BY <1>c, <2>1, <3>1
  <2>3. CASE m = d /\ PMounts(d)
    <3>1. ~P!HoldsMount(m) /\ P!HoldsMount(m)'
      BY <2>3 DEF PMounts
    <3>2. mounts'[m] = Append(mounts[m], P!Own(m))
      BY <1>b, <2>1, <2>3, MountsOn DEF PMounts
    <3> QED
      BY <1>b, <2>1, <2>3, <3>1, <3>2, OneMount, Zenon
  <2>4. CASE m = d /\ PUmounts(d)
    <3>1. P!HoldsMount(m) /\ ~P!HoldsMount(m)'
      BY <2>4 DEF PUmounts
    <3>2. mounts'[m] = SubSeq(mounts[m], 1, Len(mounts[m]) - 1)
      BY <1>b, <2>1, <2>4, UmountsFrom DEF PUmounts
    <3> QED
      BY <1>b, <2>1, <2>4, <3>1, <3>2, OneMount, Zenon
  <2> QED
    BY <1>2, <2>2, <2>3, <2>4
<1> QED
  BY <1>1, <1>2 DEF PMoves, PDir

LEMMA RaspianOnlyMounts ==
  ASSUME IInv, Kernel, OnlyMounts, RMoves, UNCHANGED prepare, ~early'
  PROVE  OnlyMounts'
<1>a. /\ \A m \in PDir : mounts'[m] = mounts[m]
      /\ \A m \in PDir : (P!HoldsMount(m)' <=> P!HoldsMount(m)) /\ P!Own(m)' = P!Own(m)
  BY OthersMounts DEF prepare, P!HoldsMount, P!Own
<1>b. \A m \in PDir : mounts'[m] = IF P!HoldsMount(m)' THEN <<P!Own(m)'>> ELSE <<>>
  BY <1>a, Zenon DEF OnlyMounts
<1> DEFINE d == "raspios/boot"
<1>c. /\ mounts \in MountTable /\ d \in Dir
      /\ mounts[d] = IF HoldsBoot THEN <<raspiosImage>> ELSE <<>>
  BY DEF Kernel, OnlyMounts, Dir
<1>1. CASE RQuiet \/ RStarts \/ RDetaches \/ REnds \/ REndsEarly
           \/ (\E l \in Loop : RAttaches(l))
  BY <1>1, <1>b, <1>c DEF RQuiet, RHoldsAsBefore, RStarts, RDetaches, REnds,
    REndsEarly, RAttaches, HoldsBoot, OnlyMounts, host
<1>2. CASE RMounts
  <2>1. mounts'[d] = Append(mounts[d], raspiosImage) /\ mounts[d] = <<>>
    BY <1>2, <1>c, MountsOn DEF RMounts, HoldsBoot
  <2>2. mounts'[d] = <<raspiosImage>> /\ HoldsBoot' /\ raspiosImage' = raspiosImage
    BY <1>2, <2>1, OneMount DEF RMounts, RHoldsAsBefore, HoldsBoot
  <2> QED
    BY <1>b, <2>2 DEF OnlyMounts
<1>3. CASE RUmounts
  <2>1. /\ mounts'[d] = SubSeq(mounts[d], 1, Len(mounts[d]) - 1)
        /\ mounts[d] = <<raspiosImage>> /\ raspiosImage \in Loop
    BY <1>3, <1>c, UmountsFrom DEF RUmounts, HoldsBoot
  <2>2. mounts'[d] = <<>>
    BY <2>1, OneMount, Zenon
  <2>3. ~HoldsBoot'
    BY <1>3 DEF RUmounts, HoldsBoot
  <2> QED
    BY <1>b, <2>2, <2>3 DEF OnlyMounts
<1> QED
  BY <1>1, <1>2, <1>3 DEF RMoves

(* devices come and go with the names that hold them *)
LEMMA PrepareOnlyLeases ==
  ASSUME IInv, Kernel, OnlyMounts, OnlyLeases, PMoves, UNCHANGED raspian, ~early'
  PROVE  OnlyLeases'
<1> SUFFICES ASSUME NEW l \in Loop, loop'[l] # "free" PROVE Held(l)'
  BY DEF OnlyLeases
<1>a. /\ loop \in LoopTable /\ pc \in P!Lines
      /\ (HoldsImage' <=> HoldsImage) /\ raspiosImage' = raspiosImage
      /\ loop[l] # "free" => Held(l)
  BY DEF Kernel, IInv, HoldsImage, raspian, OnlyLeases
<1> USE DEF Held
<1>1. CASE PQuiet \/ PStarts \/ (\E m \in PDir : PMounts(m))
  <2>1. loop' = loop
    BY <1>1 DEF PQuiet, PStarts, PMounts, host
  <2>2. /\ P!HoldsCard => P!HoldsCard' /\ loopdevice' = loopdevice
        /\ P!HoldsWic => P!HoldsWic' /\ yoctoImage' = yoctoImage
    BY <1>1 DEF PQuiet, PHoldsAsBefore, PStarts, PMounts, P!HoldsCard, P!HoldsWic
  <2> QED
    BY <1>a, <2>1, <2>2
<1>2. ASSUME NEW m \in PDir, PUmounts(m) PROVE Held(l)'
  <2>1. loop[l] # "free"
    BY <1>2, <1>a, UmountFrees DEF PUmounts, PDir
  <2> QED
    BY <1>2, <1>a, <2>1 DEF PUmounts, PHoldsAsBefore
<1>3. ASSUME NEW k \in Loop, NEW f \in {"card", "wic"}, PAttaches(k, f) PROVE Held(l)'
  <2>1. CASE l = k
    BY <1>3, <2>1 DEF PAttaches, P!HoldsCard, P!HoldsWic
  <2>2. CASE l # k
    <3>1. loop[l] # "free"
      BY <1>3, <1>a, <2>2 DEF PAttaches, Attach, LoopTable
    <3> QED
      BY <1>3, <1>a, <3>1 DEF PAttaches, P!HoldsCard, P!HoldsWic
  <2> QED
    BY <2>1, <2>2
<1>4. CASE PDetaches
  <2> DEFINE k == IF pc = 75 THEN loopdevice ELSE yoctoImage
  <2>1. pc \in {75, 76} /\ k \in Loop /\ Detach(k) /\ loop[l] # "free"
    BY <1>4, <1>a DEF PDetaches, Detach, LoopTable
  <2>2. ASSUME l = k PROVE HoldsImage /\ l = raspiosImage
    <3>1. InUse(l)
      BY <1>a, <2>1, <2>2 DEF Detach, Gone, LoopTable
    <3>2. HoldsBoot => HoldsImage
      BY DEF IInv, R!Lines, HoldsBoot, HoldsImage
    <3> QED
      BY <2>1, <3>1, <3>2, InUseIsHeld
  <2> QED
    BY <1>4, <1>a, <2>1, <2>2 DEF PDetaches, P!HoldsCard, P!HoldsWic
<1>5. ~PEndsEarly
  BY DEF PEndsEarly
<1> QED
  BY <1>1, <1>2, <1>3, <1>4, <1>5 DEF PMoves, PDir

LEMMA RaspianOnlyLeases ==
  ASSUME IInv, Kernel, OnlyMounts, OnlyLeases, RMoves, UNCHANGED prepare, ~early'
  PROVE  OnlyLeases'
<1> SUFFICES ASSUME NEW l \in Loop, loop'[l] # "free" PROVE Held(l)'
  BY DEF OnlyLeases
<1>a. /\ loop \in LoopTable /\ rpc \in R!Lines
      /\ (P!HoldsCard' <=> P!HoldsCard) /\ loopdevice' = loopdevice
      /\ (P!HoldsWic' <=> P!HoldsWic) /\ yoctoImage' = yoctoImage
      /\ loop[l] # "free" => Held(l)
  BY DEF Kernel, IInv, P!HoldsCard, P!HoldsWic, prepare, OnlyLeases
<1> USE DEF Held
<1>1. CASE RQuiet \/ RStarts \/ RMounts \/ REnds
  <2>1. loop' = loop /\ (HoldsImage => HoldsImage' /\ raspiosImage' = raspiosImage)
    BY <1>1 DEF RQuiet, RHoldsAsBefore, RStarts, RMounts, REnds, HoldsImage, host
  <2> QED
    BY <1>a, <2>1
<1>2. CASE RUmounts
  <2>1. loop[l] # "free"
    BY <1>2, <1>a, UmountFrees DEF RUmounts, Dir
  <2> QED
    BY <1>2, <1>a, <2>1 DEF RUmounts, RHoldsAsBefore
<1>3. ASSUME NEW k \in Loop, RAttaches(k) PROVE Held(l)'
  BY <1>3, <1>a DEF RAttaches, Attach, LoopTable, HoldsImage
<1>4. CASE RDetaches
  <2>1. rpc = 27 /\ raspiosImage \in Loop /\ Detach(raspiosImage) /\ loop[l] # "free"
    BY <1>4, <1>a DEF RDetaches, Detach, LoopTable
  <2>2. ASSUME l = raspiosImage
        PROVE  \/ P!HoldsCard /\ l = loopdevice
               \/ P!HoldsWic /\ l = yoctoImage
    <3>1. InUse(l) /\ ~HoldsBoot
      BY <1>a, <2>1, <2>2 DEF Detach, Gone, LoopTable, HoldsBoot
    <3>2. pc \in P!Lines
      BY DEF IInv
    <3> QED
      BY <3>1, <3>2, InUseIsHeld DEF P!HoldsCard, P!HoldsWic, P!Lines
  <2> QED
    BY <1>4, <1>a, <2>1, <2>2
<1>5. ~REndsEarly
  BY DEF REndsEarly
<1> QED
  BY <1>1, <1>2, <1>3, <1>4, <1>5 DEF RMoves

(* the operator only takes away, and never what is mounted *)
LEMMA OperatorClean == IInv /\ Kernel /\ Clean /\ Operator => Clean'
<1> SUFFICES ASSUME IInv, Kernel, Clean, Operator, ~early'
             PROVE  (OnlyMounts /\ OnlyLeases)'
  BY DEF Clean
<1>a. /\ loop \in LoopTable /\ mounts \in MountTable
      /\ UNCHANGED <<prepare, raspian>>
  BY DEF Kernel, Operator, OperatorUmount, OperatorDetach, Sweep, Reboot, Operate
<1>b. /\ \A m \in Dir : P!HoldsMount(m)' <=> P!HoldsMount(m)
      /\ \A m \in Dir : P!Own(m)' = P!Own(m)
      /\ \A l \in Loop : Held(l)' <=> Held(l)
      /\ (HoldsBoot' <=> HoldsBoot) /\ raspiosImage' = raspiosImage
  BY <1>a DEF prepare, raspian, P!HoldsMount, P!Own, Held, P!HoldsCard, P!HoldsWic,
    HoldsImage, HoldsBoot
<1>1. ASSUME ~early, mounts' = mounts, \A l \in Loop : loop[l] = "free" => loop'[l] = "free"
      PROVE  (OnlyMounts /\ OnlyLeases)'
  <2>1. OnlyMounts /\ OnlyLeases
    BY <1>1 DEF Clean
  <2>2. \A m \in PDir : mounts'[m] = IF P!HoldsMount(m)' THEN <<P!Own(m)'>> ELSE <<>>
    BY <1>1, <1>b, <2>1, Zenon DEF OnlyMounts, PDir
  <2> QED
    BY <1>1, <1>b, <2>1, <2>2 DEF OnlyMounts, OnlyLeases
<1>2. CASE Sweep \/ (\E l \in Loop : OperatorDetach(l))
  BY <1>1, <1>2, <1>a DEF Sweep, OperatorDetach, DetachAll, Detach, LoopTable
<1>3. ASSUME NEW m \in Dir, OperatorUmount(m) PROVE FALSE
  <2>1. mounts[m] # <<>> /\ ~early
    BY <1>3, <1>a, UmountsFrom DEF OperatorUmount
  <2>2. OnlyMounts
    BY <2>1 DEF Clean
  <2>3. CASE m = "raspios/boot"
    BY <1>3, <2>1, <2>2, <2>3 DEF OperatorUmount, OnlyMounts, HoldsBoot
  <2>4. CASE m # "raspios/boot"
    <3>1. ~P!HoldsMount(m)
      BY <1>3, <2>4 DEF OperatorUmount, P!HoldsMount
    <3> QED
      BY <2>1, <2>2, <2>4, <3>1, Zenon DEF OnlyMounts, PDir
  <2> QED
    BY <2>3, <2>4
<1>4. CASE Reboot
  <2>1. /\ \A m \in Dir : mounts'[m] = <<>>
        /\ \A l \in Loop : loop'[l] = "free"
        /\ ~HoldsBoot /\ \A m \in Dir : ~P!HoldsMount(m)
    BY <1>4 DEF Reboot, Idle, NoMounts, AllFree, HoldsBoot, P!HoldsMount
  <2> QED
    BY <1>b, <2>1 DEF OnlyMounts, OnlyLeases, PDir, Dir
<1> QED
  BY <1>2, <1>3, <1>4 DEF Operator

LEMMA CleanNext == IInv /\ Kernel /\ Clean /\ [Next]_vars => Clean'
<1> SUFFICES ASSUME IInv, Kernel, Clean, [Next]_vars PROVE Clean'
  OBVIOUS
<1>1. CASE Prepare
  <2>1. PMoves /\ UNCHANGED raspian
    BY <1>1, PrepareMoves DEF Prepare
  <2>2. ~early' => ~early
    BY <2>1 DEF PMoves, PQuiet, PHoldsAsBefore, PStarts, PAttaches, PMounts, PUmounts,
      PDetaches, PEndsEarly
  <2> QED
    BY <2>1, <2>2, PrepareOnlyMounts, PrepareOnlyLeases DEF Clean
<1>2. CASE Raspian
  <2>1. RMoves /\ UNCHANGED prepare
    BY <1>2, RaspianMoves DEF Raspian
  <2>2. ~early' => ~early
    BY <2>1 DEF RMoves, RQuiet, RHoldsAsBefore, RStarts, RAttaches, RMounts, RUmounts,
      RDetaches, REnds, REndsEarly
  <2> QED
    BY <2>1, <2>2, RaspianOnlyMounts, RaspianOnlyLeases DEF Clean
<1>3. CASE Operator
  BY <1>3, OperatorClean
<1>4. CASE UNCHANGED vars
  <2>1. /\ UNCHANGED <<loop, mounts, early, rpc, raspiosImage>>
        /\ \A m \in PDir : (P!HoldsMount(m)' <=> P!HoldsMount(m)) /\ P!Own(m)' = P!Own(m)
        /\ \A l \in Loop : Held(l)' <=> Held(l)
    BY <1>4 DEF vars, host, prepare, raspian, P!HoldsMount, P!Own, Held, P!HoldsCard,
      P!HoldsWic, HoldsImage
  <2>2. OnlyMounts => \A m \in PDir : mounts'[m] = IF P!HoldsMount(m)' THEN <<P!Own(m)'>> ELSE <<>>
    BY <2>1, Zenon DEF OnlyMounts
  <2> QED
    BY <2>1, <2>2 DEF Clean, OnlyMounts, OnlyLeases, HoldsBoot
<1> QED
  BY <1>1, <1>2, <1>3, <1>4 DEF Next

(* Runs that complete, one after the other or next to each other, with      *)
(* losetup -D at any time, leave nothing attached and nothing mounted.      *)
THEOREM LeavesNothing == Spec => []SessionNeutral
<1>1. Init => Clean
  BY DEF Init, P!Init, R!Init, P!AllFree, P!NoMounts, P!Dir, Dir, PDir, Clean,
    OnlyMounts, OnlyLeases, P!HoldsMount, HoldsBoot
<1>2. IInv /\ Kernel /\ Clean => SessionNeutral
  <2> SUFFICES ASSUME IInv, Kernel, Clean, Idle, ~early
               PROVE  loop = AllFree /\ mounts = NoMounts
    BY DEF SessionNeutral
  <2>1. \A m \in Dir : mounts[m] = <<>>
    BY DEF Clean, OnlyMounts, Idle, PDir, P!HoldsMount, HoldsBoot
  <2>2. ASSUME NEW l \in Loop PROVE loop[l] = "free"
    <3>1. ~Held(l)
      BY DEF Idle, Held, P!HoldsCard, P!HoldsWic, HoldsImage
    <3> QED
      BY <3>1 DEF Clean, OnlyLeases
  <2> QED
    BY <2>1, <2>2 DEF Kernel, LoopTable, MountTable, AllFree, NoMounts
<1> QED
  BY <1>1, <1>2, SessionHolds, CleanNext, PTL DEF Spec
=============================================================================
