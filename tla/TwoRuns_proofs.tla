-------------------------- MODULE TwoRuns_proofs --------------------------
(***************************************************************************)
(* Two runs of prepare_Qemu.sh in one directory lose no mount and no       *)
(* device, and together give the host back, for any number of devices and  *)
(* builds.                                                                 *)
(***************************************************************************)
EXTENDS TwoRuns, Host_proofs, TLAPS

(* each directory has as many mounts as there are runs that hold one        *)
Counted == \A m \in Dir : Len(mounts[m]) = Runs(m)

(* what a run calls its devices are devices of its files *)
Leases ==
  /\ A!HoldsCard => aloop \in Loop /\ loop[aloop] = "card"
  /\ B!HoldsCard => bloop \in Loop /\ loop[bloop] = "card"
  /\ A!HoldsWic => ayocto \in Loop /\ loop[ayocto] = "wic"
  /\ B!HoldsWic => byocto \in Loop /\ loop[byocto] = "wic"

(* ... no two the same; card and image differ by what is attached           *)
Apart ==
  /\ A!HoldsCard /\ B!HoldsCard => aloop # bloop
  /\ A!HoldsWic /\ B!HoldsWic => ayocto # byocto

(* ... and there are no others, but those on their way out                  *)
Owned ==
  \A l \in Loop :
    /\ loop[l] = "card" => (A!HoldsCard /\ l = aloop) \/ (B!HoldsCard /\ l = bloop)
    /\ loop[l] = "wic" => (A!HoldsWic /\ l = ayocto) \/ (B!HoldsWic /\ l = byocto)
    /\ loop[l] # "raspios"

Core ==
  /\ loop \in LoopTable /\ mounts \in MountTable
  /\ apc \in A!Lines /\ bpc \in B!Lines
  /\ Sound(loop, mounts)
  /\ Counted /\ Leases /\ Apart /\ Owned

(* an early end breaks Core, a restart of the host restores it              *)
IInv == ~early => Core

-----------------------------------------------------------------------------
(* a mount is one more, an umount one less *)
LEMMA MountCounts ==
  ASSUME mounts \in MountTable, NEW l \in Loop, NEW d \in Dir, Mount(l, d)
  PROVE  /\ Len(mounts'[d]) = Len(mounts[d]) + 1
         /\ \A m \in Dir \ {d} : mounts'[m] = mounts[m]
<1>1. mounts[d] \in Seq(Loop) /\ mounts'[d] = Append(mounts[d], l)
  BY DEF Mount, MountTable
<1>2. Len(Append(mounts[d], l)) = Len(mounts[d]) + 1
  BY <1>1
<1>3. \A m \in Dir \ {d} : mounts'[m] = mounts[m]
  BY DEF Mount, MountTable
<1> QED
  BY <1>1, <1>2, <1>3

LEMMA UmountCounts ==
  ASSUME mounts \in MountTable, NEW d \in Dir, Umount(d)
  PROVE  /\ Len(mounts'[d]) = Len(mounts[d]) - 1
         /\ \A m \in Dir \ {d} : mounts'[m] = mounts[m]
<1>1. /\ mounts[d] \in Seq(Loop) /\ mounts[d] # <<>>
      /\ mounts'[d] = SubSeq(mounts[d], 1, Len(mounts[d]) - 1)
  BY DEF Umount, MountTable
<1>2. Len(SubSeq(mounts[d], 1, Len(mounts[d]) - 1)) = Len(mounts[d]) - 1
  BY <1>1
<1>3. \A m \in Dir \ {d} : mounts'[m] = mounts[m]
  BY DEF Umount, MountTable
<1> QED
  BY <1>1, <1>2, <1>3

(* what the one run does, while the other stands still *)
LEMMA OneKeeps ==
  ASSUME Core, UNCHANGED other,
         A!Progress \/ A!GuestWrites \/ (\E p \in Part : A!StaleWriteback(p))
  PROVE  Core'
<1>a. /\ loop \in LoopTable /\ mounts \in MountTable
      /\ apc \in A!Lines /\ bpc \in B!Lines
      /\ Sound(loop, mounts) /\ Counted /\ Leases /\ Apart /\ Owned
  BY DEF Core
<1>b. /\ bpc' = bpc /\ bloop' = bloop /\ byocto' = byocto
      /\ (B!HoldsCard' <=> B!HoldsCard) /\ (B!HoldsWic' <=> B!HoldsWic)
      /\ \A m \in Dir : B!HoldsMount(m)' <=> B!HoldsMount(m)
  BY DEF other, B!HoldsCard, B!HoldsWic, B!HoldsMount
<1> DEFINE SameMounts == \A m \in Dir : A!HoldsMount(m)' <=> A!HoldsMount(m)
           SameLeases == /\ A!HoldsCard' <=> A!HoldsCard
                         /\ A!HoldsWic' <=> A!HoldsWic
                         /\ aloop' = aloop /\ ayocto' = ayocto
<1>c. ASSUME mounts' = mounts, SameMounts PROVE Counted'
  BY <1>a, <1>b, <1>c DEF Counted, Runs
<1>d. ASSUME loop' = loop, SameLeases PROVE Leases' /\ Apart' /\ Owned'
  BY <1>a, <1>b, <1>d DEF Leases, Apart, Owned
<1>e. ASSUME loop' = loop, mounts' = mounts PROVE Sound(loop', mounts')
  BY <1>a, <1>e
<1> USE DEF A!Goto, A!host, A!disks, A!work, A!run, A!Lines
<1>1. ASSUME apc' \in A!Lines, UNCHANGED <<loop, mounts, aloop, ayocto>>, SameMounts,
             A!HoldsCard' <=> A!HoldsCard, A!HoldsWic' <=> A!HoldsWic
      PROVE  Core'
  BY <1>1, <1>a, <1>b, <1>c, <1>d, <1>e DEF Core
<1>2. CASE A!Start \/ A!RmMnt \/ A!ImageExists \/ A!CreateImage \/ A!Cfdisk
  BY <1>1, <1>2 DEF A!Start, A!RmMnt, A!ImageExists, A!CreateImage, A!Cfdisk,
    A!HoldsCard, A!HoldsWic, A!HoldsMount
<1>3. CASE \/ A!Mkfs(29, 30, "boot") \/ A!Mkfs(30, 32, "rootfs")
           \/ A!CopyPart(49, 50, "boot") \/ A!CopyPart(50, 55, "rootfs")
  BY <1>1, <1>3 DEF A!Mkfs, A!CopyPart, A!HoldsCard, A!HoldsWic, A!HoldsMount
<1>4. CASE A!RmYoctomnt \/ A!RmWic \/ A!Bunzip2 \/ A!ListWic
           \/ (\E d \in Deploys : A!Fetch(d))
  BY <1>1, <1>4 DEF A!RmYoctomnt, A!RmWic, A!Bunzip2, A!ListWic, A!Fetch,
    A!HoldsCard, A!HoldsWic, A!HoldsMount
<1>5. CASE A!StartQemu \/ A!QemuExits \/ A!GuestWrites
           \/ (\E p \in Part : A!StaleWriteback(p))
  BY <1>1, <1>5, <1>a DEF A!StartQemu, A!QemuExits, A!GuestWrites, A!StaleWriteback,
    A!HoldsCard, A!HoldsWic, A!HoldsMount
<1>6. ASSUME NEW l \in Loop, A!AttachCard(l) PROVE Core'
  <2>1. /\ apc = 27 /\ apc' = 29 /\ aloop' = l /\ ayocto' = ayocto /\ mounts' = mounts
        /\ loop[l] = "free" /\ loop' = [loop EXCEPT ![l] = "card"] /\ Attach(l, "card")
    BY <1>6 DEF A!AttachCard, A!Attach, Attach
  <2>2. Counted'
    BY <2>1, <1>c DEF A!HoldsMount
  <2>3. loop' \in LoopTable /\ Sound(loop', mounts')
    BY <2>1, <1>a, SoundAttach, LoopTypes
  <2>4. Leases' /\ Apart' /\ Owned'
    BY <2>1, <1>a, <1>b DEF Leases, Apart, Owned, LoopTable, A!HoldsCard, A!HoldsWic
  <2> QED
    BY <2>1, <2>2, <2>3, <2>4, <1>a, <1>b DEF Core
<1>7. ASSUME NEW l \in Loop, NEW b \in Build, A!AttachWic(l, b) PROVE Core'
  <2>1. /\ apc = 43 /\ apc' = 44 /\ ayocto' = l /\ aloop' = aloop /\ mounts' = mounts
        /\ loop[l] = "free" /\ loop' = [loop EXCEPT ![l] = "wic"] /\ Attach(l, "wic")
    BY <1>7 DEF A!AttachWic, A!Attach, Attach
  <2>2. Counted'
    BY <2>1, <1>c DEF A!HoldsMount
  <2>3. loop' \in LoopTable /\ Sound(loop', mounts')
    BY <2>1, <1>a, SoundAttach, LoopTypes
  <2>4. Leases' /\ Apart' /\ Owned'
    BY <2>1, <1>a, <1>b DEF Leases, Apart, Owned, LoopTable, A!HoldsCard, A!HoldsWic
  <2> QED
    BY <2>1, <2>2, <2>3, <2>4, <1>a, <1>b DEF Core
<1>8. ASSUME NEW from, NEW to \in A!Lines, NEW l \in Loop, NEW d \in Dir,
             A!MountPart(from, to, l, d),
             apc' = to => A!HoldsMount(d)' /\ ~A!HoldsMount(d),
             \A m \in Dir \ {d} : A!HoldsMount(m)' <=> A!HoldsMount(m),
             A!HoldsCard' <=> A!HoldsCard, A!HoldsWic' <=> A!HoldsWic
      PROVE  Core'
  <2>1. /\ apc' = to /\ loop' = loop /\ aloop' = aloop /\ ayocto' = ayocto /\ Mount(l, d)
    BY <1>8 DEF A!MountPart, A!Mount, Mount
  <2>2. Counted'
    BY <2>1, <1>8, <1>a, <1>b, MountCounts DEF Counted, Runs
  <2>3. mounts' \in MountTable /\ Sound(loop', mounts')
    BY <2>1, <1>a, SoundMount, MountTypes
  <2> QED
    BY <2>1, <2>2, <2>3, <1>8, <1>a, <1>b, <1>d DEF Core
<1>9. CASE \/ A!MountPart(32, 33, aloop, "mnt/boot")
           \/ A!MountPart(33, 37, aloop, "mnt/rootfs")
           \/ A!MountPart(44, 45, ayocto, "yoctomnt/boot")
           \/ A!MountPart(45, 49, ayocto, "yoctomnt/rootfs")
  <2>1. CASE A!MountPart(32, 33, aloop, "mnt/boot")
    BY <2>1, <1>8, <1>a DEF A!MountPart, Leases, Dir,
      A!HoldsCard, A!HoldsWic, A!HoldsMount
  <2>2. CASE A!MountPart(33, 37, aloop, "mnt/rootfs")
    BY <2>2, <1>8, <1>a DEF A!MountPart, Leases, Dir,
      A!HoldsCard, A!HoldsWic, A!HoldsMount
  <2>3. CASE A!MountPart(44, 45, ayocto, "yoctomnt/boot")
    BY <2>3, <1>8, <1>a DEF A!MountPart, Leases, Dir,
      A!HoldsCard, A!HoldsWic, A!HoldsMount
  <2>4. CASE A!MountPart(45, 49, ayocto, "yoctomnt/rootfs")
    BY <2>4, <1>8, <1>a DEF A!MountPart, Leases, Dir,
      A!HoldsCard, A!HoldsWic, A!HoldsMount
  <2> QED
    BY <1>9, <2>1, <2>2, <2>3, <2>4
<1>10. ASSUME NEW from, NEW to \in A!Lines, NEW d \in Dir,
              A!UmountPart(from, to, d),
              apc' = to => ~A!HoldsMount(d)' /\ A!HoldsMount(d),
              \A m \in Dir \ {d} : A!HoldsMount(m)' <=> A!HoldsMount(m),
              A!HoldsCard' <=> A!HoldsCard, A!HoldsWic' <=> A!HoldsWic
       PROVE  Core'
  <2>1. /\ apc' = to /\ aloop' = aloop /\ ayocto' = ayocto /\ Umount(d)
    BY <1>10 DEF A!UmountPart, A!Umount, Umount, A!Uses, Uses, A!Dir, Dir
  <2>2. Counted'
    BY <2>1, <1>10, <1>a, <1>b, UmountCounts DEF Counted, Runs
  <2>3. loop' \in LoopTable /\ mounts' \in MountTable /\ Sound(loop', mounts')
    BY <2>1, <1>a, SoundUmount, MountTypes
  <2>4. \A l \in Loop : loop'[l] = loop[l] \/ (loop[l] = "closing" /\ loop'[l] = "free")
    BY <2>1, <1>a DEF Umount, LoopTable
  <2>5. Leases' /\ Apart' /\ Owned'
    <3>1. Leases'
      BY <2>1, <2>4, <1>10, <1>a, <1>b DEF Leases
    <3>2. Apart'
      BY <2>1, <1>10, <1>a, <1>b DEF Apart
    <3>3. Owned'
      BY <2>1, <2>4, <1>10, <1>a, <1>b DEF Owned
    <3> QED
      BY <3>1, <3>2, <3>3
  <2> QED
    BY <2>1, <2>2, <2>3, <2>5, <1>a, <1>b DEF Core
<1>11. CASE \/ A!UmountPart(55, 56, "mnt/boot") \/ A!UmountPart(56, 60, "mnt/rootfs")
            \/ A!UmountPart(73, 74, "yoctomnt/boot")
            \/ A!UmountPart(74, 75, "yoctomnt/rootfs")
  <2>1. CASE A!UmountPart(55, 56, "mnt/boot")
    BY <2>1, <1>10 DEF A!UmountPart, Dir, A!HoldsCard, A!HoldsWic, A!HoldsMount
  <2>2. CASE A!UmountPart(56, 60, "mnt/rootfs")
    BY <2>2, <1>10 DEF A!UmountPart, Dir, A!HoldsCard, A!HoldsWic, A!HoldsMount
  <2>3. CASE A!UmountPart(73, 74, "yoctomnt/boot")
    BY <2>3, <1>10 DEF A!UmountPart, Dir, A!HoldsCard, A!HoldsWic, A!HoldsMount
  <2>4. CASE A!UmountPart(74, 75, "yoctomnt/rootfs")
    BY <2>4, <1>10 DEF A!UmountPart, Dir, A!HoldsCard, A!HoldsWic, A!HoldsMount
  <2> QED
    BY <1>11, <2>1, <2>2, <2>3, <2>4
<1>12. CASE A!DetachCard
  <2>1. /\ apc = 75 /\ apc' = 76 /\ aloop' = aloop /\ ayocto' = ayocto /\ mounts' = mounts
        /\ aloop \in Loop /\ ayocto \in Loop /\ loop[aloop] = "card" /\ Detach(aloop)
        /\ loop' = [loop EXCEPT ![aloop] = Gone(aloop)]
        /\ Gone(aloop) \in {"free", "closing"}
    BY <1>12, <1>a DEF A!DetachCard, A!Detach, Detach, A!Gone, Gone,
      A!InUse, InUse, A!Uses, Uses, A!Dir, Dir, Leases, A!HoldsCard, A!HoldsWic
  <2>2. Counted'
    BY <2>1, <1>c DEF A!HoldsMount
  <2>3. loop' \in LoopTable /\ Sound(loop', mounts')
    BY <2>1, <1>a, SoundDetach, LoopTypes
  <2>4. /\ loop'[aloop] \in {"free", "closing"}
        /\ \A l \in Loop \ {aloop} : loop'[l] = loop[l]
        /\ A!HoldsCard /\ ~A!HoldsCard' /\ A!HoldsWic /\ A!HoldsWic'
    BY <2>1, <1>a DEF LoopTable, A!HoldsCard, A!HoldsWic
  <2>5. Leases' /\ Apart' /\ Owned'
    <3>1. Leases'
      BY <2>1, <2>4, <1>a, <1>b DEF Leases, Apart
    <3>2. Apart'
      BY <2>1, <2>4, <1>a, <1>b DEF Apart
    <3>3. Owned'
      BY <2>1, <2>4, <1>a, <1>b DEF Owned
    <3> QED
      BY <3>1, <3>2, <3>3
  <2> QED
    BY <2>1, <2>2, <2>3, <2>5, <1>a, <1>b DEF Core
<1>13. CASE A!DetachWic
  <2>1. /\ apc = 76 /\ apc' = 0 /\ mounts' = mounts
        /\ ayocto \in Loop /\ loop[ayocto] = "wic" /\ Detach(ayocto)
        /\ loop' = [loop EXCEPT ![ayocto] = Gone(ayocto)]
        /\ Gone(ayocto) \in {"free", "closing"}
    BY <1>13, <1>a DEF A!DetachWic, A!Exit, A!Detach, Detach, A!Gone, Gone,
      A!InUse, InUse, A!Uses, Uses, A!Dir, Dir, Leases, A!HoldsWic
  <2>2. Counted'
    BY <2>1, <1>c DEF A!HoldsMount
  <2>3. loop' \in LoopTable /\ Sound(loop', mounts')
    BY <2>1, <1>a, SoundDetach, LoopTypes
  <2>4. /\ loop'[ayocto] \in {"free", "closing"}
        /\ \A l \in Loop \ {ayocto} : loop'[l] = loop[l]
        /\ ~A!HoldsCard /\ ~A!HoldsCard' /\ A!HoldsWic /\ ~A!HoldsWic'
    BY <2>1, <1>a DEF LoopTable, A!HoldsCard, A!HoldsWic
  <2>5. Leases' /\ Apart' /\ Owned'
    <3>1. Leases'
      BY <2>1, <2>4, <1>a, <1>b DEF Leases, Apart
    <3>2. Apart'
      BY <2>1, <2>4, <1>a, <1>b DEF Apart
    <3>3. Owned'
      BY <2>1, <2>4, <1>a, <1>b DEF Owned
    <3> QED
      BY <3>1, <3>2, <3>3
  <2> QED
    BY <2>1, <2>2, <2>3, <2>5, <1>a, <1>b DEF Core
<1> QED
  BY <1>2, <1>3, <1>4, <1>5, <1>6, <1>7, <1>9, <1>11, <1>12, <1>13 DEF A!Progress

(* ... and the other *)
LEMMA OtherKeeps ==
  ASSUME Core, UNCHANGED one,
         B!Progress \/ B!GuestWrites \/ (\E p \in Part : B!StaleWriteback(p))
  PROVE  Core'
<1>a. /\ loop \in LoopTable /\ mounts \in MountTable
      /\ bpc \in B!Lines /\ apc \in A!Lines
      /\ Sound(loop, mounts) /\ Counted /\ Leases /\ Apart /\ Owned
  BY DEF Core
<1>b. /\ apc' = apc /\ aloop' = aloop /\ ayocto' = ayocto
      /\ (A!HoldsCard' <=> A!HoldsCard) /\ (A!HoldsWic' <=> A!HoldsWic)
      /\ \A m \in Dir : A!HoldsMount(m)' <=> A!HoldsMount(m)
  BY DEF one, A!HoldsCard, A!HoldsWic, A!HoldsMount
<1> DEFINE SameMounts == \A m \in Dir : B!HoldsMount(m)' <=> B!HoldsMount(m)
           SameLeases == /\ B!HoldsCard' <=> B!HoldsCard
                         /\ B!HoldsWic' <=> B!HoldsWic
                         /\ bloop' = bloop /\ byocto' = byocto
<1>c. ASSUME mounts' = mounts, SameMounts PROVE Counted'
  BY <1>a, <1>b, <1>c DEF Counted, Runs
<1>d. ASSUME loop' = loop, SameLeases PROVE Leases' /\ Apart' /\ Owned'
  BY <1>a, <1>b, <1>d DEF Leases, Apart, Owned
<1>e. ASSUME loop' = loop, mounts' = mounts PROVE Sound(loop', mounts')
  BY <1>a, <1>e
<1> USE DEF B!Goto, B!host, B!disks, B!work, B!run, B!Lines
<1>1. ASSUME bpc' \in B!Lines, UNCHANGED <<loop, mounts, bloop, byocto>>, SameMounts,
             B!HoldsCard' <=> B!HoldsCard, B!HoldsWic' <=> B!HoldsWic
      PROVE  Core'
  BY <1>1, <1>a, <1>b, <1>c, <1>d, <1>e DEF Core
<1>2. CASE B!Start \/ B!RmMnt \/ B!ImageExists \/ B!CreateImage \/ B!Cfdisk
  BY <1>1, <1>2 DEF B!Start, B!RmMnt, B!ImageExists, B!CreateImage, B!Cfdisk,
    B!HoldsCard, B!HoldsWic, B!HoldsMount
<1>3. CASE \/ B!Mkfs(29, 30, "boot") \/ B!Mkfs(30, 32, "rootfs")
           \/ B!CopyPart(49, 50, "boot") \/ B!CopyPart(50, 55, "rootfs")
  BY <1>1, <1>3 DEF B!Mkfs, B!CopyPart, B!HoldsCard, B!HoldsWic, B!HoldsMount
<1>4. CASE B!RmYoctomnt \/ B!RmWic \/ B!Bunzip2 \/ B!ListWic
           \/ (\E d \in Deploys : B!Fetch(d))
  BY <1>1, <1>4 DEF B!RmYoctomnt, B!RmWic, B!Bunzip2, B!ListWic, B!Fetch,
    B!HoldsCard, B!HoldsWic, B!HoldsMount
<1>5. CASE B!StartQemu \/ B!QemuExits \/ B!GuestWrites
           \/ (\E p \in Part : B!StaleWriteback(p))
  BY <1>1, <1>5, <1>a DEF B!StartQemu, B!QemuExits, B!GuestWrites, B!StaleWriteback,
    B!HoldsCard, B!HoldsWic, B!HoldsMount
<1>6. ASSUME NEW l \in Loop, B!AttachCard(l) PROVE Core'
  <2>1. /\ bpc = 27 /\ bpc' = 29 /\ bloop' = l /\ byocto' = byocto /\ mounts' = mounts
        /\ loop[l] = "free" /\ loop' = [loop EXCEPT ![l] = "card"] /\ Attach(l, "card")
    BY <1>6 DEF B!AttachCard, B!Attach, Attach
  <2>2. Counted'
    BY <2>1, <1>c DEF B!HoldsMount
  <2>3. loop' \in LoopTable /\ Sound(loop', mounts')
    BY <2>1, <1>a, SoundAttach, LoopTypes
  <2>4. Leases' /\ Apart' /\ Owned'
    BY <2>1, <1>a, <1>b DEF Leases, Apart, Owned, LoopTable, B!HoldsCard, B!HoldsWic
  <2> QED
    BY <2>1, <2>2, <2>3, <2>4, <1>a, <1>b DEF Core
<1>7. ASSUME NEW l \in Loop, NEW b \in Build, B!AttachWic(l, b) PROVE Core'
  <2>1. /\ bpc = 43 /\ bpc' = 44 /\ byocto' = l /\ bloop' = bloop /\ mounts' = mounts
        /\ loop[l] = "free" /\ loop' = [loop EXCEPT ![l] = "wic"] /\ Attach(l, "wic")
    BY <1>7 DEF B!AttachWic, B!Attach, Attach
  <2>2. Counted'
    BY <2>1, <1>c DEF B!HoldsMount
  <2>3. loop' \in LoopTable /\ Sound(loop', mounts')
    BY <2>1, <1>a, SoundAttach, LoopTypes
  <2>4. Leases' /\ Apart' /\ Owned'
    BY <2>1, <1>a, <1>b DEF Leases, Apart, Owned, LoopTable, B!HoldsCard, B!HoldsWic
  <2> QED
    BY <2>1, <2>2, <2>3, <2>4, <1>a, <1>b DEF Core
<1>8. ASSUME NEW from, NEW to \in B!Lines, NEW l \in Loop, NEW d \in Dir,
             B!MountPart(from, to, l, d),
             bpc' = to => B!HoldsMount(d)' /\ ~B!HoldsMount(d),
             \A m \in Dir \ {d} : B!HoldsMount(m)' <=> B!HoldsMount(m),
             B!HoldsCard' <=> B!HoldsCard, B!HoldsWic' <=> B!HoldsWic
      PROVE  Core'
  <2>1. /\ bpc' = to /\ loop' = loop /\ bloop' = bloop /\ byocto' = byocto /\ Mount(l, d)
    BY <1>8 DEF B!MountPart, B!Mount, Mount
  <2>2. Counted'
    BY <2>1, <1>8, <1>a, <1>b, MountCounts DEF Counted, Runs
  <2>3. mounts' \in MountTable /\ Sound(loop', mounts')
    BY <2>1, <1>a, SoundMount, MountTypes
  <2> QED
    BY <2>1, <2>2, <2>3, <1>8, <1>a, <1>b, <1>d DEF Core
<1>9. CASE \/ B!MountPart(32, 33, bloop, "mnt/boot")
           \/ B!MountPart(33, 37, bloop, "mnt/rootfs")
           \/ B!MountPart(44, 45, byocto, "yoctomnt/boot")
           \/ B!MountPart(45, 49, byocto, "yoctomnt/rootfs")
  <2>1. CASE B!MountPart(32, 33, bloop, "mnt/boot")
    BY <2>1, <1>8, <1>a DEF B!MountPart, Leases, Dir,
      B!HoldsCard, B!HoldsWic, B!HoldsMount
  <2>2. CASE B!MountPart(33, 37, bloop, "mnt/rootfs")
    BY <2>2, <1>8, <1>a DEF B!MountPart, Leases, Dir,
      B!HoldsCard, B!HoldsWic, B!HoldsMount
  <2>3. CASE B!MountPart(44, 45, byocto, "yoctomnt/boot")
    BY <2>3, <1>8, <1>a DEF B!MountPart, Leases, Dir,
      B!HoldsCard, B!HoldsWic, B!HoldsMount
  <2>4. CASE B!MountPart(45, 49, byocto, "yoctomnt/rootfs")
    BY <2>4, <1>8, <1>a DEF B!MountPart, Leases, Dir,
      B!HoldsCard, B!HoldsWic, B!HoldsMount
  <2> QED
    BY <1>9, <2>1, <2>2, <2>3, <2>4
<1>10. ASSUME NEW from, NEW to \in B!Lines, NEW d \in Dir,
              B!UmountPart(from, to, d),
              bpc' = to => ~B!HoldsMount(d)' /\ B!HoldsMount(d),
              \A m \in Dir \ {d} : B!HoldsMount(m)' <=> B!HoldsMount(m),
              B!HoldsCard' <=> B!HoldsCard, B!HoldsWic' <=> B!HoldsWic
       PROVE  Core'
  <2>1. /\ bpc' = to /\ bloop' = bloop /\ byocto' = byocto /\ Umount(d)
    BY <1>10 DEF B!UmountPart, B!Umount, Umount, B!Uses, Uses, B!Dir, Dir
  <2>2. Counted'
    BY <2>1, <1>10, <1>a, <1>b, UmountCounts DEF Counted, Runs
  <2>3. loop' \in LoopTable /\ mounts' \in MountTable /\ Sound(loop', mounts')
    BY <2>1, <1>a, SoundUmount, MountTypes
  <2>4. \A l \in Loop : loop'[l] = loop[l] \/ (loop[l] = "closing" /\ loop'[l] = "free")
    BY <2>1, <1>a DEF Umount, LoopTable
  <2>5. Leases' /\ Apart' /\ Owned'
    <3>1. Leases'
      BY <2>1, <2>4, <1>10, <1>a, <1>b DEF Leases
    <3>2. Apart'
      BY <2>1, <1>10, <1>a, <1>b DEF Apart
    <3>3. Owned'
      BY <2>1, <2>4, <1>10, <1>a, <1>b DEF Owned
    <3> QED
      BY <3>1, <3>2, <3>3
  <2> QED
    BY <2>1, <2>2, <2>3, <2>5, <1>a, <1>b DEF Core
<1>11. CASE \/ B!UmountPart(55, 56, "mnt/boot") \/ B!UmountPart(56, 60, "mnt/rootfs")
            \/ B!UmountPart(73, 74, "yoctomnt/boot")
            \/ B!UmountPart(74, 75, "yoctomnt/rootfs")
  <2>1. CASE B!UmountPart(55, 56, "mnt/boot")
    BY <2>1, <1>10 DEF B!UmountPart, Dir, B!HoldsCard, B!HoldsWic, B!HoldsMount
  <2>2. CASE B!UmountPart(56, 60, "mnt/rootfs")
    BY <2>2, <1>10 DEF B!UmountPart, Dir, B!HoldsCard, B!HoldsWic, B!HoldsMount
  <2>3. CASE B!UmountPart(73, 74, "yoctomnt/boot")
    BY <2>3, <1>10 DEF B!UmountPart, Dir, B!HoldsCard, B!HoldsWic, B!HoldsMount
  <2>4. CASE B!UmountPart(74, 75, "yoctomnt/rootfs")
    BY <2>4, <1>10 DEF B!UmountPart, Dir, B!HoldsCard, B!HoldsWic, B!HoldsMount
  <2> QED
    BY <1>11, <2>1, <2>2, <2>3, <2>4
<1>12. CASE B!DetachCard
  <2>1. /\ bpc = 75 /\ bpc' = 76 /\ bloop' = bloop /\ byocto' = byocto /\ mounts' = mounts
        /\ bloop \in Loop /\ byocto \in Loop /\ loop[bloop] = "card" /\ Detach(bloop)
        /\ loop' = [loop EXCEPT ![bloop] = Gone(bloop)]
        /\ Gone(bloop) \in {"free", "closing"}
    BY <1>12, <1>a DEF B!DetachCard, B!Detach, Detach, B!Gone, Gone,
      B!InUse, InUse, B!Uses, Uses, B!Dir, Dir, Leases, B!HoldsCard, B!HoldsWic
  <2>2. Counted'
    BY <2>1, <1>c DEF B!HoldsMount
  <2>3. loop' \in LoopTable /\ Sound(loop', mounts')
    BY <2>1, <1>a, SoundDetach, LoopTypes
  <2>4. /\ loop'[bloop] \in {"free", "closing"}
        /\ \A l \in Loop \ {bloop} : loop'[l] = loop[l]
        /\ B!HoldsCard /\ ~B!HoldsCard' /\ B!HoldsWic /\ B!HoldsWic'
    BY <2>1, <1>a DEF LoopTable, B!HoldsCard, B!HoldsWic
  <2>5. Leases' /\ Apart' /\ Owned'
    <3>1. Leases'
      BY <2>1, <2>4, <1>a, <1>b DEF Leases, Apart
    <3>2. Apart'
      BY <2>1, <2>4, <1>a, <1>b DEF Apart
    <3>3. Owned'
      BY <2>1, <2>4, <1>a, <1>b DEF Owned
    <3> QED
      BY <3>1, <3>2, <3>3
  <2> QED
    BY <2>1, <2>2, <2>3, <2>5, <1>a, <1>b DEF Core
<1>13. CASE B!DetachWic
  <2>1. /\ bpc = 76 /\ bpc' = 0 /\ mounts' = mounts
        /\ byocto \in Loop /\ loop[byocto] = "wic" /\ Detach(byocto)
        /\ loop' = [loop EXCEPT ![byocto] = Gone(byocto)]
        /\ Gone(byocto) \in {"free", "closing"}
    BY <1>13, <1>a DEF B!DetachWic, B!Exit, B!Detach, Detach, B!Gone, Gone,
      B!InUse, InUse, B!Uses, Uses, B!Dir, Dir, Leases, B!HoldsWic
  <2>2. Counted'
    BY <2>1, <1>c DEF B!HoldsMount
  <2>3. loop' \in LoopTable /\ Sound(loop', mounts')
    BY <2>1, <1>a, SoundDetach, LoopTypes
  <2>4. /\ loop'[byocto] \in {"free", "closing"}
        /\ \A l \in Loop \ {byocto} : loop'[l] = loop[l]
        /\ ~B!HoldsCard /\ ~B!HoldsCard' /\ B!HoldsWic /\ ~B!HoldsWic'
    BY <2>1, <1>a DEF LoopTable, B!HoldsCard, B!HoldsWic
  <2>5. Leases' /\ Apart' /\ Owned'
    <3>1. Leases'
      BY <2>1, <2>4, <1>a, <1>b DEF Leases, Apart
    <3>2. Apart'
      BY <2>1, <2>4, <1>a, <1>b DEF Apart
    <3>3. Owned'
      BY <2>1, <2>4, <1>a, <1>b DEF Owned
    <3> QED
      BY <3>1, <3>2, <3>3
  <2> QED
    BY <2>1, <2>2, <2>3, <2>5, <1>a, <1>b DEF Core
<1> QED
  BY <1>2, <1>3, <1>4, <1>5, <1>6, <1>7, <1>9, <1>11, <1>12, <1>13 DEF B!Progress

-----------------------------------------------------------------------------
(* on a clean host *)
LEMMA CleanCore ==
  ASSUME apc = 0, bpc = 0, loop = AllFree, mounts = NoMounts
  PROVE  Core
<1>1. \A m \in Dir : Len(mounts[m]) = 0
  BY DEF NoMounts
<1> QED
  BY <1>1, EmptyTables, SoundEmpty
  DEF Core, Counted, Runs, Leases, Apart, Owned, AllFree, A!Lines, B!Lines,
      A!HoldsCard, A!HoldsWic, A!HoldsMount, B!HoldsCard, B!HoldsWic, B!HoldsMount

(* before the runs are started *)
LEMMA IInvInit == Init => IInv
  BY CleanCore DEF Init, IInv

(* as long as no run has ended early, each step of either keeps Core        *)
LEMMA IInvNext == IInv /\ [Next]_vars => IInv'
<1> SUFFICES ASSUME IInv, [Next]_vars, ~early' PROVE Core'
  BY DEF IInv
<1>1. CASE One
  <2>1. ~early
    BY <1>1, Zenon DEF One
  <2>2. A!Progress \/ A!GuestWrites \/ (\E p \in Part : A!StaleWriteback(p))
    BY <1>1, <2>1, Zenon DEF One
  <2> QED
    BY <1>1, <2>1, <2>2, OneKeeps DEF One, IInv
<1>2. CASE Other
  <2>1. ~early
    BY <1>2, Zenon DEF Other
  <2>2. B!Progress \/ B!GuestWrites \/ (\E p \in Part : B!StaleWriteback(p))
    BY <1>2, <2>1, Zenon DEF Other
  <2> QED
    BY <1>2, <2>1, <2>2, OtherKeeps DEF Other, IInv
<1>3. CASE Restart
  <2>1. apc' = 0 /\ bpc' = 0 /\ loop' = AllFree /\ mounts' = NoMounts
    BY <1>3 DEF Restart, A!Reboot, other,
      A!AllFree, A!NoMounts, AllFree, NoMounts, A!Dir, Dir
  <2>2. /\ loop' \in LoopTable /\ mounts' \in MountTable /\ Sound(loop', mounts')
        /\ \A m \in Dir : Len(mounts'[m]) = 0
    BY <2>1, EmptyTables, SoundEmpty DEF NoMounts
  <2> QED
    BY <2>1, <2>2
    DEF Core, Counted, Runs, Leases, Apart, Owned, AllFree, A!Lines, B!Lines,
        A!HoldsCard, A!HoldsWic, A!HoldsMount, B!HoldsCard, B!HoldsWic, B!HoldsMount
<1>4. CASE UNCHANGED vars
  <2>1. Core
    BY <1>4, Zenon DEF IInv, vars
  <2> QED
    BY <1>4, <2>1
    DEF vars, one, other, Core, Sound, Uses, Counted, Runs, Leases, Apart, Owned,
        A!HoldsCard, A!HoldsWic, A!HoldsMount, B!HoldsCard, B!HoldsWic, B!HoldsMount
<1> QED
  BY <1>1, <1>2, <1>3, <1>4 DEF Next

(* Of two runs in one directory, each finds as many mounts as it and the    *)
(* other hold, and its devices attached, however they interleave.           *)
THEOREM LosesNothing == Spec => []NoneLost
<1>1. IInv => NoneLost
  BY DEF IInv, Core, Counted, Leases, NoneLost
<1> QED
  BY <1>1, IInvInit, IInvNext, PTL DEF Spec

(* ... and when both have completed, nothing is attached or mounted: a      *)
(* device detached under the other's mount has gone with that mount.        *)
THEOREM GivesBackTogether == Spec => []GivenBackTogether
<1>1. IInv => GivenBackTogether
  <2> SUFFICES ASSUME Core, apc = 0, bpc = 0
               PROVE  loop = AllFree /\ mounts = NoMounts
    BY DEF IInv, GivenBackTogether
  <2>1. ASSUME NEW m \in Dir PROVE mounts[m] = <<>>
    <3>1. Len(mounts[m]) = 0
      BY DEF Core, Counted, Runs, A!HoldsMount, B!HoldsMount
    <3>2. mounts[m] \in Seq(Loop)
      BY DEF Core, MountTable
    <3> QED
      BY <3>1, <3>2
  <2>2. ASSUME NEW l \in Loop PROVE loop[l] = "free"
    <3>1. ~Uses(mounts, l)
      BY <2>1 DEF Uses
    <3>2. loop[l] \notin {"card", "wic", "raspios"}
      BY DEF Core, Owned, A!HoldsCard, A!HoldsWic, B!HoldsCard, B!HoldsWic
    <3>3. loop[l] # "closing"
      BY <3>1 DEF Core, Sound
    <3> QED
      BY <3>2, <3>3 DEF Core, LoopTable
  <2> QED
    BY <2>1, <2>2 DEF Core, LoopTable, MountTable, AllFree, NoMounts
<1> QED
  BY <1>1, IInvInit, IInvNext, PTL DEF Spec
=============================================================================
