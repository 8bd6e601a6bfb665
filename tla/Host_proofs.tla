---------------------------- MODULE Host_proofs ----------------------------
(***************************************************************************)
(* What losetup, mount and umount do to well-formed tables, and what the   *)
(* commands of the scripts do to the files behind the devices.             *)
(***************************************************************************)
EXTENDS Disks, SequenceTheorems, TLAPS

(* umount undoes mount *)
LEMMA UmountUndoesMount ==
  ASSUME NEW s \in Seq(Loop), NEW l \in Loop
  PROVE  /\ Append(s, l) \in Seq(Loop)
         /\ Append(s, l) # <<>>
         /\ SubSeq(Append(s, l), 1, Len(Append(s, l)) - 1) = s
  OBVIOUS

(* what umount leaves is a stack of mounts *)
LEMMA UmountType ==
  ASSUME NEW s \in Seq(Loop), s # <<>>
  PROVE  SubSeq(s, 1, Len(s) - 1) \in Seq(Loop)
  OBVIOUS

(* attach and detach keep the loop table well formed *)
LEMMA LoopTypes ==
  ASSUME loop \in LoopTable, NEW l \in Loop
  PROVE  /\ \A f \in {"card", "wic", "raspios"} : Attach(l, f) => loop' \in LoopTable
         /\ Detach(l) => loop' \in LoopTable
         /\ DetachAll => loop' \in LoopTable
  BY DEF Attach, Detach, DetachAll, Gone, LoopTable

(* mount and umount keep both tables well formed *)
LEMMA MountTypes ==
  ASSUME loop \in LoopTable, mounts \in MountTable, NEW m \in Dir
  PROVE  /\ \A l \in Loop : Mount(l, m) => mounts' \in MountTable
         /\ Umount(m) => mounts' \in MountTable /\ loop' \in LoopTable
<1>1. ASSUME NEW l \in Loop, Mount(l, m) PROVE mounts' \in MountTable
  BY <1>1, UmountUndoesMount DEF Mount, MountTable
<1>2. ASSUME Umount(m) PROVE mounts' \in MountTable
  BY <1>2, UmountType DEF Umount, MountTable
<1>3. ASSUME Umount(m) PROVE loop' \in LoopTable
  BY <1>3 DEF Umount, LoopTable
<1> QED
  BY <1>1, <1>2, <1>3

(* a host nothing has been attached or mounted on is well formed *)
LEMMA EmptyTables ==
  AllFree \in LoopTable /\ NoMounts \in MountTable
  BY DEF AllFree, NoMounts, LoopTable, MountTable

-----------------------------------------------------------------------------
(* The kernel's bookkeeping: a device that is free has no mounted partition, *)
(* and one that is closing still has.                                        *)
Sound(devices, tree) ==
  \A l \in Loop : /\ devices[l] = "free" => ~Uses(tree, l)
                  /\ devices[l] = "closing" => Uses(tree, l)

(* a mount brings its device into use, and no other *)
LEMMA UsesAfterMount ==
  ASSUME mounts \in MountTable, NEW l \in Loop, NEW d \in Dir, Mount(l, d),
         NEW k \in Loop
  PROVE  Uses(mounts', k) <=> (Uses(mounts, k) \/ k = l)
<1>1. /\ mounts[d] \in Seq(Loop)
      /\ mounts'[d] = Append(mounts[d], l)
      /\ \A m \in Dir : m # d => mounts'[m] = mounts[m]
  BY DEF Mount, MountTable
<1>2. ASSUME NEW s \in Seq(Loop), NEW t, t = Append(s, l)
      PROVE  (\E i \in DOMAIN t : t[i] = k) <=> ((\E i \in DOMAIN s : s[i] = k) \/ k = l)
  <2>1. /\ Len(t) = Len(s) + 1 /\ t[Len(s) + 1] = l /\ DOMAIN t = 1 .. Len(s) + 1
        /\ \A i \in 1 .. Len(s) : t[i] = s[i]
        /\ DOMAIN s = 1 .. Len(s) /\ Len(s) \in Nat
    BY <1>2, AppendProperties
  <2> QED
    BY <2>1
<1>3. (\E i \in DOMAIN mounts'[d] : mounts'[d][i] = k)
        <=> ((\E i \in DOMAIN mounts[d] : mounts[d][i] = k) \/ k = l)
  BY <1>1, <1>2
<1> QED
  BY <1>1, <1>3, Zenon DEF Uses

(* umount brings nothing into use *)
LEMMA UsesAfterUmount ==
  ASSUME mounts \in MountTable, NEW d \in Dir, Umount(d), NEW k \in Loop,
         Uses(mounts', k)
  PROVE  Uses(mounts, k)
<1>1. /\ mounts[d] \in Seq(Loop) /\ mounts[d] # <<>>
      /\ mounts'[d] = SubSeq(mounts[d], 1, Len(mounts[d]) - 1)
      /\ \A m \in Dir : m # d => mounts'[m] = mounts[m]
  BY DEF Umount, MountTable
<1>2. ASSUME NEW s \in Seq(Loop), s # <<>>, NEW t, t = SubSeq(s, 1, Len(s) - 1),
             NEW i \in DOMAIN t, t[i] = k
      PROVE  \E j \in DOMAIN s : s[j] = k
  BY <1>2
<1>3. (\E i \in DOMAIN mounts'[d] : mounts'[d][i] = k)
        => \E i \in DOMAIN mounts[d] : mounts[d][i] = k
  BY <1>1, <1>2
<1> QED
  BY <1>1, <1>3, Zenon DEF Uses

(* every operation of this module keeps the bookkeeping sound *)
LEMMA SoundAttach ==
  ASSUME loop \in LoopTable, Sound(loop, mounts),
         NEW l \in Loop, NEW f \in {"card", "wic", "raspios"},
         Attach(l, f), mounts' = mounts
  PROVE  Sound(loop', mounts')
  BY DEF Sound, Attach, LoopTable

LEMMA SoundDetach ==
  ASSUME loop \in LoopTable, Sound(loop, mounts), mounts' = mounts,
         (\E l \in Loop : Detach(l)) \/ DetachAll
  PROVE  Sound(loop', mounts')
  BY DEF Sound, Detach, DetachAll, Gone, InUse, LoopTable

LEMMA SoundMount ==
  ASSUME loop \in LoopTable, mounts \in MountTable, Sound(loop, mounts),
         NEW l \in Loop, NEW m \in Dir, Mount(l, m), loop' = loop
  PROVE  Sound(loop', mounts')
<1>1. loop[l] # "free"
  BY DEF Mount
<1> QED
  BY <1>1, UsesAfterMount DEF Sound

LEMMA SoundUmount ==
  ASSUME loop \in LoopTable, mounts \in MountTable, Sound(loop, mounts),
         NEW m \in Dir, Umount(m)
  PROVE  Sound(loop', mounts')
<1>1. loop' = [l \in Loop |-> IF loop[l] = "closing" /\ ~Uses(mounts', l)
                              THEN "free" ELSE loop[l]]
  BY DEF Umount
<1>2. \A k \in Loop : Uses(mounts', k) => Uses(mounts, k)
  BY UsesAfterUmount
<1> QED
  BY <1>1, <1>2 DEF Sound

(* a host nothing has been attached or mounted on *)
LEMMA SoundEmpty == Sound(AllFree, NoMounts)
  BY DEF Sound, Uses, AllFree, NoMounts

-----------------------------------------------------------------------------
(* a mount or umount of one directory leaves the others alone *)
LEMMA MountsOn ==
  ASSUME mounts \in MountTable, NEW l \in Loop, NEW d \in Dir, Mount(l, d)
  PROVE  /\ mounts'[d] = Append(mounts[d], l)
         /\ \A m \in Dir \ {d} : mounts'[m] = mounts[m]
  BY DEF Mount, MountTable

LEMMA UmountsFrom ==
  ASSUME mounts \in MountTable, NEW d \in Dir, Umount(d)
  PROVE  /\ mounts[d] # <<>>
         /\ mounts'[d] = SubSeq(mounts[d], 1, Len(mounts[d]) - 1)
         /\ \A m \in Dir \ {d} : mounts'[m] = mounts[m]
  BY DEF Umount, MountTable

(* umount attaches nothing: devices stay what they are, or go *)
LEMMA UmountFrees ==
  ASSUME loop \in LoopTable, NEW d \in Dir, Umount(d), NEW l \in Loop
  PROVE  loop'[l] = loop[l] \/ (loop[l] = "closing" /\ loop'[l] = "free")
  BY DEF Umount, LoopTable

(* an umount leaves a directory the mounts it does not take *)
LEMMA UmountLeaves ==
  ASSUME mounts \in MountTable, NEW d \in Dir, Umount(d), NEW m \in Dir,
         NEW i \in DOMAIN mounts'[m]
  PROVE  i \in DOMAIN mounts[m] /\ mounts'[m][i] = mounts[m][i]
<1>1. ASSUME NEW s \in Seq(Loop), s # <<>>, NEW t, t = SubSeq(s, 1, Len(s) - 1),
             NEW j \in DOMAIN t
      PROVE  j \in DOMAIN s /\ t[j] = s[j]
  BY <1>1
<1>2. mounts[m] \in Seq(Loop)
  BY DEF MountTable
<1> QED
  BY <1>1, <1>2, UmountsFrom

(* what is mounted where, on top, is in use *)
LEMMA VisibleInUse ==
  ASSUME NEW s \in Seq(Loop), NEW l \in Loop, NEW m \in Dir, mounts[m] = Append(s, l)
  PROVE  Mounted(m) /\ Visible(m) = l /\ InUse(l)
<1>1. /\ Len(Append(s, l)) = Len(s) + 1 /\ Append(s, l)[Len(s) + 1] = l
      /\ DOMAIN Append(s, l) = 1 .. Len(s) + 1 /\ Len(s) \in Nat /\ Append(s, l) # <<>>
  BY AppendProperties
<1> QED
  BY <1>1 DEF Mounted, Visible, InUse, Uses

(* Anything that happens to the two tables, whoever does it. *)
HostMoves ==
  \/ loop' = loop /\ mounts' = mounts
  \/ /\ mounts' = mounts
     /\ \/ \E l \in Loop : \/ Detach(l)
                           \/ \E f \in {"card", "wic", "raspios"} : Attach(l, f)
        \/ DetachAll
  \/ loop' = loop /\ \E l \in Loop, m \in Dir : Mount(l, m)
  \/ \E m \in Dir : Umount(m)
  \/ loop' = AllFree /\ mounts' = NoMounts

Kernel == loop \in LoopTable /\ mounts \in MountTable /\ Sound(loop, mounts)

(* keeps them well formed and in agreement *)
LEMMA KernelKept ==
  ASSUME Kernel, HostMoves
  PROVE  Kernel'
<1> USE DEF Kernel
<1>1. CASE loop' = loop /\ mounts' = mounts
  BY <1>1
<1>2. CASE mounts' = mounts /\ ((\E l \in Loop : Detach(l)) \/ DetachAll)
  <2>1. Sound(loop', mounts')
    BY <1>2, SoundDetach
  <2>2. loop' \in LoopTable
    BY <1>2, LoopTypes DEF DetachAll, Gone, LoopTable
  <2> QED
    BY <1>2, <2>1, <2>2
<1>3. ASSUME NEW l \in Loop, NEW f \in {"card", "wic", "raspios"}, Attach(l, f),
             mounts' = mounts
      PROVE  Kernel'
  BY <1>3, LoopTypes, SoundAttach
<1>4. ASSUME NEW l \in Loop, NEW m \in Dir, Mount(l, m), loop' = loop PROVE Kernel'
  BY <1>4, MountTypes, SoundMount
<1>5. ASSUME NEW m \in Dir, Umount(m) PROVE Kernel'
  BY <1>5, MountTypes, SoundUmount
<1>6. CASE loop' = AllFree /\ mounts' = NoMounts
  BY <1>6, EmptyTables, SoundEmpty
<1> HIDE DEF Kernel
<1> QED
  BY <1>1, <1>2, <1>3, <1>4, <1>5, <1>6 DEF HostMoves

-----------------------------------------------------------------------------
(* The files behind the devices. *)

FsType == [File -> [Part -> SUBSET Origin]]
TableType == [File -> [Part -> {"missing", "raw", "formatted"}]]

(* names that TLC keeps apart by itself *)
LEMMA FilesApart ==
  /\ "none" \in File /\ "card" \in File /\ Loop \subseteq File /\ Image \subseteq File
  /\ "none" \notin Loop /\ "card" \notin Loop /\ "none" \notin Image /\ "card" \notin Image
  /\ "none" # "card" /\ Loop \cap Image = {}
  BY FileAssumption DEF File

(* what a build or a release comes with is well formed *)
LEMMA ContentsType ==
  ASSUME NEW x \in Build \cup Image
  PROVE  /\ Contents(x) \in [Part -> SUBSET Origin]
         /\ Layout(x) \in [Part -> {"missing", "raw", "formatted"}]
  BY DEF Contents, Layout, Origin

(* the files before anything is attached *)
LEMMA DisksBegin ==
  DisksInit /\ loop = AllFree => DisksOK
<1> SUFFICES ASSUME DisksInit, loop = AllFree PROVE DisksOK
  OBVIOUS
<1>1. \A i \in Image : /\ Contents(i) \in [Part -> SUBSET Origin]
                       /\ Layout(i) \in [Part -> {"missing", "raw", "formatted"}]
  BY ContentsType
<1>2. Empty \in [Part -> SUBSET Origin] /\ Blank \in [Part -> {"missing", "raw", "formatted"}]
  BY DEF Empty, Blank
<1>3. fs \in FsType /\ table \in TableType
  BY <1>1, <1>2 DEF DisksInit, FsType, TableType
<1> QED
  BY <1>3, FilesApart DEF DisksInit, DisksOK, FsType, TableType, AllFree

(* writing to files whose devices stay *)
LEMMA DisksWritten ==
  ASSUME DisksOK, behind' = behind,
         \A l \in Loop : loop'[l] = "free" <=> loop[l] = "free",
         fs' \in FsType, fs'["none"] = Empty,
         table' \in TableType, table'["none"] = Blank
  PROVE  DisksOK'
  BY DEF DisksOK, FsType, TableType

(* nothing happens to the files *)
LEMMA DisksStay ==
  ASSUME DisksOK, UNCHANGED disks, \A l \in Loop : loop'[l] = "free" <=> loop[l] = "free"
  PROVE  DisksOK'
  BY DEF DisksOK, disks

LEMMA EmptiedType ==
  ASSUME DisksOK, NEW D \in SUBSET Dir
  PROVE  Emptied(D) \in FsType /\ Emptied(D)["none"] = Empty
  BY FilesApart DEF DisksOK, FsType, Emptied, Empty

LEMMA CopiedType ==
  ASSUME DisksOK, NEW X \in SUBSET Origin, NEW m \in Dir
  PROVE  Copied(X, m) \in FsType /\ Copied(X, m)["none"] = Empty
  BY FilesApart DEF DisksOK, FsType, Copied, Empty

(* the file of the partition that is visible on a directory *)
LEMMA AtFile ==
  ASSUME DisksOK, mounts \in MountTable, NEW m \in Dir
  PROVE  At(m) \in File /\ PartOf[m] \in Part /\ Shown(m) \in SUBSET Origin
<1>1. At(m) \in File
  <2>1. CASE mounts[m] = <<>>
    BY <2>1, FilesApart DEF At, Mounted
  <2>2. CASE mounts[m] # <<>>
    <3>1. Visible(m) \in Loop
      BY <2>2 DEF MountTable, Visible
    <3> QED
      BY <3>1, FilesApart DEF At, Mounted, DisksOK
  <2> QED
    BY <2>1, <2>2
<1>2. PartOf[m] \in Part
  BY DEF PartOf, Part
<1> QED
  BY <1>1, <1>2 DEF Shown, DisksOK

(* mkfs makes a partition empty and mountable *)
LEMMA Formatted ==
  ASSUME DisksOK, NEW l \in Loop, NEW p \in Part, Partition(l, p) # "missing"
  PROVE  /\ behind[l] \in File \ {"none"}
         /\ [fs EXCEPT ![behind[l]][p] = {}] \in FsType
         /\ [fs EXCEPT ![behind[l]][p] = {}]["none"] = Empty
         /\ [table EXCEPT ![behind[l]][p] = "formatted"] \in TableType
         /\ [table EXCEPT ![behind[l]][p] = "formatted"]["none"] = Blank
<1>1. behind[l] \in File \ {"none"}
  BY DEF Partition, DisksOK, Blank
<1> QED
  BY <1>1 DEF DisksOK, FsType, TableType

(* one file comes to hold something else *)
LEMMA FileWritten ==
  ASSUME DisksOK, NEW f \in File \ {"none"}, NEW c \in [Part -> SUBSET Origin]
  PROVE  [fs EXCEPT ![f] = c] \in FsType /\ [fs EXCEPT ![f] = c]["none"] = Empty
  BY DEF DisksOK, FsType

(* files that somebody, the guest or a stale buffer adds to a partition *)
LEMMA PartWritten ==
  ASSUME DisksOK, NEW f \in File \ {"none"}, NEW p \in Part, NEW x \in Origin
  PROVE  /\ [fs EXCEPT ![f][p] = @ \cup {x}] \in FsType
         /\ [fs EXCEPT ![f][p] = @ \cup {x}]["none"] = Empty
  BY DEF DisksOK, FsType

(* devices go, and what is behind them is forgotten *)
LEMMA DisksForgotten ==
  ASSUME DisksOK, \A l \in Loop : loop[l] = "free" => loop'[l] = "free",
         Forget \/ ForgetCorrupting
  PROVE  DisksOK'
<1>1. Remaining \in FsType /\ Remaining["none"] = Empty
  BY FilesApart DEF DisksOK, FsType, Remaining, Released, Empty
<1>2. Unlink
  BY DEF Forget, ForgetCorrupting
<1>3. /\ behind' \in [Loop -> File] /\ table' \in TableType /\ table'["none"] = Blank
      /\ \A l \in Loop : loop'[l] = "free" <=> behind'[l] = "none"
  BY <1>2, FilesApart DEF DisksOK, TableType, Unlink, Released, Blank
<1>4. fs' \in FsType /\ fs'["none"] = Empty
  <2>1. CASE Forget
    BY <1>1, <2>1 DEF Forget
  <2>2. CASE ForgetCorrupting
    BY <1>1, <2>2, FilesApart DEF ForgetCorrupting, FsType, Origin
  <2> QED
    BY <2>1, <2>2
<1> QED
  BY <1>3, <1>4 DEF DisksOK, FsType, TableType

(* a file comes behind a device that was free *)
LEMMA DisksAttached ==
  ASSUME DisksOK, loop \in LoopTable, NEW l \in Loop, NEW k \in {"card", "wic", "raspios"},
         Attach(l, k), NEW f \in File \ {"none"}, behind' = [behind EXCEPT ![l] = f],
         fs' \in FsType, fs'["none"] = Empty,
         table' \in TableType, table'["none"] = Blank
  PROVE  DisksOK'
  BY DEF DisksOK, FsType, TableType, Attach, LoopTable

(* a device that is attached keeps its file until it goes *)
LEMMA FileStaysBehind ==
  ASSUME Forget \/ ForgetCorrupting, NEW l \in Loop, loop'[l] # "free"
  PROVE  /\ behind'[l] = behind[l] /\ fs'[l] = fs[l] /\ table'[l] = table[l]
  BY FilesApart DEF Forget, ForgetCorrupting, Unlink, Remaining, Released

(* ... and the files that have names stay what they are *)
LEMMA NamedFilesStay ==
  ASSUME Forget, NEW f \in File \ Loop
  PROVE  fs'[f] = fs[f] /\ table'[f] = table[f]
  BY DEF Forget, Unlink, Remaining, Released
=============================================================================
