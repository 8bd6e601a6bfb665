-------------------------------- MODULE Host --------------------------------
(***************************************************************************)
(* The two tables of the host kernel that the launch scripts of            *)
(* 06_yocto_qemu share: the loop devices (losetup) and the mounts.         *)
(* Neither is private to a run of a script: what a run leaves behind, the  *)
(* next one finds.                                                         *)
(***************************************************************************)
EXTENDS Naturals, Sequences

CONSTANT Loop       \* the loop devices, e.g. /dev/loop0

ASSUME LoopAssumption == "none" \notin Loop

VARIABLES loop,     \* loop[l]: the kind of image attached to l, or "free"
          mounts    \* mounts[m]: the loop devices whose partition is mounted
                    \* on directory m, the visible one last

Dir == {"mnt/boot", "mnt/rootfs", "yoctomnt/boot", "yoctomnt/rootfs",
        "raspios/boot"}

AllFree == [l \in Loop |-> "free"]
NoMounts == [m \in Dir |-> <<>>]

(* "closing": asked to go while a partition of it was still mounted *)
LoopTable == [Loop -> {"free", "card", "wic", "raspios", "closing"}]
MountTable == [Dir -> Seq(Loop)]

NoFreeLoop == \A l \in Loop : loop[l] # "free"

Uses(table, l) == \E m \in Dir : \E i \in DOMAIN table[m] : table[m][i] = l
InUse(l) == Uses(mounts, l)

(* losetup --show --partscan -f FILE: some free device, chosen by the kernel *)
Attach(l, kind) == /\ loop[l] = "free"
                   /\ loop' = [loop EXCEPT ![l] = kind]

(* losetup -d DEVICE: at once, or with the last mount of a partition of it *)
Gone(l) == IF InUse(l) THEN "closing" ELSE "free"
Detach(l) == /\ loop[l] # "free"
             /\ loop' = [loop EXCEPT ![l] = Gone(l)]

(* losetup -D *)
DetachAll == loop' = [l \in Loop |-> IF loop[l] = "free" THEN "free" ELSE Gone(l)]

(* mount DEVICEpN DIR: a mount covers an older one on the same directory *)
Mount(l, m) == /\ loop[l] # "free"
               /\ mounts' = [mounts EXCEPT ![m] = Append(@, l)]

(* umount DIR: the newest mount of the directory goes, and with the last   *)
(* mount of a closing device the device                                    *)
Umount(m) ==
  /\ mounts[m] # <<>>
  /\ mounts' = [mounts EXCEPT ![m] = SubSeq(@, 1, Len(@) - 1)]
  /\ loop' = [l \in Loop |-> IF loop[l] = "closing" /\ ~Uses(mounts', l)
                             THEN "free" ELSE loop[l]]

Mounted(m) == mounts[m] # <<>>
Visible(m) == mounts[m][Len(mounts[m])]
=============================================================================
