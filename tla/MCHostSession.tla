---------------------------- MODULE MCHostSession ----------------------------
(* HostSession on small instances. *)
EXTENDS HostSession, TLC

OneDeploy == {Build}

(* builds and releases with all that either script needs of an image *)
Whole == [x \in Build \cup Image |-> Features]

Symmetry == Permutations(Loop)

(* line 14 has grown the releases before; the mount point may be missing;   *)
(* cfdisk is used as line 18 asks                                           *)
MCInit == Init /\ size = [i \in Image |-> "4G"]
BothMade == pc = 22 => table'["card"]["rootfs"] = "raw" \/ UNCHANGED pc

(* a run that lost its device is followed to its end, and the other run     *)
(* with it; no run is started on the damage                                 *)
NotOnDamage == (pc = 0 /\ pc' # 0) \/ (rpc = 0 /\ rpc' # 0) => lost = {}
MCSpec == MCInit /\ [][Next /\ BothMade /\ NotOnDamage]_vars

(* the state without the histories that no action and no property here      *)
(* reads, and without the two copied files before a run overwrites them     *)
Forgetting == <<pc, rpc, loop, mounts, disks, img, bz2, torn, wic,
  loopdevice, yoctoImage, pimage, fetched, mounts0, images, size, directory,
  raspiosImage, image, IF rpc > 20 THEN dtb ELSE "old",
  IF rpc > 21 THEN kernel ELSE "old", rmounts0["raspios/boot"], swept, lost, early>>
=============================================================================
