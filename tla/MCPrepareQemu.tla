---------------------------- MODULE MCPrepareQemu ----------------------------
(* PrepareQemu on small instances. *)
EXTENDS PrepareQemu, TLC

(* builds that lack nothing *)
Whole == [b \in Build |-> Features]

(* ... and builds that each lack something a line of the script needs       *)
Builds == {"whole", "no boot", "no rootfs", "big boot", "big rootfs", "no kernel"}
Lacks(b) ==
  CASE b = "whole" -> {}
    [] b = "no boot" -> {"boot"}         [] b = "no rootfs" -> {"rootfs"}
    [] b = "big boot" -> {"boot fits"}   [] b = "big rootfs" -> {"rootfs fits"}
    [] b = "no kernel" -> {"kernel8.img"}
Deficient == [b \in Build |-> Features \ Lacks(b)]

(* the deploy directory before a build, after one, after two *)
AnyDeploys == SUBSET Build

(* the deploy directory of a recipe that removes older images *)
SingleDeploys == {{b} : b \in Build}
SomeDeploys == SingleDeploys \cup {{}, {"whole", "no boot"}}

Symmetry == Permutations(Loop) \cup Permutations(Build)
LoopSymmetry == Permutations(Loop)

(* the state without what no guard and not the ends of the runs depend on:  *)
(* whose files the card holds, and the histories of the host                *)
EndsView == <<pc, host, behind, [fs EXCEPT !["card"] = Empty], table, work,
              loopdevice, yoctoImage, image, fetched, faults>>
=============================================================================
