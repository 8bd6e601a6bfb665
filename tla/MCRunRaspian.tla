---------------------------- MODULE MCRunRaspian ----------------------------
(* RunRaspian on small instances. *)
EXTENDS RunRaspian, TLC

(* a whole release, and releases that each lack something a line needs *)
Releases == {"whole", "no boot", "no dtb", "no kernel"}
Lacks(i) ==
  CASE i = "whole" -> {}         [] i = "no boot" -> {"boot"}
    [] i = "no dtb" -> {"b.dtb"} [] i = "no kernel" -> {"kernel8.img"}
Deficient == [i \in Image |-> Features \ Lacks(i)]

Symmetry == Permutations(Loop)
=============================================================================
