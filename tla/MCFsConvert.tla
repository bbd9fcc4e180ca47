---------------------------- MODULE MCFsConvert ----------------------------
(***************************************************************************)
(* Model-checking instance of FsConvert: ext2, ext4, whose driver mounts   *)
(* ext2 as well, and a loop image on ext2.                                 *)
(***************************************************************************)
EXTENDS FsConvert

MCTypes == {"ext2", "ext4", "loop"}
MCMountsAs == [t \in MCTypes |->
  CASE t = "ext2" -> {"ext2", "loop"} [] t = "ext4" -> MCTypes [] t = "loop" -> {"loop"}]
MCPlain == [t \in MCTypes |-> IF t = "ext4" THEN "ext4" ELSE "ext2"]

Layout(c, d, b) == [v \in Volumes |-> CASE v = "cache" -> c [] v = "data" -> d [] v = "dbdata" -> b]
MCLayouts == [Volumes -> MCTypes]
MCRequests == {Layout("ext2", "loop", "ext4"), Layout("ext4", None, "ext2"), Layout(None, "ext4", "loop")}
=============================================================================
