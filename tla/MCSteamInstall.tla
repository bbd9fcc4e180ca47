-------------------------- MODULE MCSteamInstall --------------------------
(***************************************************************************)
(* Model-checking instances of SteamInstall: one plugin on /system, the    *)
(* other one on the SD card.                                               *)
(***************************************************************************)
EXTENDS SteamInstall

Layout(sys, data, dbdata) ==
  [v \in Volumes |-> CASE v = "system" -> sys [] v = "dbdata" -> dbdata [] OTHER -> data]
MCLayouts == {Layout("bad", "rfs", "rfs"), Layout("rfs", "rfs", "ext4")}
MCLayout == {Layout("rfs", "rfs", "ext4")}
MCWant == {Layout("ext4", "loop", "ext4")}
MCPlugins == {<<"rec2e", "system">>, <<"rec3e", "sdcard">>}
=============================================================================
