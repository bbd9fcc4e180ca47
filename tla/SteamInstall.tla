---------------------------- MODULE SteamInstall ----------------------------
(***************************************************************************)
(* How steam gets on the phone and off again: steam.conf and the files of  *)
(* /system over many boots.  Stages 3 to 5 of steam_init_main() with       *)
(* convert_system() (init.c), the steam branches of recovery's main()      *)
(* (recovery.c) and what they call (oem.c), the menus that leave requests  *)
(* behind (steamext.c), and the end of steam_earlyinit_main(), which sends *)
(* the phone back to recovery while a request is pending.                  *)
(*                                                                         *)
(* Stages 6 and 7 are here as far as steam.conf is concerned: FsConvert    *)
(* has what they do to the files.  Power may be lost, and tools may fail,  *)
(* anywhere.                                                               *)
(***************************************************************************)
EXTENDS Naturals, FiniteSets

CONSTANTS
  NoType,       \* 0: no file system, or no setting
  NoFile,       \* the file is not there
  Short,        \* a steam.conf of less than 10 bytes
  Layouts,      \* the file systems a phone may come with
  Wants,        \* what fsreformat_menu() may be asked for, at one time
  Plugins,      \* the recovery plugins: pairs of a name and a place
  MaxRequests,  \* bound: what the user asks for in recovery's menus
  MaxMishaps    \* bound: power losses and failing tools

Types == {"rfs", "ext4", "loop"}   \* the last one is TYPE_RFS|TYPE_LOOP
Others == {"data", "dbdata", "cache"}
Volumes == Others \cup {"system"}
Flags == {"installation", "upgrade", "uninstallation"}
Places == {"system", "sdcard"}

ASSUME SteamAssumption ==
  /\ NoType \notin Types \cup {"bad"}
  /\ Layouts \subseteq [Volumes -> Types \cup {"bad"}]
  /\ \A l \in Layouts, v \in Others : l[v] # "bad"
  /\ Wants \subseteq [Volumes -> Types \cup {NoType}]
  /\ \A w \in Layouts \cup Wants : w["system"] # "loop"
  /\ Plugins \subseteq {"rec2e", "rec3e"} \X Places
  /\ MaxRequests \in Nat /\ MaxMishaps \in Nat

\* A steam.conf: steam.version, the flags, fs.*.convertto, fs.*.type, and whether
\* it has the settings the user made before this kernel came.
Confs == [version : {"old", "new"}, flags : SUBSET Flags,
          want : [Volumes -> Types \cup {NoType}],
          type : [Volumes -> Types \cup {"bad", NoType}],
          mine : BOOLEAN]
Files == Confs \cup {NoFile, Short}

ASSUME FilesAssumption == NoFile \notin Confs /\ Short \notin Confs

VARIABLES
  fs,          \* the file system on each volume; "bad" is an inconsistent rfs
  rom,         \* the main system's files on /system
  conf, old,   \* CONFIG_SYSTEM and CONFIG_SYSTEM.old, on /system
  save,        \* .syssave/save.tar on the SD card
  pc,          \* where the phone is
  recovery,    \* isrecovery
  mounted,     \* is /system mounted, or /tmp/sys in convert_system()?
  systype,     \* system_type
  target,      \* tofstype
  todo,        \* the volumes stage 6 has still to mount
  type,        \* cache_type, data_type, dbdata_type: what they are mounted as
  new,         \* newcache, newdata, newdbdata, or what filesystem_create() makes
  burnt,       \* history: do_steam_afterburner() ran since steam.conf was made
  cut,         \* history: a power loss took steam.installation, or came just before it
  again,       \* history: /system was converted while its files were not on it
  uninstalled, \* history: do_steam_uninstall() removed steam.conf, and no file system was made since
  unnoted,     \* history: formatted without set_conf(): power was lost, or no steam.conf in sight
  given,       \* history: the user gave the settings up, or a power loss took them
  requests, mishaps,   \* how many there were
  failed       \* history: the tools of a conversion that failed

system == <<rom, conf, old>>
disk == <<fs, system, save>>
ram == <<recovery, mounted, systype, target, todo, type, new>>
history == <<burnt, cut, again, uninstalled, unnoted, given>>
faults == <<mishaps, failed>>
vars == <<pc, ram, disk, history, requests, faults>>

NoWant == [v \in Volumes |-> NoType]
Nothing == [v \in Others |-> NoType]
NoSave == [whole |-> FALSE, rom |-> "none", conf |-> NoFile, old |-> NoFile]

\* What the kernel's own CONFIG_SBIN sets.
Fresh == [version |-> "new", flags |-> {}, want |-> NoWant, type |-> NoWant, mine |-> FALSE]

\* A phone without steam, with this one or with another version.
Init ==
  /\ fs \in Layouts
  /\ rom = "full"
  /\ conf \in {NoFile} \cup {[Fresh EXCEPT !.version = n, !.type = fs, !.mine = TRUE] : n \in {"old", "new"}}
  /\ old = NoFile /\ save = NoSave
  /\ pc = "stage3" /\ recovery = FALSE /\ mounted = FALSE
  /\ systype = NoType /\ target = NoType /\ todo = Others /\ type = Nothing /\ new = Nothing
  /\ burnt = TRUE /\ cut = FALSE /\ again = FALSE /\ uninstalled = FALSE /\ unnoted = {}
  /\ given = (conf = NoFile)
  /\ requests = 0 /\ mishaps = 0 /\ failed = {}

-----------------------------------------------------------------------------
Goto(p) == pc' = p
NoFault == UNCHANGED faults
Mishap == mishaps < MaxMishaps /\ mishaps' = mishaps + 1
Fault(k) == Mishap /\ failed' = failed \cup {k}
KeepHistory == UNCHANGED history
Keep == UNCHANGED <<history, requests>>

\* A reboot; the memory is forgotten.
Boot(rec) ==
  /\ Goto("stage3") /\ recovery' = rec /\ mounted' = FALSE
  /\ systype' = NoType /\ target' = NoType /\ todo' = Others /\ type' = Nothing /\ new' = Nothing

\* steam.conf can be seen, and has settings in it.
Seen == mounted /\ conf \in Confs
Flagged(f) == Seen /\ f \in conf.flags

\* set_conf(): nothing is stored where there is no steam.conf or no setting.
SetConf(c) == conf' = IF Seen THEN c ELSE conf
SetFlag(f) == SetConf([conf EXCEPT !.flags = @ \cup {f}])
\* fs.<volume>.convertto for the volumes that get one.
Want(w) == SetConf([conf EXCEPT !.want = [v \in Volumes |-> IF w[v] = NoType THEN @[v] ELSE w[v]]])
ClearFlag(f) == SetConf([conf EXCEPT !.flags = @ \ {f}])

(***************************************************************************)
(* Stage 3: everything to get /system mounted.                             *)
(***************************************************************************)
Stage3 ==
  /\ pc = "stage3"
  /\ systype' = fs["system"]
  /\ \/ fs["system"] = "bad" /\ Goto("fix_menu") /\ UNCHANGED mounted /\ NoFault
     \/ /\ fs["system"] # "bad" /\ Goto("stage4")
        /\ \/ mounted' = (fs["system"] # NoType) /\ NoFault
           \/ UNCHANGED mounted /\ Mishap /\ UNCHANGED failed
  /\ Keep /\ UNCHANGED <<recovery, target, todo, type, new, disk>>

\* convert_system(from, to) begins; it never returns.
Convert(to) ==
  /\ target' = to /\ mounted' = FALSE
  /\ again' = (again \/ rom # "full")
  /\ Goto("cs_mount_old")

\* "inconsistent rfs state, asking user to fix it"
FixConvert ==
  /\ pc = "fix_menu"
  /\ Convert("rfs")
  /\ UNCHANGED <<recovery, systype, todo, type, new, disk, burnt, cut, uninstalled, unnoted, given, requests, faults>>

FixMount ==
  /\ pc = "fix_menu"
  /\ \/ mounted' = TRUE /\ NoFault
     \/ UNCHANGED mounted /\ Mishap /\ UNCHANGED failed
  /\ Goto("stage4")
  /\ Keep /\ UNCHANGED <<recovery, systype, target, todo, type, new, disk>>

(***************************************************************************)
(* Stage 4: check for Steam.                                               *)
(***************************************************************************)
Stage4 ==
  /\ pc = "stage4"
  /\ Goto(CASE ~Seen -> "install_menu"
            [] Seen /\ conf.version # "new" -> "upgrade_menu"
            [] OTHER -> "save_type")
  /\ Keep /\ NoFault /\ UNCHANGED <<ram, disk>>

\* INSTALL_STEAM_NO and UPGRADE_STEAM_SKIP
Skip ==
  /\ pc \in {"install_menu", "upgrade_menu"}
  /\ Goto("save_type")
  /\ Keep /\ NoFault /\ UNCHANGED <<ram, disk>>

\* INSTALL_STEAM_YES and UPGRADE_STEAM_NO, which replaces the settings: "rm" ...
InstallRemove ==
  /\ pc \in {"install_menu", "upgrade_menu"}
  /\ conf' = IF mounted THEN NoFile ELSE conf
  /\ given' = (given \/ pc = "upgrade_menu")
  /\ Goto("install_copy")
  /\ NoFault /\ UNCHANGED <<ram, fs, rom, old, save, burnt, cut, again, uninstalled, unnoted, requests>>

\* ... "cp" ...
InstallCopy ==
  /\ pc = "install_copy"
  /\ conf' = IF mounted THEN Fresh ELSE conf
  /\ burnt' = (burnt /\ ~mounted)
  /\ uninstalled' = (uninstalled /\ ~mounted)
  /\ Goto("install_set")
  /\ NoFault /\ UNCHANGED <<ram, fs, rom, old, save, cut, again, unnoted, given, requests>>

\* ... set_conf("steam.installation", "1")
InstallSet ==
  /\ pc = "install_set"
  /\ SetFlag("installation")
  /\ Goto("save_type")
  /\ Keep /\ NoFault /\ UNCHANGED <<ram, fs, rom, old, save>>

\* UPGRADE_STEAM_YES: "rm steam.conf.old" ...
UpgradeRemove ==
  /\ pc = "upgrade_menu"
  /\ old' = NoFile
  /\ Goto("upgrade_move")
  /\ Keep /\ NoFault /\ UNCHANGED <<ram, fs, rom, conf, save>>

\* ... "mv steam.conf steam.conf.old" ...
UpgradeMove ==
  /\ pc = "upgrade_move"
  /\ old' = conf /\ conf' = NoFile
  /\ Goto("upgrade_cat")
  /\ Keep /\ NoFault /\ UNCHANGED <<ram, fs, rom, save>>

\* ... "cat": the kernel's settings first, then the old ones where they are not set.
\* Mutant: the old ones are forgotten.
UpgradeCatFresh ==
  /\ pc = "upgrade_cat"
  /\ conf' = Fresh /\ old' = NoFile
  /\ Goto("upgrade_set")
  /\ Keep /\ NoFault /\ UNCHANGED <<ram, fs, rom, save>>
UpgradeCat ==
  /\ pc = "upgrade_cat"
  /\ conf' = [old EXCEPT !.version = "new"]
  /\ Goto("upgrade_set")
  /\ Keep /\ NoFault /\ UNCHANGED <<ram, fs, rom, old, save>>

\* ... steam.old.* and steam.upgrade
UpgradeSet ==
  /\ pc = "upgrade_set"
  /\ SetFlag("upgrade")
  /\ Goto("save_type")
  /\ Keep /\ NoFault /\ UNCHANGED <<ram, fs, rom, old, save>>

SaveType ==
  /\ pc = "save_type"
  /\ SetConf([conf EXCEPT !.type["system"] = systype])
  /\ Goto("stage5")
  /\ Keep /\ NoFault /\ UNCHANGED <<ram, fs, rom, old, save>>

(***************************************************************************)
(* Stage 5: convert the filesystem on /system if needed.  The request is   *)
(* cleared before the user is asked.                                       *)
(***************************************************************************)
Stage5 ==
  /\ pc = "stage5"
  /\ target' = IF Seen THEN conf.want["system"] ELSE NoType
  /\ SetConf([conf EXCEPT !.want["system"] = NoType])
  /\ Goto(IF target' \in {NoType, systype} THEN "stage6" ELSE "confirm")
  /\ Keep /\ NoFault /\ UNCHANGED <<recovery, mounted, systype, todo, type, new, fs, rom, old, save>>

ConfirmYes ==
  /\ pc = "confirm"
  /\ Convert(target)
  /\ UNCHANGED <<recovery, systype, todo, type, new, disk, burnt, cut, uninstalled, unnoted, given, requests, faults>>

ConfirmNo ==
  /\ pc = "confirm"
  /\ Goto("stage6")
  /\ Keep /\ NoFault /\ UNCHANGED <<ram, disk>>

(***************************************************************************)
(* convert_system(): save /tmp/sys on the SD card, format it, restore it.  *)
(***************************************************************************)
\* What a tool that fails or a mount that fails leaves alone.
KeepConverting == Keep /\ UNCHANGED <<recovery, systype, target, todo, type, new>>

CsMountOld ==
  /\ pc = "cs_mount_old"
  /\ \/ mounted' = TRUE /\ NoFault
     \/ mounted' = FALSE /\ Fault("tool")
  /\ Goto("cs_space")
  /\ KeepConverting /\ UNCHANGED disk

\* The space is measured on the root file system, where /system is now, so it says
\* nothing of the backup: there is enough, or the file manager comes up, or all ends.
CsSpace ==
  /\ pc = "cs_space"
  /\ Goto("cs_remove")
  /\ KeepConverting /\ NoFault /\ UNCHANGED <<mounted, disk>>

CsNoSpace ==
  /\ pc = "cs_space"
  /\ Goto("cs_space") \/ Goto("halted")
  /\ KeepConverting /\ NoFault /\ UNCHANGED <<mounted, disk>>

\* "rm -rf .syssave"
CsRemove ==
  /\ pc = "cs_remove"
  /\ save' = NoSave
  /\ Goto("cs_backup")
  /\ KeepConverting /\ NoFault /\ UNCHANGED <<mounted, fs, system>>

\* "tar -cvpf": what is mounted is saved; "Continuing anyway..." when it fails.
CsBackup ==
  /\ pc = "cs_backup"
  /\ \/ /\ save' = [whole |-> TRUE, rom |-> IF mounted THEN rom ELSE "none",
                    conf |-> IF mounted THEN conf ELSE NoFile,
                    old |-> IF mounted THEN old ELSE NoFile]
        /\ NoFault
     \/ save' = [NoSave EXCEPT !.rom = "partial"] /\ Fault("tool")
  /\ mounted' = FALSE /\ Goto("cs_format")
  /\ KeepConverting /\ UNCHANGED <<fs, system>>

\* filesystem_format()
CsFormat ==
  /\ pc = "cs_format"
  /\ fs' = [fs EXCEPT !["system"] = NoType]
  /\ rom' = "none" /\ conf' = NoFile /\ old' = NoFile
  /\ Goto("cs_formatting")
  /\ KeepConverting /\ NoFault /\ UNCHANGED <<mounted, save>>

CsFormatted ==
  /\ pc = "cs_formatting"
  /\ fs' = [fs EXCEPT !["system"] = target]
  /\ Goto("cs_mount_new")
  /\ KeepConverting /\ NoFault /\ UNCHANGED <<mounted, system, save>>

CsFormatFails ==
  /\ pc \in {"cs_format", "cs_formatting"}
  /\ Fault("format")
  /\ Goto("cs_mount_new")
  /\ KeepConverting /\ UNCHANGED <<mounted, disk>>

\* Mutant: .syssave is removed before it is restored.
CsMountNewClean ==
  /\ pc = "cs_mount_new"
  /\ \/ mounted' = (fs["system"] = target) /\ NoFault
     \/ mounted' = FALSE /\ Fault("tool")
  /\ save' = [save EXCEPT !.rom = "none"]
  /\ Goto("cs_restore")
  /\ KeepConverting /\ UNCHANGED <<fs, system>>
CsMountNew ==
  /\ pc = "cs_mount_new"
  /\ \/ mounted' = (fs["system"] = target \/ (fs["system"] = "bad" /\ target = "rfs")) /\ NoFault
     \/ mounted' = FALSE /\ Fault("tool")
  /\ Goto("cs_restore")
  /\ KeepConverting /\ UNCHANGED disk

\* "tar -xvpf": begun ...
CsRestore ==
  /\ pc = "cs_restore"
  /\ rom' = IF mounted THEN "partial" ELSE rom
  /\ Goto("cs_restoring")
  /\ KeepConverting /\ NoFault /\ UNCHANGED <<mounted, fs, conf, old, save>>

\* ... done; without a mounted /tmp/sys the files go to the memory ...
CsRestored ==
  /\ pc = "cs_restoring" /\ save.whole
  /\ IF mounted
       THEN rom' = save.rom /\ conf' = save.conf /\ old' = save.old
       ELSE UNCHANGED system
  /\ Goto("cs_clean")
  /\ KeepConverting /\ NoFault /\ UNCHANGED <<mounted, fs, save>>

\* ... or failed: the file manager, or, where that is not allowed, the end.
CsRestoreFails ==
  /\ pc = "cs_restoring"
  /\ \/ save.whole /\ Fault("tool")
     \/ ~save.whole /\ NoFault
  /\ \/ Goto("cs_clean") /\ UNCHANGED save
     \/ Goto("halted") /\ save' = NoSave
  /\ KeepConverting /\ UNCHANGED <<mounted, fs, system>>

\* "rm -rf .syssave", reboot_recovery()
CsClean ==
  /\ pc = "cs_clean"
  /\ save' = NoSave
  /\ Boot(TRUE)
  /\ Keep /\ NoFault /\ UNCHANGED <<fs, system>>

(***************************************************************************)
(* Stage 6: mount_from_config_or_autodetect() for one volume after the     *)
(* other.  The type in the settings is believed if the volume mounts under *)
(* it, as the base of a loop image does without the image.                 *)
(***************************************************************************)
Before(u, v) == u = "cache" \/ (u = "data" /\ v = "dbdata")
FirstOf(S, v) == v \in S /\ \A u \in S \ {v} : Before(v, u)

MountsAs(t) == IF t = "rfs" THEN {"rfs", "loop"} ELSE {t}
NoteType(v, t) == SetConf([conf EXCEPT !.type[v] = t])

\* The settings are right about v again.
Settle(v) == unnoted' = IF Seen /\ conf'.type[v] = fs[v] THEN unnoted \ {v} ELSE unnoted

KeepMost == UNCHANGED <<recovery, mounted, systype, target, rom, old, save, burnt, cut, again, given, requests>>

Stage6Mount(v) ==
  /\ pc = "stage6" /\ FirstOf(todo, v) /\ fs[v] # NoType
  /\ IF Seen /\ fs[v] \in MountsAs(conf.type[v])
       THEN type' = [type EXCEPT ![v] = conf.type[v]] /\ UNCHANGED conf
       ELSE type' = [type EXCEPT ![v] = fs[v]] /\ NoteType(v, fs[v])
  /\ todo' = todo \ {v} /\ Settle(v)
  /\ KeepMost /\ NoFault /\ UNCHANGED <<pc, new, fs, uninstalled>>

\* The mount fails, the type is found and noted, and the second mount fails or not.
Stage6Fails(v) ==
  /\ pc = "stage6" /\ FirstOf(todo, v) /\ fs[v] # NoType
  /\ Mishap /\ UNCHANGED failed
  /\ \E t \in {NoType, fs[v]} : type' = [type EXCEPT ![v] = t]
  /\ NoteType(v, fs[v])
  /\ todo' = todo \ {v} /\ Settle(v)
  /\ KeepMost /\ UNCHANGED <<pc, new, fs, uninstalled>>

\* filesystem_create(): no file system is found.
NotFound(v) ==
  /\ pc = "stage6" /\ FirstOf(todo, v)
  /\ \/ fs[v] = NoType /\ NoFault
     \/ fs[v] # NoType /\ Mishap /\ UNCHANGED failed

CreateNothing(v) ==
  /\ NotFound(v)
  /\ todo' = todo \ {v}
  /\ KeepMost /\ UNCHANGED <<pc, type, new, fs, conf, uninstalled, unnoted>>

Create(v, t) ==
  /\ NotFound(v)
  /\ new' = [new EXCEPT ![v] = t] /\ uninstalled' = FALSE
  /\ Goto("fs_convert")
  /\ KeepMost /\ UNCHANGED <<todo, type, fs, conf, unnoted>>

(***************************************************************************)
(* Stage 7.  The requests are read and cleared; one for the type a volume  *)
(* is mounted as is dropped, and newdbdata is compared with data_type.     *)
(***************************************************************************)
Same(v) == type[IF v = "dbdata" THEN "data" ELSE v]

Stage7 ==
  /\ pc = "stage6" /\ todo = {}
  /\ new' = [v \in Others |-> IF Seen /\ conf.want[v] # Same(v) THEN conf.want[v] ELSE NoType]
  /\ SetConf([conf EXCEPT !.want = [v \in Volumes |-> IF v \in Others THEN NoType ELSE @[v]]])
  /\ Goto(IF new' = Nothing THEN "start" ELSE "fs_menu")
  /\ Keep /\ NoFault /\ UNCHANGED <<recovery, mounted, systype, target, todo, type, fs, rom, old, save>>

\* convert_filesystems(): cancelled, or stopped by a failing backup ...
FsCancel ==
  /\ pc = "fs_menu"
  /\ NoFault \/ (Mishap /\ UNCHANGED failed)
  /\ Goto("start") /\ new' = Nothing
  /\ Keep /\ UNCHANGED <<recovery, mounted, systype, target, todo, type, disk>>

\* ... or one volume after the other that is not of the new type already.
FsAgree ==
  /\ pc = "fs_menu"
  /\ new' = [v \in Others |-> IF new[v] = type[v] THEN NoType ELSE new[v]]
  /\ Goto("fs_convert")
  /\ Keep /\ NoFault /\ UNCHANGED <<recovery, mounted, systype, target, todo, type, disk>>

\* filesystem_format(): meanwhile there is nothing to mount, or the base of a loop image.
Plain(t) == IF t = "loop" THEN "rfs" ELSE t
Formatting(v) == FirstOf({u \in Others : new[u] # NoType}, v)

FsFormat(v) ==
  /\ pc = "fs_convert" /\ Formatting(v)
  /\ \E t \in {NoType, Plain(new[v])} : fs' = [fs EXCEPT ![v] = t]
  /\ Goto("fs_formatting")
  /\ Keep /\ NoFault /\ UNCHANGED <<ram, system, save>>

FsFormatted(v) ==
  /\ pc = "fs_formatting" /\ Formatting(v)
  /\ fs' = [fs EXCEPT ![v] = new[v]]
  /\ Goto("fs_set")
  /\ Keep /\ NoFault /\ UNCHANGED <<ram, system, save>>

FsFormatFails(v) ==
  /\ pc \in {"fs_convert", "fs_formatting"} /\ Formatting(v)
  /\ Fault("mkfs")
  /\ Goto("fs_set")
  /\ Keep /\ UNCHANGED <<ram, disk>>

\* check_and_mount(), which may fail, and set_conf(), whether or not mkfs worked; then
\* the rest of stage 6, or of the conversion.
FsSet(v) ==
  /\ pc = "fs_set" /\ Formatting(v)
  /\ NoteType(v, new[v])
  /\ unnoted' = IF ~Seen THEN unnoted \cup {v} ELSE IF fs[v] = new[v] THEN unnoted \ {v} ELSE unnoted
  /\ \/ NoFault /\ type' = [type EXCEPT ![v] = IF fs[v] \in MountsAs(new[v]) THEN new[v] ELSE NoType]
     \/ v \in todo /\ Mishap /\ UNCHANGED failed /\ type' = [type EXCEPT ![v] = NoType]
  /\ new' = [new EXCEPT ![v] = NoType] /\ todo' = todo \ {v}
  /\ Goto(IF v \in todo THEN "stage6" ELSE "fs_convert")
  /\ KeepMost /\ UNCHANGED <<fs, uninstalled>>

FsConverted ==
  /\ pc = "fs_convert" /\ new = Nothing
  /\ Goto("start")
  /\ Keep /\ NoFault /\ UNCHANGED <<ram, disk>>

\* Stage 8: init.
Start ==
  /\ pc = "start"
  /\ Goto(IF recovery THEN "recovery" ELSE "android")
  /\ systype' = NoType /\ target' = NoType /\ type' = Nothing
  /\ Keep /\ NoFault /\ UNCHANGED <<recovery, mounted, todo, new, disk>>

\* steam_earlyinit_main(): once Android is up, requests send the phone to recovery.
EarlyInit ==
  /\ pc = "android" /\ rom = "full"
  /\ \E f \in Flags : Flagged(f)
  /\ Boot(TRUE)
  /\ Keep /\ NoFault /\ UNCHANGED disk

(***************************************************************************)
(* Recovery's main(): do_steam_install_fromcache(), if there is a command. *)
(***************************************************************************)
RecoveryMain ==
  /\ pc = "recovery"
  /\ Goto("fromcache") \/ Goto("install")
  /\ Keep /\ NoFault /\ UNCHANGED <<ram, disk>>

\* has_rec2e and has_rec3e: 2 when the SD card has it, 1 when /system has it.
Has(p) == IF <<p, "sdcard">> \in Plugins THEN 2
          ELSE IF <<p, "system">> \in Plugins /\ mounted THEN 1 ELSE 0

\* No plugin, GO_BACK or OEM_RECOVERY_STEAM.
NoPlugin ==
  /\ pc = "fromcache"
  /\ Goto("install")
  /\ Keep /\ NoFault /\ UNCHANGED <<ram, disk>>

\* /sbin/recovery is replaced and executed.  Where the copy comes from is decided by
\* has_rec2e for both plugins; if it is not there nothing is executed.
RunPlugin(p) ==
  /\ pc = "fromcache" /\ Has(p) # 0
  /\ LET from == IF Has("rec2e") = 1 THEN "system" ELSE "sdcard"
     IN  IF <<p, from>> \in Plugins THEN Goto("plugin") /\ UNCHANGED ram ELSE Boot(TRUE)
  /\ Keep /\ NoFault /\ UNCHANGED disk

(***************************************************************************)
(* do_steam_install(), do_steam_upgrade() and do_steam_uninstall().        *)
(***************************************************************************)
\* A volume or the SD card that does not mount leaves the request for the next boot.
\* Mutant: the request is cleared before do_steam_afterburner() runs.
InstallMountsClear ==
  /\ pc = "install"
  /\ \/ ~Flagged("installation") /\ Goto("upgrade") /\ NoFault /\ UNCHANGED conf
     \/ Flagged("installation") /\ Goto("afterburner") /\ NoFault /\ ClearFlag("installation")
     \/ Flagged("installation") /\ Goto("upgrade") /\ Mishap /\ UNCHANGED failed /\ UNCHANGED conf
  /\ Keep /\ UNCHANGED <<ram, fs, rom, old, save>>
InstallMounts ==
  /\ pc = "install"
  /\ \/ ~Flagged("installation") /\ Goto("upgrade") /\ NoFault
     \/ Flagged("installation") /\ Goto("afterburner") /\ NoFault
     \/ Flagged("installation") /\ Goto("upgrade") /\ Mishap /\ UNCHANGED failed
  /\ Keep /\ UNCHANGED <<ram, disk>>

\* do_steam_afterburner(): no archive, the user's choice, or commands, of which
\* "setconf" may ask for conversions.  Its result is not looked at.
Afterburner ==
  /\ pc = "afterburner"
  /\ \/ UNCHANGED conf
     \/ \E w \in Wants : Want(w)
  /\ burnt' = TRUE
  /\ Goto("install_clear")
  /\ NoFault /\ UNCHANGED <<ram, fs, rom, old, save, cut, again, uninstalled, unnoted, given, requests>>

\* Mutant: nor is the request cleared.
InstallClearNot ==
  /\ pc = "install_clear"
  /\ Boot(TRUE)
  /\ Keep /\ NoFault /\ UNCHANGED disk
InstallClear ==
  /\ pc = "install_clear"
  /\ ClearFlag("installation")
  /\ Boot(TRUE)
  /\ Keep /\ NoFault /\ UNCHANGED <<fs, rom, old, save>>

DoUpgrade ==
  /\ pc = "upgrade"
  /\ ClearFlag("upgrade")
  /\ Goto("uninstall")
  /\ Keep /\ NoFault /\ UNCHANGED <<ram, fs, rom, old, save>>

AllRfs == \A v \in Volumes : conf.type[v] = "rfs"

NoUninstall ==
  /\ pc = "uninstall" /\ ~Flagged("uninstallation")
  /\ Goto("menu")
  /\ Keep /\ NoFault /\ UNCHANGED <<ram, disk>>

\* "fs should be rfs"
UninstallConvert ==
  /\ pc = "uninstall" /\ Flagged("uninstallation") /\ ~AllRfs
  /\ Want([v \in Volumes |-> "rfs"])
  /\ Boot(TRUE)
  /\ Keep /\ NoFault /\ UNCHANGED <<fs, rom, old, save>>

\* "remove config"
\* Mutant: whatever the file systems are.
UninstallRemoveAny ==
  /\ pc = "uninstall" /\ Flagged("uninstallation")
  /\ conf' = NoFile /\ uninstalled' = TRUE /\ given' = TRUE
  /\ Boot(TRUE)
  /\ NoFault /\ UNCHANGED <<fs, rom, old, save, burnt, cut, again, unnoted, requests>>
UninstallRemove ==
  /\ pc = "uninstall" /\ Flagged("uninstallation") /\ AllRfs
  /\ conf' = NoFile /\ uninstalled' = TRUE /\ given' = TRUE
  /\ Boot(TRUE)
  /\ NoFault /\ UNCHANGED <<fs, rom, old, save, burnt, cut, again, unnoted, requests>>

(***************************************************************************)
(* The user: recovery's menus, a reboot, and power losses.                 *)
(***************************************************************************)
Request == pc = "menu" /\ requests < MaxRequests /\ requests' = requests + 1

\* fsreformat_menu(), or an afterburner archive chosen in the menu.
RequestConversion(w) ==
  /\ Request
  /\ Want(w)
  /\ KeepHistory /\ NoFault /\ UNCHANGED <<pc, ram, fs, rom, old, save>>

\* STEAM_ABOUT_UNINSTALL
\* Mutant: another key.
RequestUninstallKey ==
  /\ Request
  /\ SetFlag("uninstall")
  /\ KeepHistory /\ NoFault /\ UNCHANGED <<pc, ram, fs, rom, old, save>>
RequestUninstall ==
  /\ Request
  /\ SetFlag("uninstallation")
  /\ KeepHistory /\ NoFault /\ UNCHANGED <<pc, ram, fs, rom, old, save>>

UserBoot(rec) ==
  /\ pc \in {"menu", "android", "plugin", "halted"}
  /\ Boot(rec)
  /\ Keep /\ NoFault /\ UNCHANGED disk

\* Where set_conf() or "cp" is at work the file may be cut short.
Writing == pc \in {"install_copy", "install_set", "upgrade_cat", "upgrade_set", "save_type",
                   "stage5", "stage6", "fs_set", "afterburner", "install_clear",
                   "upgrade", "uninstall", "menu"}

\* ... before anything is in it, or after the kernel's own lines, which are the first.
Torn == {Short} \cup (IF pc = "upgrade_cat" THEN {Fresh} ELSE {})
                \cup (IF Seen THEN {[Fresh EXCEPT !.version = conf.version]} ELSE {})

PowerLoss ==
  /\ Mishap /\ UNCHANGED failed
  /\ Boot(FALSE)
  /\ \/ UNCHANGED <<conf, given>>
     \/ Writing /\ mounted /\ (Seen \/ pc \in {"install_copy", "upgrade_cat"})
        /\ conf' \in Torn /\ given' = (given \/ pc # "upgrade_cat")
  /\ LET asked == Flagged("installation") \/ (pc = "install_set" /\ mounted)
     IN  cut' = (cut \/ (asked /\ conf' \in Confs /\ "installation" \notin conf'.flags))
  /\ unnoted' = IF pc \in {"fs_formatting", "fs_set"} THEN unnoted \cup {v \in Others : Formatting(v)} ELSE unnoted
  /\ UNCHANGED <<fs, rom, old, save, burnt, again, uninstalled, requests>>

-----------------------------------------------------------------------------
Stages == Stage3 \/ Stage4 \/ InstallCopy \/ InstallSet
          \/ UpgradeMove \/ UpgradeCat \/ UpgradeSet \/ SaveType \/ Stage5
          \/ Stage7 \/ FsConverted \/ Start \/ EarlyInit
          \/ \E v \in Others : Stage6Mount(v) \/ Stage6Fails(v) \/ FsFormat(v) \/ FsFormatted(v)
                               \/ FsFormatFails(v) \/ FsSet(v)
Converting == CsMountOld \/ CsSpace \/ CsNoSpace \/ CsRemove \/ CsBackup \/ CsFormat \/ CsFormatted
              \/ CsFormatFails \/ CsMountNew \/ CsRestore \/ CsRestored \/ CsRestoreFails
              \/ CsClean
RecoverySteps == RecoveryMain \/ InstallMounts \/ InstallClear \/ DoUpgrade
                 \/ NoUninstall \/ UninstallConvert \/ UninstallRemove \/ Afterburner

\* What the user answers.
Answers == FixConvert \/ FixMount \/ Skip \/ InstallRemove \/ UpgradeRemove
           \/ ConfirmYes \/ ConfirmNo \/ FsCancel \/ FsAgree
           \/ \E v \in Others : CreateNothing(v) \/ \E t \in {"rfs", "ext4"} : Create(v, t)
           \/ NoPlugin \/ \E p \in {"rec2e", "rec3e"} : RunPlugin(p)
Asks == RequestUninstall \/ \E w \in Wants : RequestConversion(w)
Boots == \E rec \in BOOLEAN : UserBoot(rec)

Next == Stages \/ Converting \/ RecoverySteps \/ Answers \/ Asks \/ Boots \/ PowerLoss

\* The processor goes on; a menu is answered and a phone that waits for its user is
\* booted again, and now and then given the time to come up.  Somebody who keeps being
\* asked agrees in the end, and an SD card that is found too small is made to fit.
Fairness ==
  /\ WF_vars(Stages \/ Converting \/ RecoverySteps \/ Answers \/ Boots)
  /\ SF_vars(EarlyInit)
  /\ SF_vars(ConfirmYes) /\ SF_vars(FsAgree) /\ SF_vars(NoPlugin) /\ SF_vars(CsSpace)

Spec == Init /\ [][Next]_vars
FairSpec == Spec /\ Fairness

-----------------------------------------------------------------------------
Pcs == {"stage3", "fix_menu", "stage4", "install_menu", "upgrade_menu", "install_copy",
        "install_set", "upgrade_move", "upgrade_cat", "upgrade_set", "save_type", "stage5",
        "confirm", "cs_mount_old", "cs_space", "cs_remove", "cs_backup", "cs_format",
        "cs_formatting", "cs_mount_new", "cs_restore", "cs_restoring", "cs_clean", "halted",
        "stage6", "fs_menu", "fs_convert", "fs_formatting", "fs_set", "start", "android", "recovery",
        "fromcache", "plugin", "install", "afterburner", "install_clear", "upgrade",
        "uninstall", "menu"}
Amounts == {"full", "partial", "none"}

DiskTypes ==
  /\ fs \in [Volumes -> Types \cup {"bad", NoType}] /\ rom \in Amounts
  /\ conf \in Files /\ old \in Files
  /\ save \in [whole : BOOLEAN, rom : Amounts, conf : Files, old : Files]

RamTypes ==
  /\ pc \in Pcs /\ recovery \in BOOLEAN /\ mounted \in BOOLEAN
  /\ systype \in Types \cup {"bad", NoType} /\ target \in Types \cup {NoType}
  /\ todo \subseteq Others /\ type \in [Others -> Types \cup {"bad", NoType}]
  /\ new \in [Others -> Types \cup {NoType}]

\* Type invariant of the phone.
TypeOK == DiskTypes /\ RamTypes /\ unnoted \subseteq Others /\ requests \in Nat /\ mishaps \in Nat

\* A tool of convert_system() failed, which "continues anyway", or /system was
\* converted again after a conversion that power loss had cut short.
SystemForsaken == again \/ failed \cap {"tool", "format"} # {}

\* The main system's files are never lost: whenever power goes during
\* convert_system(), they are on /system or in a complete save.tar, which nothing
\* removes but the end of the conversion or the start of another one.
SystemKept == rom = "full" \/ (save.whole /\ save.rom = "full") \/ SystemForsaken

Mine(file) == file \in Confs /\ file.mine

\* The user's settings outlive an upgrade of the kernel, a conversion of /system and
\* power losses in both: they are in steam.conf, in steam.conf.old or in save.tar
\* until the user gives them up, or power is lost while set_conf() writes the file.
SettingsKept ==
  Mine(conf) \/ Mine(old) \/ (save.whole /\ (Mine(save.conf) \/ Mine(save.old))) \/ given \/ SystemForsaken

\* do_steam_uninstall() leaves a phone that a kernel without steam can run: every
\* volume is rfs, although only the settings are looked at; a failing mkfs apart, and
\* a volume that was formatted without its type getting into the settings: power was
\* lost before set_conf(), or steam.conf could not be seen.
UninstallSafe ==
  uninstalled =>
    \/ failed \cap {"format", "mkfs"} # {}
    \/ \A v \in Volumes : fs[v] = "rfs" \/ v \in unnoted

\* An installation is not skipped: a steam.conf without the request for it is one
\* for which do_steam_afterburner() ran, however often power was lost; unless that
\* was between the copy of the file and the set_conf() in stage 4, or in the middle
\* of a set_conf() that wrote the file with the request.
InstallNotSkipped ==
  conf \in Confs /\ "installation" \notin conf.flags /\ pc # "install_set" => burnt \/ cut

Pending == conf \in Confs /\ conf.flags # {}
Stuck == pc = "uninstall" /\ Seen /\ conf.type["data"] = "rfs" /\ conf.type["dbdata"] # "rfs"

\* What was asked for comes to its end, over as many reboots as it takes: no request
\* to install, upgrade or uninstall stays for ever, except an uninstallation for which
\* the conversion of /dbdata is dropped because /data is rfs already.
RequestsServed == Pending ~> (~Pending \/ rom # "full" \/ Stuck)

\* "The device might reboot multiple times" (STEAM_ABOUT_UNINSTALL_OK), but the
\* uninstallation comes to its end, whatever the file systems are.
UninstallEnds == Pending ~> (~Pending \/ rom # "full")
=============================================================================
