------------------------- MODULE SteamInstallProofs -------------------------
(***************************************************************************)
(* Proofs about SteamInstall, for every layout of the phone, any number of *)
(* requests, boots, power losses and failing tools.                        *)
(***************************************************************************)
EXTENDS SteamInstall, TLAPS

\* The types of the history variables.
HistoryTypes ==
  /\ burnt \in BOOLEAN /\ cut \in BOOLEAN /\ again \in BOOLEAN
  /\ uninstalled \in BOOLEAN /\ unnoted \subseteq Others /\ given \in BOOLEAN
  /\ failed \subseteq {"tool", "format", "mkfs"}

\* Type correctness is inductive once it is known that an upgrade in stage 4 has a
\* settings file of another version in hand.
Upgrading ==
  /\ pc \in {"upgrade_menu", "upgrade_move"} => mounted /\ conf \in Confs /\ conf.version = "old"
  /\ pc = "upgrade_cat" => mounted /\ conf = NoFile /\ old \in Confs /\ old.version = "old"

TypeInv == DiskTypes /\ RamTypes /\ requests \in Nat /\ mishaps \in Nat /\ HistoryTypes /\ Upgrading

\* The two halves of convert_system(), and its end.
Saving == {"cs_mount_old", "cs_space", "cs_remove", "cs_backup"}
Restoring == {"cs_format", "cs_formatting", "cs_mount_new", "cs_restore", "cs_restoring"}
CsPcs == Saving \cup Restoring \cup {"cs_clean"}

SavedWhole == save.whole /\ save.rom = "full"

\* Inductive invariant of SystemKept: where the main system's files are at each step of
\* convert_system(), unless the system is forsaken.  Each step's test of the one before
\* is missing from the code ("Continuing anyway..."), so the order carries the property.
KeptInv ==
  SystemForsaken \/
    /\ rom = "full" \/ SavedWhole
    /\ pc \in Saving \cup {"cs_clean"} => rom = "full"
    /\ pc \in Saving \ {"cs_mount_old"} => mounted
    /\ pc \in Restoring => SavedWhole
    /\ pc = "cs_mount_new" => fs["system"] = target
    /\ pc \in {"cs_restore", "cs_restoring"} => mounted

\* The user's settings are on /system; in the backup; a file of another version is the user's.
Here == Mine(conf) \/ Mine(old)
SavedMine == save.whole /\ (Mine(save.conf) \/ Mine(save.old))
Theirs(file) == file \in Confs /\ file.version = "old" => file.mine

\* Inductive invariant of SettingsKept: the settings are where the main system's files
\* are.  INSTALL_STEAM_YES is only offered where there are none, and "rm" has removed
\* nothing else when "cp" puts the kernel's own in place.
MineInv ==
  given \/ SystemForsaken \/
    /\ rom = "full" => Here
    /\ rom # "full" \/ pc \in Restoring => SavedMine
    /\ Theirs(conf) /\ Theirs(save.conf)
    /\ pc = "install_menu" => ~Seen
    /\ pc = "install_copy" /\ mounted => conf = NoFile

\* A settings file that asks for no installation, or will not once it is upgraded.
Unasked(file) == file \in Confs /\ "installation" \notin file.flags
Unburnt(file) == Unasked(file) \/ (file \in Confs /\ file.version = "old")

\* Inductive invariant of InstallNotSkipped: without an afterburner since the file was
\* made, it asks for one, unless it is just being made; nor does a backup lack it.
BurntInv ==
  /\ pc = "install_copy" /\ mounted => conf = NoFile
  /\ pc = "install_set" /\ mounted => conf = Fresh
  /\ pc = "install_clear" => burnt
  /\ burnt \/ cut \/
     /\ Unburnt(conf) => pc = "install_set" /\ mounted
     /\ pc # "upgrade_cat"
     /\ pc \in Restoring => ~Unburnt(save.conf)

\* Where fs.system.type is what is on /system: from stage 5 on.
MkfsFailed == failed \cap {"format", "mkfs"} # {}
Stage4Pcs == {"fix_menu", "stage4", "install_menu", "upgrade_menu", "install_copy", "install_set",
  "upgrade_move", "upgrade_cat", "upgrade_set", "save_type"}
Stage5Pcs == {"stage5", "confirm", "stage6", "fs_menu", "fs_convert", "fs_formatting", "fs_set",
  "start", "android", "recovery", "fromcache", "plugin", "install", "afterburner", "install_clear",
  "upgrade", "uninstall", "menu"}

\* Inductive invariant: stage 3 finds out what is on /system, and stage 4 notes it.
SystemInv ==
  /\ pc \in Stage4Pcs => systype = fs["system"]
  /\ Seen /\ pc \in Stage5Pcs => conf.type["system"] = fs["system"]

\* While a volume is being formatted, until set_conf() notes its type.
BusyPcs == {"fs_formatting", "fs_set"}

\* A settings file says nothing of a volume, or what is on it, unless it was formatted
\* in between.
Right(file) ==
  file \in Confs => \A v \in Others : \/ file.type[v] \in {NoType, fs[v]}
                                      \/ v \in unnoted
                                      \/ pc \in BusyPcs /\ Formatting(v)

\* Inductive invariant: a settings file that is, or will be, steam.conf is right.
NotedInv ==
  MkfsFailed \/
    /\ Right(conf)
    /\ pc = "upgrade_cat" => Right(old)
    /\ pc \in Restoring => Right(save.conf)
    /\ pc = "fs_set" => \A v \in Others : Formatting(v) => fs[v] = new[v]

\* Inductive invariant of UninstallSafe: after do_steam_uninstall() nothing is left that
\* could start a conversion.
Closed == {"fix_menu", "confirm", "upgrade_menu", "upgrade_move", "upgrade_cat"}
Gone ==
  /\ fs["system"] = "rfs"
  /\ \A v \in Others : fs[v] = "rfs" \/ v \in unnoted
  /\ conf \notin Confs
  /\ new = Nothing
  /\ pc \notin CsPcs \cup Closed
UninstallInv == uninstalled => MkfsFailed \/ Gone

\* set_conf() changes a settings file into one.
LEMMA Updates ==
  ASSUME NEW c \in Confs
  PROVE  /\ \A F \in SUBSET Flags : [c EXCEPT !.flags = F] \in Confs
         /\ \A w \in [Volumes -> Types \cup {NoType}] : [c EXCEPT !.want = w] \in Confs
         /\ \A t \in [Volumes -> Types \cup {"bad", NoType}] : [c EXCEPT !.type = t] \in Confs
         /\ \A n \in {"old", "new"} : [c EXCEPT !.version = n] \in Confs
BY DEF Confs

\* The kernel's own settings are settings, and so are those of another version.
LEMMA FreshConf == Fresh \in Confs /\ [Fresh EXCEPT !.version = "old"] \in Confs
BY DEF Fresh, Confs, NoWant, Flags

\* set_conf() leaves a file.
LEMMA SetConfTypes ==
  ASSUME conf \in Files, NEW c, Seen => c \in Confs, SetConf(c)
  PROVE  conf' \in Files
BY DEF SetConf, Files

\* So do the requests it sets and clears ...
LEMMA FlagTypes ==
  ASSUME conf \in Files, NEW f \in Flags, SetFlag(f) \/ ClearFlag(f)
  PROVE  conf' \in Files
<1>1. Seen => conf \in Confs /\ conf.flags \cup {f} \in SUBSET Flags /\ conf.flags \ {f} \in SUBSET Flags
  BY DEF Seen, Confs
<1> QED
  BY <1>1, Updates, SetConfTypes DEF SetFlag, ClearFlag

\* ... and the conversions asked for.
LEMMA WantTypes ==
  ASSUME conf \in Files, NEW w \in [Volumes -> Types \cup {NoType}], Want(w)
  PROVE  conf' \in Files
<1>1. Seen => /\ conf \in Confs
              /\ [v \in Volumes |-> IF w[v] = NoType THEN conf.want[v] ELSE w[v]]
                   \in [Volumes -> Types \cup {NoType}]
  BY DEF Seen, Confs
<1> QED
  BY <1>1, Updates, SetConfTypes DEF Want

\* ... and a volume's type.
LEMMA NoteTypes ==
  ASSUME conf \in Files, NEW v \in Others, NEW t \in Types \cup {"bad", NoType}, NoteType(v, t)
  PROVE  conf' \in Files
<1>1. Seen => conf \in Confs /\ [conf.type EXCEPT ![v] = t] \in [Volumes -> Types \cup {"bad", NoType}]
  BY DEF Seen, Confs
<1> QED
  BY <1>1, Updates, SetConfTypes DEF NoteType

\* The settings a phone comes with.
LEMMA StockConf ==
  ASSUME fs \in Layouts, NEW n \in {"old", "new"}
  PROVE  [Fresh EXCEPT !.version = n, !.type = fs, !.mine = TRUE] \in Confs
BY SteamAssumption DEF Fresh, Confs, NoWant, Flags

\* The initial states are well typed.
LEMMA TypeInit == Init => TypeInv
<1> SUFFICES ASSUME Init PROVE TypeInv
  OBVIOUS
<1>1. fs \in [Volumes -> Types \cup {"bad"}]
  BY SteamAssumption DEF Init
<1>2. conf \in Files
  BY StockConf DEF Init, Files
<1>3. DiskTypes
  BY <1>1, <1>2 DEF Init, DiskTypes, NoSave, Files, Amounts
<1>4. RamTypes
  BY DEF Init, RamTypes, Pcs, Nothing
<1>5. HistoryTypes /\ Upgrading
  BY DEF Init, HistoryTypes, Upgrading
<1> QED
  BY <1>3, <1>4, <1>5 DEF Init, TypeInv

\* A tool that fails is counted.
LEMMA FaultTypes ==
  ASSUME TypeInv, NoFault \/ (Mishap /\ UNCHANGED failed) \/ \E k \in {"tool", "format", "mkfs"} : Fault(k)
  PROVE  mishaps' \in Nat /\ failed' \subseteq {"tool", "format", "mkfs"}
<1> USE DEF TypeInv, HistoryTypes, NoFault, Mishap, Fault, faults
<1>1. mishaps' \in Nat
  OBVIOUS
<1>2. failed' \subseteq {"tool", "format", "mkfs"}
  OBVIOUS
<1> QED
  BY <1>1, <1>2

\* Stages 3 to 8 keep the types.
LEMMA StagesTypes == TypeInv /\ Stages => TypeInv'
<1> SUFFICES ASSUME TypeInv, Stages PROVE TypeInv'
  OBVIOUS
<1> USE DEF TypeInv, Goto, Keep, NoFault, Boot, Mishap, Fault, ram, disk, system, history, faults
<1>1. CASE Stage3
  <2>1. DiskTypes' /\ HistoryTypes' /\ Upgrading'
    BY <1>1 DEF Stage3, DiskTypes, HistoryTypes, Upgrading
  <2>2. mounted' \in BOOLEAN
    BY <1>1 DEF Stage3, RamTypes
  <2>3. RamTypes' /\ mishaps' \in Nat /\ requests' \in Nat
    BY <1>1, <2>2 DEF Stage3, RamTypes, DiskTypes, Pcs, Volumes
  <2> QED
    BY <2>1, <2>3
<1>2. CASE Stage4
  <2>1. DiskTypes' /\ RamTypes' /\ HistoryTypes' /\ requests' \in Nat /\ mishaps' \in Nat
    BY <1>2 DEF Stage4, DiskTypes, RamTypes, HistoryTypes, Pcs
  <2>2. Upgrading'
    <3>1. CASE Seen /\ conf.version # "new"
      BY <1>2, <3>1 DEF Stage4, Seen, Upgrading, Confs
    <3>2. CASE ~(Seen /\ conf.version # "new")
      BY <1>2, <3>2 DEF Stage4, Upgrading
    <3> QED BY <3>1, <3>2
  <2> QED
    BY <2>1, <2>2
<1>3. CASE InstallCopy
  BY <1>3, FreshConf DEF InstallCopy, DiskTypes, RamTypes, HistoryTypes, Upgrading, Pcs, Files
<1>4. CASE InstallSet
  <2>1. conf' \in Files
    BY <1>4, FlagTypes DEF InstallSet, DiskTypes, Flags
  <2> QED
    BY <1>4, <2>1 DEF InstallSet, DiskTypes, RamTypes, HistoryTypes, Upgrading, Pcs
<1>14. CASE UpgradeSet
  <2>1. conf' \in Files
    BY <1>14, FlagTypes DEF UpgradeSet, DiskTypes, Flags
  <2> QED
    BY <1>14, <2>1 DEF UpgradeSet, DiskTypes, RamTypes, HistoryTypes, Upgrading, Pcs
<1>5. CASE UpgradeMove
  BY <1>5 DEF UpgradeMove, DiskTypes, RamTypes, HistoryTypes, Upgrading, Pcs, Files
<1>6. CASE UpgradeCat
  <2>1. conf' \in Files
    BY <1>6, Updates DEF UpgradeCat, Upgrading, Files
  <2> QED
    BY <1>6, <2>1 DEF UpgradeCat, DiskTypes, RamTypes, HistoryTypes, Upgrading, Pcs
<1>7. CASE SaveType
  <2>1. Seen => conf \in Confs /\ [conf.type EXCEPT !["system"] = systype]
                                    \in [Volumes -> Types \cup {"bad", NoType}]
    BY DEF Seen, Confs, RamTypes
  <2>2. conf' \in Files
    BY <1>7, <2>1, Updates, SetConfTypes DEF SaveType, DiskTypes
  <2> QED
    BY <1>7, <2>2 DEF SaveType, DiskTypes, RamTypes, HistoryTypes, Upgrading, Pcs
<1>8. CASE Stage5
  <2>1. Seen => /\ conf \in Confs /\ conf.want["system"] \in Types \cup {NoType}
                /\ [conf.want EXCEPT !["system"] = NoType] \in [Volumes -> Types \cup {NoType}]
    BY DEF Seen, Confs, Volumes
  <2>2. conf' \in Files
    BY <1>8, <2>1, Updates, SetConfTypes DEF Stage5, DiskTypes
  <2>3. target' \in Types \cup {NoType}
    BY <1>8, <2>1 DEF Stage5
  <2> QED
    BY <1>8, <2>2, <2>3 DEF Stage5, DiskTypes, RamTypes, HistoryTypes, Upgrading, Pcs
<1>9. ASSUME NEW v \in Others, Stage6Mount(v) \/ Stage6Fails(v) PROVE TypeInv'
  <2>1. v \in Volumes /\ fs[v] \in Types \cup {"bad", NoType}
    BY <1>9 DEF DiskTypes, Volumes
  <2>2. Seen => conf.type[v] \in Types \cup {"bad", NoType}
    BY <2>1 DEF Seen, Confs
  <2>3. conf' \in Files
    BY <1>9, <2>1, NoteTypes DEF Stage6Mount, Stage6Fails, DiskTypes
  <2>4. type' \in [Others -> Types \cup {"bad", NoType}] /\ todo' \subseteq Others
    BY <1>9, <2>1, <2>2 DEF Stage6Mount, Stage6Fails, RamTypes
  <2>5. unnoted' \subseteq Others
    BY <1>9 DEF Stage6Mount, Stage6Fails, Settle, HistoryTypes
  <2>6. mishaps' \in Nat /\ failed' \subseteq {"tool", "format", "mkfs"}
    BY <1>9, FaultTypes DEF Stage6Mount, Stage6Fails
  <2> QED
    BY <1>9, <2>3, <2>4, <2>5, <2>6 DEF Stage6Mount, Stage6Fails, KeepMost, DiskTypes, RamTypes,
        HistoryTypes, Upgrading, Pcs
<1>10. CASE Stage7
  <2>1. Seen => /\ conf \in Confs /\ conf.want \in [Volumes -> Types \cup {NoType}]
                /\ [v \in Volumes |-> IF v \in Others THEN NoType ELSE conf.want[v]]
                     \in [Volumes -> Types \cup {NoType}]
    BY DEF Seen, Confs
  <2>2. conf' \in Files
    BY <1>10, <2>1, Updates, SetConfTypes DEF Stage7, DiskTypes
  <2>3. new' \in [Others -> Types \cup {NoType}]
    BY <1>10, <2>1 DEF Stage7, Volumes
  <2> QED
    BY <1>10, <2>2, <2>3 DEF Stage7, DiskTypes, RamTypes, HistoryTypes, Upgrading, Pcs
<1>11. CASE FsConverted
  BY <1>11 DEF FsConverted, DiskTypes, RamTypes, HistoryTypes, Upgrading, Pcs
<1>15. CASE Start
  BY <1>15 DEF Start, DiskTypes, RamTypes, HistoryTypes, Upgrading, Pcs, Nothing
<1>12. CASE EarlyInit
  BY <1>12 DEF EarlyInit, DiskTypes, RamTypes, HistoryTypes, Upgrading, Pcs, Nothing
<1>13. ASSUME NEW v \in Others, FsFormat(v) \/ FsFormatted(v) \/ FsFormatFails(v) PROVE TypeInv'
  <2>1. new[v] \in Types \cup {NoType} /\ Plain(new[v]) \in Types \cup {NoType}
    BY <1>13 DEF RamTypes, Plain, Types
  <2>2. fs' \in [Volumes -> Types \cup {"bad", NoType}]
    BY <1>13, <2>1 DEF FsFormat, FsFormatted, FsFormatFails, DiskTypes
  <2>3. mishaps' \in Nat /\ failed' \subseteq {"tool", "format", "mkfs"}
    BY <1>13, FaultTypes DEF FsFormat, FsFormatted, FsFormatFails
  <2> QED
    BY <1>13, <2>2, <2>3 DEF FsFormat, FsFormatted, FsFormatFails, DiskTypes, RamTypes, HistoryTypes,
        Upgrading, Pcs
<1>16. ASSUME NEW v \in Others, FsSet(v) PROVE TypeInv'
  <2>1. new[v] \in Types \cup {NoType}
    BY <1>16 DEF RamTypes
  <2>2. conf' \in Files
    BY <1>16, <2>1, NoteTypes DEF FsSet, DiskTypes
  <2>3. type' \in [Others -> Types \cup {"bad", NoType}]
    BY <1>16, <2>1 DEF FsSet, RamTypes
  <2>4. new' \in [Others -> Types \cup {NoType}] /\ todo' \subseteq Others
    BY <1>16 DEF FsSet, RamTypes
  <2>5. unnoted' \subseteq Others
    BY <1>16 DEF FsSet, HistoryTypes
  <2>6. mishaps' \in Nat /\ failed' \subseteq {"tool", "format", "mkfs"}
    BY <1>16, FaultTypes DEF FsSet
  <2> QED
    BY <1>16, <2>2, <2>3, <2>4, <2>5, <2>6 DEF FsSet, KeepMost, DiskTypes, RamTypes, HistoryTypes, Upgrading, Pcs
<1> QED
  BY <1>1, <1>2, <1>3, <1>4, <1>5, <1>6, <1>7, <1>8, <1>9, <1>10, <1>11, <1>12, <1>13, <1>14, <1>15,
     <1>16
  DEF Stages

\* What is in .syssave is a backup or a part of one.
LEMMA SaveTypes ==
  /\ NoSave \in [whole : BOOLEAN, rom : Amounts, conf : Files, old : Files]
  /\ [NoSave EXCEPT !.rom = "partial"] \in [whole : BOOLEAN, rom : Amounts, conf : Files, old : Files]
BY DEF NoSave, Amounts, Files

\* convert_system() keeps the types.
LEMMA ConvertingTypes == TypeInv /\ Converting => TypeInv'
<1> SUFFICES ASSUME TypeInv, Converting PROVE TypeInv'
  OBVIOUS
<1> USE DEF TypeInv, Goto, Keep, KeepHistory, NoFault, Boot, Mishap, Fault, ram, disk, system,
    history, faults
<1>1. CASE CsMountOld
  <2>1. mounted' \in BOOLEAN
    BY <1>1 DEF CsMountOld, RamTypes, DiskTypes
  <2>2. mishaps' \in Nat /\ failed' \subseteq {"tool", "format", "mkfs"}
    BY <1>1, FaultTypes DEF CsMountOld
  <2> QED
    BY <1>1, <2>1, <2>2 DEF CsMountOld, DiskTypes, RamTypes, HistoryTypes, Upgrading, Pcs,
        KeepConverting
<1>2. CASE CsSpace
  BY <1>2 DEF CsSpace, DiskTypes, RamTypes, HistoryTypes, Upgrading, Pcs, KeepConverting
<1>3. CASE CsNoSpace
  BY <1>3 DEF CsNoSpace, DiskTypes, RamTypes, HistoryTypes, Upgrading, Pcs, KeepConverting
<1>4. CASE CsRemove
  <2>1. save' \in [whole : BOOLEAN, rom : Amounts, conf : Files, old : Files]
    BY <1>4, SaveTypes DEF CsRemove, DiskTypes, RamTypes
  <2> QED
    BY <1>4, <2>1 DEF CsRemove, DiskTypes, RamTypes, HistoryTypes, Upgrading, Pcs, KeepConverting
<1>5. CASE CsBackup
  <2>1. save' \in [whole : BOOLEAN, rom : Amounts, conf : Files, old : Files]
    <3>1. [whole |-> TRUE, rom |-> IF mounted THEN rom ELSE "none",
           conf |-> IF mounted THEN conf ELSE NoFile, old |-> IF mounted THEN old ELSE NoFile]
            \in [whole : BOOLEAN, rom : Amounts, conf : Files, old : Files]
      BY DEF DiskTypes, RamTypes, Amounts, Files
    <3>2. CASE NoFault
      BY <1>5, <3>1, <3>2, SaveTypes DEF CsBackup
    <3>3. CASE ~NoFault
      BY <1>5, <3>3, SaveTypes DEF CsBackup
    <3> QED
      BY <3>2, <3>3
  <2>2. mishaps' \in Nat /\ failed' \subseteq {"tool", "format", "mkfs"}
    BY <1>5, FaultTypes DEF CsBackup
  <2> QED
    BY <1>5, <2>1, <2>2 DEF CsBackup, DiskTypes, RamTypes, HistoryTypes, Upgrading, Pcs,
        KeepConverting
<1>6. CASE CsFormat
  <2>1. conf' \in Files /\ old' \in Files
    BY <1>6 DEF CsFormat, Files
  <2>2. fs' \in [Volumes -> Types \cup {"bad", NoType}]
    BY <1>6 DEF CsFormat, DiskTypes, RamTypes
  <2> QED
    BY <1>6, <2>1, <2>2 DEF CsFormat, DiskTypes, RamTypes, HistoryTypes, Upgrading, Pcs,
        KeepConverting, Amounts
<1>7. CASE CsFormatted
  <2>1. fs' \in [Volumes -> Types \cup {"bad", NoType}]
    BY <1>7 DEF CsFormatted, DiskTypes, RamTypes
  <2> QED
    BY <1>7, <2>1 DEF CsFormatted, DiskTypes, RamTypes, HistoryTypes, Upgrading, Pcs, KeepConverting
<1>8. CASE CsFormatFails
  <2>1. mishaps' \in Nat /\ failed' \subseteq {"tool", "format", "mkfs"}
    BY <1>8, FaultTypes DEF CsFormatFails
  <2> QED
    BY <1>8, <2>1 DEF CsFormatFails, DiskTypes, RamTypes, HistoryTypes, Upgrading, Pcs,
        KeepConverting
<1>9. CASE CsMountNew
  <2>1. mounted' \in BOOLEAN
    BY <1>9 DEF CsMountNew, RamTypes, DiskTypes
  <2>2. mishaps' \in Nat /\ failed' \subseteq {"tool", "format", "mkfs"}
    BY <1>9, FaultTypes DEF CsMountNew
  <2> QED
    BY <1>9, <2>1, <2>2 DEF CsMountNew, DiskTypes, RamTypes, HistoryTypes, Upgrading, Pcs,
        KeepConverting
<1>10. CASE CsRestore
  BY <1>10 DEF CsRestore, DiskTypes, RamTypes, HistoryTypes, Upgrading, Pcs, KeepConverting, Amounts
<1>11. CASE CsRestored
  BY <1>11 DEF CsRestored, DiskTypes, RamTypes, HistoryTypes, Upgrading, Pcs, KeepConverting
<1>12. CASE CsRestoreFails
  <2>1. save' \in [whole : BOOLEAN, rom : Amounts, conf : Files, old : Files]
    BY <1>12, SaveTypes DEF CsRestoreFails, DiskTypes, RamTypes
  <2>2. mishaps' \in Nat /\ failed' \subseteq {"tool", "format", "mkfs"}
    BY <1>12, FaultTypes DEF CsRestoreFails
  <2> QED
    BY <1>12, <2>1, <2>2 DEF CsRestoreFails, DiskTypes, RamTypes, HistoryTypes, Upgrading, Pcs,
        KeepConverting
<1>13. CASE CsClean
  <2>1. save' \in [whole : BOOLEAN, rom : Amounts, conf : Files, old : Files]
    BY <1>13, SaveTypes DEF CsClean, DiskTypes, RamTypes
  <2> QED
    BY <1>13, <2>1 DEF CsClean, DiskTypes, RamTypes, HistoryTypes, Upgrading, Pcs, Nothing
<1> QED
  BY <1>1, <1>2, <1>3, <1>4, <1>5, <1>6, <1>7, <1>8, <1>9, <1>10, <1>11, <1>12, <1>13 DEF Converting

\* The steam branches of recovery's main() keep the types.
LEMMA RecoveryTypes == TypeInv /\ RecoverySteps => TypeInv'
<1> SUFFICES ASSUME TypeInv, RecoverySteps PROVE TypeInv'
  OBVIOUS
<1> USE DEF TypeInv, Goto, Keep, KeepHistory, NoFault, Boot, Mishap, Fault, ram, disk, system,
    history, faults
<1>1. CASE RecoveryMain
  BY <1>1 DEF RecoveryMain, DiskTypes, RamTypes, HistoryTypes, Upgrading, Pcs
<1>2. CASE InstallMounts
  <2>1. mishaps' \in Nat /\ failed' \subseteq {"tool", "format", "mkfs"}
    BY <1>2, FaultTypes DEF InstallMounts
  <2> QED
    BY <1>2, <2>1 DEF InstallMounts, DiskTypes, RamTypes, HistoryTypes, Upgrading, Pcs
<1>3. CASE InstallClear
  <2>1. conf' \in Files
    BY <1>3, FlagTypes DEF InstallClear, DiskTypes, Flags
  <2> QED
    BY <1>3, <2>1 DEF InstallClear, DiskTypes, RamTypes, HistoryTypes, Upgrading, Pcs, Nothing
<1>4. CASE DoUpgrade
  <2>1. conf' \in Files
    BY <1>4, FlagTypes DEF DoUpgrade, DiskTypes, Flags
  <2> QED
    BY <1>4, <2>1 DEF DoUpgrade, DiskTypes, RamTypes, HistoryTypes, Upgrading, Pcs
<1>5. CASE NoUninstall
  BY <1>5 DEF NoUninstall, DiskTypes, RamTypes, HistoryTypes, Upgrading, Pcs
<1>6. CASE UninstallConvert
  <2>1. [v \in Volumes |-> "rfs"] \in [Volumes -> Types \cup {NoType}]
    BY <1>6 DEF UninstallConvert, Types
  <2>2. conf' \in Files
    BY <1>6, <2>1, WantTypes DEF UninstallConvert, DiskTypes
  <2> QED
    BY <1>6, <2>1, <2>2 DEF UninstallConvert, DiskTypes, RamTypes, HistoryTypes, Upgrading, Pcs,
        Nothing
<1>7. CASE UninstallRemove
  BY <1>7 DEF UninstallRemove, DiskTypes, RamTypes, HistoryTypes, Upgrading, Pcs, Files, Nothing
<1>8. CASE Afterburner
  <2>1. conf' \in Files
    BY <1>8, WantTypes, SteamAssumption DEF Afterburner, DiskTypes
  <2> QED
    BY <1>8, <2>1 DEF Afterburner, DiskTypes, RamTypes, HistoryTypes, Upgrading, Pcs
<1> QED
  BY <1>1, <1>2, <1>3, <1>4, <1>5, <1>6, <1>7, <1>8 DEF RecoverySteps

\* What the user answers in the menus of the stages keeps the types.
LEMMA AnswersTypes == TypeInv /\ Answers => TypeInv'
<1> SUFFICES ASSUME TypeInv, Answers PROVE TypeInv'
  OBVIOUS
<1> USE DEF TypeInv, Goto, Keep, KeepHistory, NoFault, Boot, Mishap, Fault, ram, disk, system,
    history, faults
<1>1. CASE FixConvert
  <2>1. again' \in BOOLEAN
    BY <1>1 DEF FixConvert, Convert, HistoryTypes
  <2> QED
    BY <1>1, <2>1 DEF FixConvert, DiskTypes, RamTypes, HistoryTypes, Upgrading, Pcs, Convert, Types
<1>2. CASE FixMount
  <2>1. mounted' \in BOOLEAN
    BY <1>2 DEF FixMount, RamTypes, DiskTypes
  <2>2. mishaps' \in Nat /\ failed' \subseteq {"tool", "format", "mkfs"}
    BY <1>2, FaultTypes DEF FixMount
  <2> QED
    BY <1>2, <2>1, <2>2 DEF FixMount, DiskTypes, RamTypes, HistoryTypes, Upgrading, Pcs
<1>3. CASE Skip
  BY <1>3 DEF Skip, DiskTypes, RamTypes, HistoryTypes, Upgrading, Pcs
<1>4. CASE InstallRemove
  BY <1>4 DEF InstallRemove, DiskTypes, RamTypes, HistoryTypes, Upgrading, Pcs, Files
<1>5. CASE UpgradeRemove
  BY <1>5 DEF UpgradeRemove, DiskTypes, RamTypes, HistoryTypes, Upgrading, Pcs, Files
<1>6. CASE ConfirmYes
  <2>1. again' \in BOOLEAN
    BY <1>6 DEF ConfirmYes, Convert, HistoryTypes
  <2> QED
    BY <1>6, <2>1 DEF ConfirmYes, DiskTypes, RamTypes, HistoryTypes, Upgrading, Pcs, Convert
<1>7. CASE ConfirmNo
  BY <1>7 DEF ConfirmNo, DiskTypes, RamTypes, HistoryTypes, Upgrading, Pcs
<1>8. CASE FsCancel
  <2>1. mishaps' \in Nat /\ failed' \subseteq {"tool", "format", "mkfs"}
    BY <1>8, FaultTypes DEF FsCancel
  <2> QED
    BY <1>8, <2>1 DEF FsCancel, DiskTypes, RamTypes, HistoryTypes, Upgrading, Pcs, Nothing
<1>9. CASE FsAgree
  BY <1>9 DEF FsAgree, DiskTypes, RamTypes, HistoryTypes, Upgrading, Pcs
<1>12. ASSUME NEW v \in Others, CreateNothing(v) \/ \E t \in {"rfs", "ext4"} : Create(v, t)
       PROVE  TypeInv'
  <2>1. new' \in [Others -> Types \cup {NoType}] /\ todo' \subseteq Others
    BY <1>12 DEF CreateNothing, Create, RamTypes, Types
  <2>2. mishaps' \in Nat /\ failed' \subseteq {"tool", "format", "mkfs"}
    BY <1>12, FaultTypes DEF CreateNothing, Create, NotFound
  <2> QED
    <3>1. CASE CreateNothing(v)
      BY <2>1, <2>2, <3>1 DEF CreateNothing, NotFound, KeepMost, DiskTypes, RamTypes, HistoryTypes,
          Upgrading, Pcs
    <3>2. ASSUME NEW t \in {"rfs", "ext4"}, Create(v, t) PROVE TypeInv'
      <4>1. DiskTypes' /\ requests' \in Nat
        BY <3>2 DEF Create, KeepMost, DiskTypes
      <4>2. RamTypes' /\ Upgrading'
        BY <2>1, <3>2 DEF Create, KeepMost, RamTypes, Upgrading, Pcs
      <4>3. HistoryTypes'
        BY <2>2, <3>2 DEF Create, KeepMost, HistoryTypes
      <4> QED
        BY <2>2, <4>1, <4>2, <4>3
    <3> QED
      BY <1>12, <3>1, <3>2
<1>10. CASE NoPlugin
  BY <1>10 DEF NoPlugin, DiskTypes, RamTypes, HistoryTypes, Upgrading, Pcs
<1>11. ASSUME NEW p \in {"rec2e", "rec3e"}, RunPlugin(p) PROVE TypeInv'
  <2>1. Boot(TRUE) => RamTypes' /\ Upgrading'
    BY DEF RamTypes, Upgrading, Pcs, Nothing
  <2>2. UNCHANGED ram /\ Goto("plugin") => RamTypes' /\ Upgrading'
    BY DEF RamTypes, Upgrading, Pcs
  <2> QED
    BY <1>11, <2>1, <2>2 DEF RunPlugin, DiskTypes, HistoryTypes
<1> QED
  BY <1>1, <1>2, <1>3, <1>4, <1>5, <1>6, <1>7, <1>8, <1>9, <1>10, <1>11, <1>12 DEF Answers

\* What the user asks for in recovery's menus keeps the types.
LEMMA AsksTypes == TypeInv /\ Asks => TypeInv'
<1> SUFFICES ASSUME TypeInv, Asks PROVE TypeInv'
  OBVIOUS
<1> USE DEF TypeInv, Goto, Keep, KeepHistory, NoFault, Boot, Mishap, Fault, ram, disk, system,
    history, faults
<1>1. CASE RequestUninstall
  <2>1. conf' \in Files
    BY <1>1, FlagTypes DEF RequestUninstall, DiskTypes, Flags
  <2> QED
    BY <1>1, <2>1 DEF RequestUninstall, DiskTypes, RamTypes, HistoryTypes, Upgrading, Pcs, Request
<1>2. ASSUME NEW w \in Wants, RequestConversion(w) PROVE TypeInv'
  <2>1. conf' \in Files
    BY <1>2, WantTypes, SteamAssumption DEF RequestConversion, DiskTypes
  <2> QED
    BY <1>2, <2>1 DEF RequestConversion, DiskTypes, RamTypes, HistoryTypes, Upgrading, Pcs, Request
<1> QED
  BY <1>1, <1>2 DEF Asks

\* What power loss leaves of the file that was being written is a file.
LEMMA TornTypes == Torn \subseteq Files
<1>1. Seen => [Fresh EXCEPT !.version = conf.version] \in Confs
  <2> SUFFICES ASSUME Seen PROVE [Fresh EXCEPT !.version = conf.version] \in Confs
    OBVIOUS
  <2>1. conf.version \in {"old", "new"}
    BY DEF Seen, Confs
  <2> QED
    BY <2>1, FreshConf, Updates
<1> QED
  BY <1>1, FreshConf DEF Torn, Files

\* So do reboots and power losses.
LEMMA BootsTypes == TypeInv /\ (Boots \/ PowerLoss) => TypeInv'
<1> SUFFICES ASSUME TypeInv, Boots \/ PowerLoss PROVE TypeInv'
  OBVIOUS
<1> USE DEF TypeInv, Goto, Keep, KeepHistory, NoFault, Boot, Mishap, Fault, ram, disk, system,
    history, faults
<1>1. ASSUME NEW rec \in BOOLEAN, UserBoot(rec) PROVE TypeInv'
  BY <1>1 DEF UserBoot, DiskTypes, RamTypes, HistoryTypes, Upgrading, Pcs, Nothing
<1>2. CASE PowerLoss
  <2>1. conf' \in Files
    BY <1>2, TornTypes DEF PowerLoss, DiskTypes
  <2>2. given' \in BOOLEAN /\ cut' \in BOOLEAN /\ unnoted' \subseteq Others
    BY <1>2 DEF PowerLoss, HistoryTypes
  <2>3. RamTypes' /\ Upgrading'
    BY <1>2 DEF PowerLoss, RamTypes, Upgrading, Pcs, Nothing
  <2> QED
    BY <1>2, <2>1, <2>2, <2>3 DEF PowerLoss, DiskTypes, HistoryTypes
<1> QED
  BY <1>1, <1>2 DEF Boots

\* Every step keeps the types.
LEMMA TypeStep == TypeInv /\ [Next]_vars => TypeInv'
<1>1. TypeInv /\ UNCHANGED vars => TypeInv'
  BY DEF TypeInv, DiskTypes, RamTypes, HistoryTypes, Upgrading, Pcs, vars, ram, disk, system,
      history, faults
<1> QED
  BY <1>1, StagesTypes, ConvertingTypes, RecoveryTypes, AnswersTypes, AsksTypes, BootsTypes DEF Next

\* The phone, its settings and its memory keep their types, whatever fails and
\* whenever power is lost: TypeOK holds for every layout and any number of requests.
THEOREM TypeCorrect == Spec => []TypeOK
<1>1. TypeInv => TypeOK
  BY DEF TypeInv, TypeOK, HistoryTypes
<1> QED
  BY <1>1, TypeInit, TypeStep, PTL DEF Spec

-----------------------------------------------------------------------------
\* A step outside convert_system() leaves the main system's files and the backup alone.
Aside == UNCHANGED <<rom, save, again>> /\ failed \subseteq failed' /\ pc' \notin CsPcs

\* What has failed stays on record.
LEMMA FailedGrows == Next => failed \subseteq failed'
<1> USE DEF NoFault, Mishap, Fault, faults
<1>1. Stages => failed \subseteq failed'
  BY DEF Stages, Stage3, Stage4, InstallCopy, InstallSet, UpgradeMove, UpgradeCat, UpgradeSet,
      SaveType,
         Stage5, Stage7, FsConverted, Start, EarlyInit, Stage6Mount, Stage6Fails, FsFormat, FsFormatted,
         FsFormatFails, FsSet
<1>2. Converting => failed \subseteq failed'
  BY DEF Converting, CsMountOld, CsSpace, CsNoSpace, CsRemove, CsBackup, CsFormat, CsFormatted,
         CsFormatFails, CsMountNew, CsRestore, CsRestored, CsRestoreFails, CsClean
<1>3. RecoverySteps => failed \subseteq failed'
  BY DEF RecoverySteps, RecoveryMain, InstallMounts, InstallClear, DoUpgrade, NoUninstall,
         UninstallConvert, UninstallRemove, Afterburner
<1>4. Answers => failed \subseteq failed'
  BY DEF Answers, FixConvert, FixMount, Skip, InstallRemove, UpgradeRemove, ConfirmYes, ConfirmNo,
         FsCancel, FsAgree, CreateNothing, Create, NotFound, NoPlugin, RunPlugin
<1>5. Asks \/ Boots \/ PowerLoss => failed \subseteq failed'
  BY DEF Asks, Boots, PowerLoss, RequestUninstall, RequestConversion, UserBoot
<1> QED
  BY <1>1, <1>2, <1>3, <1>4, <1>5 DEF Next

\* Only convert_system() moves the files, and only two menus start it.
LEMMA AsideSteps ==
  ASSUME TypeInv, Next
  PROVE  Aside \/ Converting \/ FixConvert \/ ConfirmYes
<1> USE DEF Aside, Goto, Boot, Keep, KeepHistory, history, disk, system, CsPcs, Saving, Restoring
<1>1. Stages => Aside
  <2>1. ASSUME NEW v \in Others, FsFormat(v) \/ FsFormatted(v) \/ FsFormatFails(v) PROVE Aside
    BY <2>1, FailedGrows DEF FsFormat, FsFormatted, FsFormatFails
  <2>5. ASSUME NEW v \in Others, Stage6Mount(v) \/ Stage6Fails(v) \/ FsSet(v) PROVE Aside
    BY <2>5, FailedGrows DEF Stage6Mount, Stage6Fails, FsSet, KeepMost
  <2>2. CASE Stage3 \/ Stage4
    BY <2>2, FailedGrows DEF Stage3, Stage4
  <2>3. CASE InstallCopy \/ InstallSet \/ UpgradeMove \/ UpgradeCat \/ UpgradeSet \/ SaveType
    BY <2>3, FailedGrows DEF InstallCopy, InstallSet, UpgradeMove, UpgradeCat, UpgradeSet, SaveType
  <2>4. CASE Stage5 \/ Stage7 \/ FsConverted \/ Start \/ EarlyInit
    BY <2>4, FailedGrows DEF Stage5, Stage7, FsConverted, Start, EarlyInit
  <2> QED
    BY <2>1, <2>2, <2>3, <2>4, <2>5 DEF Stages
<1>2. RecoverySteps => Aside
  BY FailedGrows DEF RecoverySteps, RecoveryMain, InstallMounts, InstallClear, DoUpgrade,
      NoUninstall,
                     UninstallConvert, UninstallRemove, Afterburner
<1>3. Answers => Aside \/ FixConvert \/ ConfirmYes
  BY FailedGrows DEF Answers, FixMount, Skip, InstallRemove, UpgradeRemove, ConfirmNo,
                     FsCancel, FsAgree, CreateNothing, Create, NotFound, KeepMost, NoPlugin, RunPlugin
<1>4. Asks \/ Boots \/ PowerLoss => Aside
  BY FailedGrows DEF Asks, Boots, PowerLoss, Request, RequestUninstall, RequestConversion, UserBoot
<1> QED
  BY <1>1, <1>2, <1>3, <1>4 DEF Next

\* A conversion that begins finds the files on /system, or is on record as one too many.
LEMMA ConvertKept ==
  ASSUME TypeInv, KeptInv, FixConvert \/ ConfirmYes
  PROVE  KeptInv'
<1>1. /\ again' = (again \/ rom # "full") /\ UNCHANGED <<rom, save, failed>>
      /\ pc' = "cs_mount_old" /\ again \in BOOLEAN
  BY DEF FixConvert, ConfirmYes, Convert, Goto, disk, system, faults, TypeInv, HistoryTypes
<1>2. CASE rom = "full"
  BY <1>1, <1>2 DEF KeptInv, SystemForsaken, SavedWhole, Saving, Restoring
<1>3. CASE rom # "full"
  BY <1>1, <1>3 DEF KeptInv, SystemForsaken
<1> QED
  BY <1>2, <1>3

\* convert_system() saves the files, formats /system and restores them, in this order.
LEMMA ConvertingKept ==
  ASSUME TypeInv, KeptInv, Converting
  PROVE  KeptInv'
<1> USE DEF Goto, Keep, KeepConverting, history, disk, system
<1>1. failed \subseteq failed' /\ again' = again
  BY FailedGrows DEF Next, Converting, CsMountOld, CsSpace, CsNoSpace, CsRemove, CsBackup, CsFormat,
    CsFormatted, CsFormatFails, CsMountNew, CsRestore, CsRestored, CsRestoreFails, CsClean
<1>2. SystemForsaken => SystemForsaken'
  BY <1>1 DEF SystemForsaken
<1>3. (\E k \in {"tool", "format"} : Fault(k)) => SystemForsaken'
  BY DEF Fault, SystemForsaken
<1> SUFFICES ASSUME ~SystemForsaken' PROVE KeptInv'
  BY DEF KeptInv
<1>4. ~SystemForsaken /\ ~Fault("tool") /\ ~Fault("format")
  BY <1>2, <1>3
<1> USE DEF KeptInv, SavedWhole, Saving, Restoring
<1>5. CASE CsMountOld
  BY <1>4, <1>5 DEF CsMountOld
<1>6. CASE CsSpace \/ CsNoSpace \/ CsRemove
  BY <1>4, <1>6 DEF CsSpace, CsNoSpace, CsRemove
<1>7. CASE CsBackup
  BY <1>4, <1>7 DEF CsBackup
<1>8. CASE CsFormat \/ CsFormatFails
  BY <1>4, <1>8 DEF CsFormat, CsFormatFails
<1>9. CASE CsFormatted
  BY <1>4, <1>9 DEF CsFormatted, TypeInv, DiskTypes, Volumes
<1>10. CASE CsMountNew
  BY <1>4, <1>10 DEF CsMountNew
<1>11. CASE CsRestore
  BY <1>4, <1>11 DEF CsRestore
<1>12. CASE CsRestored
  BY <1>4, <1>12 DEF CsRestored
<1>13. CASE CsRestoreFails
  BY <1>4, <1>13 DEF CsRestoreFails
<1>14. CASE CsClean
  BY <1>4, <1>14 DEF CsClean, Boot
<1> QED
  BY <1>5, <1>6, <1>7, <1>8, <1>9, <1>10, <1>11, <1>12, <1>13, <1>14 DEF Converting

\* Every step keeps the place of the files.
LEMMA KeptStep == TypeInv /\ KeptInv /\ [Next]_vars => KeptInv'
<1> SUFFICES ASSUME TypeInv, KeptInv, [Next]_vars PROVE KeptInv'
  OBVIOUS
<1>1. CASE Next /\ Aside
  BY <1>1 DEF Aside, KeptInv, SystemForsaken, SavedWhole, CsPcs, Saving, Restoring
<1>2. CASE UNCHANGED vars
  BY <1>2 DEF KeptInv, SystemForsaken, SavedWhole, Saving, Restoring, vars, ram, disk, system,
      history, faults
<1> QED
  BY <1>1, <1>2, AsideSteps, ConvertKept, ConvertingKept

\* convert_system() never loses the main system's files: SystemKept holds for every
\* layout of the phone and however often power is lost.
THEOREM FilesKept == Spec => []SystemKept
<1>1. Init => KeptInv
  BY DEF Init, KeptInv, Saving, Restoring
<1>2. KeptInv => SystemKept
  BY DEF KeptInv, SystemKept, SavedWhole
<1> QED
  BY <1>1, <1>2, TypeInit, TypeStep, KeptStep, PTL DEF Spec

-----------------------------------------------------------------------------
\* What set_conf() leaves of a settings file: whose it is, and its version; of the
\* requests only do_steam_install() takes away steam.installation.
Edits(c, d) ==
  /\ d \in Confs /\ d.mine = c.mine /\ d.version = c.version
  /\ "installation" \in c.flags => "installation" \in d.flags \/ pc = "install_clear"
Edited == IF conf \in Confs THEN Edits(conf, conf') ELSE conf' = conf

\* set_conf() edits the file ...
LEMMA SetConfEdits ==
  ASSUME TypeInv, NEW d, Seen => Edits(conf, d), SetConf(d)
  PROVE  Edited
BY DEF SetConf, Edited, Edits, Seen

\* ... for a request ...
LEMMA FlagEdits ==
  ASSUME TypeInv, NEW f \in Flags,
         SetFlag(f) \/ (ClearFlag(f) /\ (f # "installation" \/ pc = "install_clear"))
  PROVE  Edited
<1>1. CASE SetFlag(f)
  <2>1. Seen => Edits(conf, [conf EXCEPT !.flags = @ \cup {f}])
    BY DEF Edits, Seen, Confs
  <2> QED
    BY <1>1, <2>1, SetConfEdits DEF SetFlag
<1>2. CASE ClearFlag(f) /\ (f # "installation" \/ pc = "install_clear")
  <2>1. Seen => Edits(conf, [conf EXCEPT !.flags = @ \ {f}])
    BY <1>2 DEF Edits, Seen, Confs
  <2> QED
    BY <1>2, <2>1, SetConfEdits DEF ClearFlag
<1> QED
  BY <1>1, <1>2

\* ... a conversion ...
LEMMA WantEdits ==
  ASSUME TypeInv, NEW w, Seen => w \in [Volumes -> Types \cup {NoType}],
         SetConf([conf EXCEPT !.want = w])
  PROVE  Edited
<1>1. Seen => Edits(conf, [conf EXCEPT !.want = w])
  BY DEF Edits, Seen, Confs
<1> QED
  BY <1>1, SetConfEdits

\* ... or a volume's type.
LEMMA TypeEdits ==
  ASSUME TypeInv, NEW t, Seen => t \in [Volumes -> Types \cup {"bad", NoType}],
         SetConf([conf EXCEPT !.type = t])
  PROVE  Edited
<1>1. Seen => Edits(conf, [conf EXCEPT !.type = t])
  BY DEF Edits, Seen, Confs
<1> QED
  BY <1>1, SetConfEdits

\* The same for one volume.
LEMMA NoteEdits ==
  ASSUME TypeInv, NEW v \in Others, NEW t \in Types \cup {"bad", NoType}, NoteType(v, t)
  PROVE  Edited
<1>1. Seen => [conf.type EXCEPT ![v] = t] \in [Volumes -> Types \cup {"bad", NoType}]
  BY DEF Seen, Confs
<1> QED
  BY <1>1, TypeEdits DEF NoteType

\* The steps that change steam.conf in another way than by set_conf().
Moves == \/ InstallRemove \/ InstallCopy \/ UpgradeRemove \/ UpgradeMove \/ UpgradeCat
         \/ UninstallRemove \/ PowerLoss \/ Converting

Editing ==
  /\ Edited /\ old' = old /\ given' = given /\ cut' = cut /\ (uninstalled' => uninstalled)
  /\ burnt' = (burnt \/ pc = "afterburner")
  /\ pc' \notin {"install_copy", "upgrade_move", "upgrade_cat"}
  /\ pc' = "install_menu" => ~Seen'
  /\ pc' # "install_set" /\ (pc = "install_set" => InstallSet)
  /\ pc' = "install_clear" => pc = "afterburner"

\* So does asking for several conversions at once.
LEMMA WantsEdit ==
  ASSUME TypeInv, NEW w \in [Volumes -> Types \cup {NoType}], Want(w)
  PROVE  Edited
<1>1. Seen => [v \in Volumes |-> IF w[v] = NoType THEN conf.want[v] ELSE w[v]]
                \in [Volumes -> Types \cup {NoType}]
  BY DEF Seen, Confs
<1> QED
  BY <1>1, WantEdits DEF Want

\* All others edit it or leave it alone.
LEMMA EditSteps ==
  ASSUME TypeInv, Next
  PROVE  Editing \/ Moves
<1>1. burnt \in BOOLEAN
  BY DEF TypeInv, HistoryTypes
<1>2. conf' = conf => Edited
  BY DEF Edited, Edits
<1> USE <1>1 DEF Goto, Boot, Keep, KeepHistory, history, ram, disk, system
<1>3. Stages => Editing \/ Moves
  <2>1. ASSUME NEW v \in Others, FsSet(v) PROVE Editing
    <3>1. new[v] \in Types \cup {"bad", NoType}
      BY DEF TypeInv, RamTypes
    <3>2. Edited
      BY <2>1, <3>1, NoteEdits DEF FsSet
    <3> QED
      BY <2>1, <3>2 DEF FsSet, KeepMost, Editing
  <2>10. ASSUME NEW v \in Others, FsFormat(v) \/ FsFormatted(v) \/ FsFormatFails(v) PROVE Editing
    BY <1>2, <2>10 DEF FsFormat, FsFormatted, FsFormatFails, Editing
  <2>2. CASE Stage3
    BY <1>2, <2>2 DEF Stage3, Editing
  <2>3. CASE Stage4
    BY <1>2, <2>3 DEF Stage4, Editing, Seen
  <2>4. CASE InstallSet \/ UpgradeSet
    <3>1. Edited
      BY <2>4, FlagEdits DEF InstallSet, UpgradeSet, Flags
    <3> QED
      BY <2>4, <3>1 DEF InstallSet, UpgradeSet, Editing
  <2>5. CASE SaveType
    <3>1. Seen => [conf.type EXCEPT !["system"] = systype] \in [Volumes -> Types \cup {"bad", NoType}]
      BY DEF Seen, Confs, TypeInv, RamTypes
    <3>2. Edited
      BY <2>5, <3>1, TypeEdits DEF SaveType
    <3> QED
      BY <2>5, <3>2 DEF SaveType, Editing
  <2>6. CASE Stage5
    <3>1. Seen => [conf.want EXCEPT !["system"] = NoType] \in [Volumes -> Types \cup {NoType}]
      BY DEF Seen, Confs
    <3>2. Edited
      BY <2>6, <3>1, WantEdits DEF Stage5
    <3> QED
      BY <2>6, <3>2 DEF Stage5, Editing
  <2>7. ASSUME NEW v \in Others, Stage6Mount(v) \/ Stage6Fails(v) PROVE Editing
    <3>1. fs[v] \in Types \cup {"bad", NoType}
      BY DEF TypeInv, DiskTypes, Volumes
    <3>2. Edited
      BY <1>2, <2>7, <3>1, NoteEdits DEF Stage6Mount, Stage6Fails
    <3> QED
      BY <2>7, <3>2 DEF Stage6Mount, Stage6Fails, KeepMost, Editing
  <2>8. CASE Stage7
    <3>1. Seen => [v \in Volumes |-> IF v \in Others THEN NoType ELSE conf.want[v]]
                    \in [Volumes -> Types \cup {NoType}]
      BY DEF Seen, Confs
    <3>2. Edited
      BY <2>8, <3>1, WantEdits DEF Stage7
    <3> QED
      BY <2>8, <3>2 DEF Stage7, Editing
  <2>9. CASE FsConverted \/ Start \/ EarlyInit
    BY <1>2, <2>9 DEF FsConverted, Start, EarlyInit, Editing
  <2> QED
    BY <2>1, <2>2, <2>3, <2>4, <2>5, <2>6, <2>7, <2>8, <2>9, <2>10 DEF Stages, Moves
<1>4. RecoverySteps => Editing \/ Moves
  <2>1. CASE RecoveryMain \/ InstallMounts \/ NoUninstall
    BY <1>2, <2>1 DEF RecoveryMain, InstallMounts, NoUninstall, Editing
  <2>2. CASE InstallClear \/ DoUpgrade
    <3>1. Edited
      BY <2>2, FlagEdits DEF InstallClear, DoUpgrade, Flags
    <3> QED
      BY <2>2, <3>1 DEF InstallClear, DoUpgrade, Editing
  <2>3. CASE UninstallConvert
    <3>1. [v \in Volumes |-> "rfs"] \in [Volumes -> Types \cup {NoType}]
      BY DEF Types
    <3>2. Edited
      BY <2>3, <3>1, WantsEdit DEF UninstallConvert
    <3> QED
      BY <2>3, <3>2 DEF UninstallConvert, Editing
  <2>4. CASE Afterburner
    <3>1. Edited
      BY <1>2, <2>4, SteamAssumption, WantsEdit DEF Afterburner
    <3> QED
      BY <2>4, <3>1 DEF Afterburner, Editing
  <2> QED
    BY <2>1, <2>2, <2>3, <2>4 DEF RecoverySteps, Moves
<1>5. Answers => Editing \/ Moves
  BY <1>2 DEF Answers, FixConvert, FixMount, Convert, Skip, ConfirmYes, ConfirmNo, FsCancel,
      FsAgree, CreateNothing, Create, NotFound, KeepMost, NoPlugin, RunPlugin, Editing, Moves
<1>6. Asks \/ Boots => Editing
  <2>1. CASE RequestUninstall
    <3>1. Edited
      BY <2>1, FlagEdits DEF RequestUninstall, Flags
    <3> QED
      BY <2>1, <3>1 DEF RequestUninstall, Request, Editing
  <2>2. ASSUME NEW w \in Wants, RequestConversion(w) PROVE Editing
    <3>1. Edited
      BY <2>2, SteamAssumption, WantsEdit DEF RequestConversion
    <3> QED
      BY <2>2, <3>1 DEF RequestConversion, Request, Editing
  <2>3. CASE Boots
    BY <1>2, <2>3 DEF Boots, UserBoot, Editing
  <2> QED
    BY <2>1, <2>2, <2>3 DEF Asks
<1> QED
  BY <1>3, <1>4, <1>5, <1>6 DEF Next, Moves

\* An edit keeps the settings where they are.
LEMMA MineEditing ==
  ASSUME TypeInv, KeptInv, MineInv, Editing, Aside \/ FixConvert \/ ConfirmYes
  PROVE  MineInv'
<1>1. UNCHANGED <<rom, save>> /\ failed \subseteq failed' /\ (again => again') /\ pc' \notin Restoring
  BY DEF Aside, FixConvert, ConfirmYes, Convert, Goto, CsPcs, Saving, Restoring, disk, system,
      faults,
         TypeInv, HistoryTypes
<1>2. SystemForsaken => SystemForsaken'
  BY <1>1 DEF SystemForsaken
<1>3. given => given'
  BY DEF Editing
<1> SUFFICES ASSUME ~given', ~SystemForsaken' PROVE MineInv'
  BY DEF MineInv
<1>4. (Mine(conf) => Mine(conf')) /\ (Mine(old) => Mine(old')) /\ (Theirs(conf) => Theirs(conf'))
  BY DEF Editing, Edited, Edits, Mine, Theirs
<1> QED
  BY <1>1, <1>2, <1>3, <1>4 DEF MineInv, Here, SavedMine, Editing

\* The menus of stage 4 do not touch the user's settings, or the user gives them up;
\* an upgrade moves them aside before it writes the new file.
LEMMA MineMoves ==
  ASSUME TypeInv, KeptInv, MineInv, Next, Moves, ~Converting
  PROVE  MineInv'
<1>1. Aside
  <2>1. ~FixConvert /\ ~ConfirmYes
    BY DEF Moves, FixConvert, ConfirmYes, InstallRemove, InstallCopy, UpgradeRemove, UpgradeMove,
           UpgradeCat, UninstallRemove, PowerLoss, Convert, Goto, Boot
  <2> QED
    BY <2>1, AsideSteps
<1>2. SystemForsaken => SystemForsaken'
  BY <1>1 DEF SystemForsaken, Aside
<1>3. given => given'
  BY DEF Moves, InstallRemove, InstallCopy, UpgradeRemove, UpgradeMove, UpgradeCat, UninstallRemove,
         PowerLoss, Keep, history, TypeInv, HistoryTypes
<1> SUFFICES ASSUME ~given', ~SystemForsaken' PROVE MineInv'
  BY DEF MineInv
<1>4. /\ rom = "full" => Here
      /\ rom # "full" \/ pc \in Restoring => SavedMine
      /\ Theirs(conf) /\ Theirs(save.conf)
      /\ pc = "install_menu" => ~Seen
      /\ pc = "install_copy" /\ mounted => conf = NoFile
  BY <1>2, <1>3 DEF MineInv
<1>5. UNCHANGED <<rom, save>> /\ pc' \notin Restoring
  BY <1>1 DEF Aside, CsPcs
<1>6. Here => Here'
  <2>1. CASE InstallRemove
    BY <1>4, <2>1 DEF InstallRemove, Here, Mine, Seen, TypeInv, HistoryTypes
  <2>2. CASE InstallCopy
    BY <1>4, <2>2, FilesAssumption DEF InstallCopy, Here, Mine
  <2>3. CASE UpgradeRemove
    BY <1>4, <2>3 DEF UpgradeRemove, Here, Mine, Theirs, TypeInv, Upgrading
  <2>4. CASE UpgradeMove
    BY <1>4, <2>4 DEF UpgradeMove, Here, Mine, Theirs, TypeInv, Upgrading
  <2>5. CASE UpgradeCat
    BY <2>5, FilesAssumption DEF UpgradeCat, Here, Mine, TypeInv, Upgrading
  <2>6. CASE UninstallRemove
    BY <2>6 DEF UninstallRemove
  <2>7. CASE PowerLoss
    BY <2>7, FilesAssumption DEF PowerLoss, Here, Mine, TypeInv, Upgrading
  <2> QED
    BY <2>1, <2>2, <2>3, <2>4, <2>5, <2>6, <2>7 DEF Moves
<1>7. Theirs(conf')
  <2>1. CASE conf' \in {conf, NoFile, Fresh, Short}
    BY <1>4, <2>1, FilesAssumption DEF Theirs, Fresh
  <2>2. CASE UpgradeCat
    BY <2>2 DEF UpgradeCat, Theirs, TypeInv, Upgrading, Confs
  <2>3. CASE PowerLoss
    <3>1. CASE pc = "upgrade_cat"
      BY <1>4, <2>1, <2>3, <3>1, FilesAssumption DEF PowerLoss, Torn, Seen, TypeInv, Upgrading
    <3>2. CASE pc # "upgrade_cat"
      BY <1>4, <2>1, <2>3, <3>2 DEF PowerLoss, TypeInv, HistoryTypes
    <3> QED
      BY <3>1, <3>2
  <2> QED
    BY <2>1, <2>2, <2>3 DEF Moves, InstallRemove, InstallCopy, UpgradeRemove, UpgradeMove,
        UninstallRemove
<1>8. /\ pc' = "install_menu" => ~Seen'
      /\ pc' = "install_copy" /\ mounted' => conf' = NoFile
  BY DEF Moves, InstallRemove, InstallCopy, UpgradeRemove, UpgradeMove, UpgradeCat, UninstallRemove,
         PowerLoss, Boot, Goto, ram
<1> QED
  BY <1>4, <1>5, <1>6, <1>7, <1>8 DEF MineInv, SavedMine

\* convert_system() takes the settings along.
LEMMA MineConverting ==
  ASSUME TypeInv, KeptInv, MineInv, Converting
  PROVE  MineInv'
<1> USE DEF Goto, Keep, KeepConverting, history, disk, system
<1>1. failed \subseteq failed' /\ again' = again /\ given' = given
  BY FailedGrows DEF Next, Converting, CsMountOld, CsSpace, CsNoSpace, CsRemove, CsBackup, CsFormat,
    CsFormatted, CsFormatFails, CsMountNew, CsRestore, CsRestored, CsRestoreFails, CsClean
<1>2. SystemForsaken => SystemForsaken'
  BY <1>1 DEF SystemForsaken
<1>3. (\E k \in {"tool", "format"} : Fault(k)) => SystemForsaken'
  BY DEF Fault, SystemForsaken
<1> SUFFICES ASSUME ~given', ~SystemForsaken' PROVE MineInv'
  BY DEF MineInv
<1>4. ~given /\ ~SystemForsaken /\ ~Fault("tool") /\ ~Fault("format")
  BY <1>1, <1>2, <1>3
<1>5. Theirs(NoFile) /\ ~Mine(NoFile)
  BY FilesAssumption DEF Theirs, Mine
<1> USE DEF KeptInv, MineInv, SavedWhole, Saving, Restoring
<1>6. CASE CsMountOld \/ CsSpace \/ CsNoSpace
  BY <1>4, <1>6 DEF CsMountOld, CsSpace, CsNoSpace, Here, SavedMine
<1>7. CASE CsRemove \/ CsClean
  BY <1>4, <1>5, <1>7 DEF CsRemove, CsClean, Boot, NoSave, Here
<1>8. CASE CsBackup
  BY <1>4, <1>8 DEF CsBackup, Here, SavedMine
<1>9. CASE CsFormat
  BY <1>4, <1>5, <1>9 DEF CsFormat, SavedMine
<1>10. CASE CsFormatted \/ CsFormatFails \/ CsMountNew
  BY <1>4, <1>10 DEF CsFormatted, CsFormatFails, CsMountNew, Here, SavedMine
<1>11. CASE CsRestore
  BY <1>4, <1>11 DEF CsRestore, SavedMine
<1>12. CASE CsRestored
  BY <1>4, <1>12 DEF CsRestored, Here, SavedMine
<1>13. CASE CsRestoreFails
  BY <1>4, <1>13 DEF CsRestoreFails
<1> QED
  BY <1>6, <1>7, <1>8, <1>9, <1>10, <1>11, <1>12, <1>13 DEF Converting

\* Every step keeps the settings.
LEMMA MineStep == TypeInv /\ KeptInv /\ MineInv /\ [Next]_vars => MineInv'
<1> SUFFICES ASSUME TypeInv, KeptInv, MineInv, [Next]_vars PROVE MineInv'
  OBVIOUS
<1>1. CASE UNCHANGED vars
  BY <1>1 DEF MineInv, Here, SavedMine, Theirs, Mine, Seen, SystemForsaken, vars, ram, disk, system,
              history, faults
<1> QED
  BY <1>1, AsideSteps, EditSteps, MineEditing, MineMoves, MineConverting

\* The user's settings outlive upgrades, conversions of /system and power losses:
\* SettingsKept holds for every layout, any number of requests and power losses.
THEOREM SettingsSurvive == Spec => []SettingsKept
<1>1. Init => KeptInv
  BY DEF Init, KeptInv, Saving, Restoring
<1>2. Init => MineInv
  <2> SUFFICES ASSUME Init, ~given PROVE MineInv
    BY DEF MineInv
  <2>1. PICK n \in {"old", "new"} : conf = [Fresh EXCEPT !.version = n, !.type = fs, !.mine = TRUE]
    BY DEF Init
  <2>2. conf.mine = TRUE
    BY <2>1 DEF Fresh
  <2>3. conf \in Confs
    BY <2>1, StockConf DEF Init
  <2> QED
    BY <2>2, <2>3, FilesAssumption DEF Init, MineInv, Here, Mine, Theirs, NoSave, Restoring
<1>3. KeptInv /\ MineInv => SettingsKept
  BY DEF KeptInv, MineInv, SettingsKept, Here, SavedMine
<1> QED
  BY <1>1, <1>2, <1>3, TypeInit, TypeStep, KeptStep, MineStep, PTL DEF Spec

-----------------------------------------------------------------------------
\* The kernel's own settings ask for nothing.
LEMMA FreshUnflagged ==
  /\ Fresh \in Confs /\ Fresh.flags = {} /\ Fresh.version = "new"
  /\ \A n \in {"old", "new"} : [Fresh EXCEPT !.version = n].flags = {}
BY FreshConf DEF Fresh

\* Only do_steam_install() takes steam.installation away, after do_steam_afterburner().
LEMMA BurntEditing ==
  ASSUME TypeInv, BurntInv, Editing, pc' \notin Restoring
  PROVE  BurntInv'
<1> USE DEF BurntInv
<1>1. /\ pc' = "install_copy" /\ mounted' => conf' = NoFile
      /\ pc' = "install_set" /\ mounted' => conf' = Fresh
      /\ pc' = "install_clear" => burnt'
  BY DEF Editing
<1> SUFFICES ASSUME ~burnt', ~cut', Unburnt(conf') PROVE FALSE
  BY <1>1 DEF Editing
<1>2. ~burnt /\ ~cut /\ pc # "install_clear"
  BY DEF Editing, TypeInv, HistoryTypes
<1>3. Unburnt(conf)
  BY <1>2 DEF Editing, Edited, Edits, Unburnt, Unasked
<1>4. InstallSet /\ mounted /\ conf = Fresh
  BY <1>2, <1>3 DEF Editing
<1>5. conf' = [Fresh EXCEPT !.flags = @ \cup {"installation"}]
  BY <1>4, FreshConf DEF InstallSet, SetFlag, SetConf, Seen
<1>6. "installation" \in conf'.flags /\ conf'.version = "new"
  BY <1>5 DEF Fresh
<1> QED
  BY <1>6 DEF Unburnt, Unasked

\* The menus of stage 4, an uninstallation and a power loss: a file that
\* loses the request, or never got it, was cut.
LEMMA BurntMoves ==
  ASSUME TypeInv, BurntInv, Moves, ~Converting, pc' \notin Restoring
  PROVE  BurntInv'
<1> USE DEF BurntInv, Goto, Boot, Keep, history, ram
<1>1. CASE InstallRemove
  BY <1>1, FilesAssumption DEF InstallRemove, Unburnt, Unasked
<1>2. CASE InstallCopy
  BY <1>2, FreshUnflagged DEF InstallCopy, Unburnt, Unasked, TypeInv, HistoryTypes
<1>3. CASE UpgradeRemove
  BY <1>3 DEF UpgradeRemove
<1>4. CASE UpgradeMove
  BY <1>4, FilesAssumption DEF UpgradeMove, Unburnt, TypeInv, Upgrading
<1>5. CASE UpgradeCat
  BY <1>5 DEF UpgradeCat
<1>6. CASE UninstallRemove
  BY <1>6, FilesAssumption DEF UninstallRemove, Unburnt, Unasked
<1>7. CASE PowerLoss
  <2>1. pc' = "stage3" /\ burnt' = burnt /\ (cut => cut')
    BY <1>7 DEF PowerLoss, TypeInv, HistoryTypes
  <2> SUFFICES ASSUME ~burnt, ~cut', Unburnt(conf') PROVE FALSE
    BY <2>1
  <2>2. ~cut /\ (Unburnt(conf) => pc = "install_set" /\ mounted) /\ pc # "upgrade_cat"
    BY <2>1
  <2>3. CASE conf' = conf
    <3>1. pc = "install_set" /\ mounted /\ conf' = Fresh
      BY <2>2, <2>3
    <3> QED
      BY <1>7, <3>1, FreshUnflagged DEF PowerLoss, TypeInv, HistoryTypes
  <2>4. CASE conf' # conf
    <3>1. conf' \in Torn
      BY <1>7, <2>4 DEF PowerLoss
    <3>2. Seen /\ conf' = [Fresh EXCEPT !.version = conf.version]
      BY <2>2, <3>1, FilesAssumption DEF Torn, Unburnt, Unasked
    <3>3. conf'.flags = {}
      BY <3>2 DEF Fresh
    <3>4. ~Flagged("installation") /\ ~(pc = "install_set" /\ mounted)
      BY <1>7, <3>3 DEF PowerLoss, Unburnt, Unasked, TypeInv, HistoryTypes
    <3> QED
      BY <2>2, <3>2, <3>4 DEF Flagged, Seen, Unburnt, Unasked
  <2> QED
    BY <2>3, <2>4
<1> QED
  BY <1>1, <1>2, <1>3, <1>4, <1>5, <1>6, <1>7 DEF Moves

\* convert_system() restores the file it saved.
LEMMA BurntConverting ==
  ASSUME TypeInv, BurntInv, Converting
  PROVE  BurntInv'
<1> USE DEF BurntInv, Goto, Boot, Keep, KeepConverting, history, ram, disk, system, Restoring
<1>1. ~Unburnt(NoFile)
  BY FilesAssumption DEF Unburnt, Unasked
<1>2. CASE CsMountOld \/ CsSpace \/ CsNoSpace \/ CsRemove
  BY <1>2 DEF CsMountOld, CsSpace, CsNoSpace, CsRemove
<1>3. CASE CsBackup
  BY <1>1, <1>3 DEF CsBackup, NoSave
<1>4. CASE CsFormat \/ CsFormatted \/ CsFormatFails \/ CsMountNew
  BY <1>1, <1>4 DEF CsFormat, CsFormatted, CsFormatFails, CsMountNew
<1>5. CASE CsRestore \/ CsRestored \/ CsRestoreFails \/ CsClean
  BY <1>5 DEF CsRestore, CsRestored, CsRestoreFails, CsClean
<1> QED
  BY <1>2, <1>3, <1>4, <1>5 DEF Converting

\* Every step keeps a pending installation.
LEMMA BurntStep == TypeInv /\ BurntInv /\ [Next]_vars => BurntInv'
<1> SUFFICES ASSUME TypeInv, BurntInv, [Next]_vars PROVE BurntInv'
  OBVIOUS
<1>1. CASE UNCHANGED vars
  BY <1>1 DEF BurntInv, Unburnt, Unasked, vars, ram, disk, system, history, faults
<1>2. CASE Next /\ ~Converting
  <2>1. pc' \notin Restoring
    BY <1>2, AsideSteps DEF Aside, CsPcs, FixConvert, ConfirmYes, Convert, Goto, Restoring
  <2> QED
    BY <1>2, <2>1, EditSteps, BurntEditing, BurntMoves
<1> QED
  BY <1>1, <1>2, BurntConverting

\* No installation is skipped: InstallNotSkipped holds however often power is lost and
\* the phone is booted again between stage 4 and do_steam_install().
THEOREM Installed == Spec => []InstallNotSkipped
<1>1. Init => BurntInv
  BY DEF Init, BurntInv
<1>2. BurntInv => InstallNotSkipped
  BY DEF BurntInv, InstallNotSkipped, Unburnt, Unasked
<1> QED
  BY <1>1, <1>2, TypeInit, TypeStep, BurntStep, PTL DEF Spec

-----------------------------------------------------------------------------
\* A step that leaves /system and fs.system.type alone.
Quiet ==
  /\ fs'["system"] = fs["system"]
  /\ pc' \in Stage4Pcs => pc \in Stage4Pcs /\ systype' = systype
  /\ pc' \in Stage5Pcs => pc \in Stage5Pcs
  /\ pc' \in Stage5Pcs /\ Seen' => Seen /\ conf'.type["system"] = conf.type["system"]

\* Other settings do not matter.
LEMMA SetQuiet ==
  ASSUME TypeInv, mounted' = mounted,
         \/ \E f : SetFlag(f) \/ ClearFlag(f)
         \/ \E w : SetConf([conf EXCEPT !.want = w])
         \/ (\E v \in Others : \E t : NoteType(v, t))
         \/ conf' = conf
  PROVE  Seen' => Seen /\ conf'.type["system"] = conf.type["system"]
<1>1. CASE Seen /\ (\E v \in Others : \E t : NoteType(v, t))
  BY <1>1 DEF NoteType, SetConf, Seen, Confs, Others, Volumes
<1>2. CASE Seen /\ ~(\E v \in Others : \E t : NoteType(v, t))
  BY <1>2 DEF SetFlag, ClearFlag, SetConf, Seen, Confs
<1>3. CASE ~Seen
  BY <1>3 DEF SetFlag, ClearFlag, NoteType, SetConf, Seen
<1> QED
  BY <1>1, <1>2, <1>3

\* The steps that do not.
LEMMA QuietSteps ==
  ASSUME TypeInv, Next
  PROVE  Quiet \/ Stage3 \/ SaveType \/ Converting
<1> USE DEF Goto, Boot, Keep, KeepHistory, KeepConverting, history, ram, disk, system,
            Quiet, Stage4Pcs, Stage5Pcs
<1>1. CASE Stage4 \/ FsConverted \/ Start \/ EarlyInit
  BY <1>1, SetQuiet DEF Stage4, FsConverted, Start, EarlyInit
<1>2. CASE InstallCopy \/ InstallSet \/ UpgradeMove \/ UpgradeCat \/ UpgradeSet
  BY <1>2 DEF InstallCopy, InstallSet, UpgradeMove, UpgradeCat, UpgradeSet
<1>3. CASE Stage5
  BY <1>3, SetQuiet DEF Stage5
<1>4. CASE Stage7
  BY <1>4, SetQuiet DEF Stage7
<1>5. CASE RecoverySteps
  BY <1>5, SetQuiet DEF RecoverySteps, RecoveryMain, InstallMounts, InstallClear, DoUpgrade,
      NoUninstall, UninstallConvert, UninstallRemove, Afterburner, Want
<1>6. CASE Answers
  BY <1>6, SetQuiet DEF Answers, FixConvert, FixMount, Convert, Skip, InstallRemove, UpgradeRemove,
      ConfirmYes, ConfirmNo, FsCancel, FsAgree, CreateNothing, Create, NotFound, KeepMost, NoPlugin,
      RunPlugin
<1>7. CASE Asks \/ Boots \/ PowerLoss
  BY <1>7, SetQuiet DEF Asks, Boots, PowerLoss, Request, RequestUninstall, RequestConversion,
      UserBoot, Want
<1>8. ASSUME NEW v \in Others, FsFormat(v) \/ FsFormatted(v) \/ FsFormatFails(v) PROVE Quiet
  <2>1. fs'["system"] = fs["system"]
    BY <1>8 DEF FsFormat, FsFormatted, FsFormatFails, TypeInv, DiskTypes, Others, Volumes
  <2> QED
    BY <1>8, <2>1, SetQuiet DEF FsFormat, FsFormatted, FsFormatFails
<1>9. ASSUME NEW v \in Others, Stage6Mount(v) \/ Stage6Fails(v) \/ FsSet(v) PROVE Quiet
  <2>1. Seen' => Seen /\ conf'.type["system"] = conf.type["system"]
    BY <1>9, SetQuiet DEF Stage6Mount, Stage6Fails, FsSet, KeepMost
  <2> QED
    BY <1>9, <2>1 DEF Stage6Mount, Stage6Fails, FsSet, KeepMost
<1> QED
  BY <1>1, <1>2, <1>3, <1>4, <1>5, <1>6, <1>7, <1>8, <1>9 DEF Next, Stages

\* fs.system.type is what stage 3 found.
LEMMA SystemStep == TypeInv /\ SystemInv /\ [Next]_vars => SystemInv'
<1> SUFFICES ASSUME TypeInv, SystemInv, [Next]_vars PROVE SystemInv'
  OBVIOUS
<1>1. CASE UNCHANGED vars
  BY <1>1 DEF SystemInv, Seen, vars, ram, disk, system
<1>2. CASE Quiet
  BY <1>2 DEF Quiet, SystemInv
<1>3. CASE Stage3
  BY <1>3 DEF Stage3, SystemInv, Stage5Pcs, Goto, disk
<1>4. CASE SaveType
  <2>1. Seen' => Seen /\ conf'.type["system"] = systype
    BY <1>4 DEF SaveType, SetConf, Seen, Confs, Volumes, ram
  <2> QED
    BY <1>4, <2>1 DEF SaveType, SystemInv, Stage4Pcs, Goto
<1>5. CASE Converting
  <2>1. pc' \notin Stage4Pcs \cup Stage5Pcs
    BY <1>5 DEF Converting, CsMountOld, CsSpace, CsNoSpace, CsRemove, CsBackup, CsFormat,
      CsFormatted, CsFormatFails, CsMountNew, CsRestore, CsRestored, CsRestoreFails, CsClean, Boot,
      Goto, Stage4Pcs, Stage5Pcs
  <2> QED
    BY <2>1 DEF SystemInv
<1> QED
  BY <1>1, <1>2, <1>3, <1>4, <1>5, QuietSteps

\* A failed mkfs stays on record.
LEMMA MkfsGrows == Next => (MkfsFailed => MkfsFailed')
BY FailedGrows DEF MkfsFailed

\* One volume is formatted at a time.
LEMMA OneFormatting ==
  ASSUME NEW u \in Others, NEW v \in Others, Formatting(u), Formatting(v)
  PROVE  u = v
BY DEF Formatting, FirstOf, Before, Others

\* What a settings file says of the volumes another one says, or nothing.
Says(file, c) ==
  c \in Confs => \/ \A v \in Others : c.type[v] = NoType
                 \/ file \in Confs /\ \A v \in Others : c.type[v] = file.type[v]

\* A step that leaves the volumes and fs.*.type alone.
Calm ==
  /\ \A v \in Others : fs'[v] = fs[v]
  /\ unnoted' = unnoted
  /\ pc \notin BusyPcs /\ pc' \notin BusyPcs
  /\ Says(conf, conf')
  /\ pc' \notin Restoring
  /\ pc' = "upgrade_cat" => old' = conf

\* Other settings do not matter.
LEMMA SetSays ==
  ASSUME TypeInv,
         \/ \E f : SetFlag(f) \/ ClearFlag(f)
         \/ \E w : SetConf([conf EXCEPT !.want = w])
         \/ SetConf([conf EXCEPT !.type["system"] = systype])
         \/ conf' = conf \/ conf' = NoFile \/ conf' = Fresh \/ conf' \in Torn
  PROVE  Says(conf, conf')
<1>1. CASE SetConf([conf EXCEPT !.type["system"] = systype])
  BY <1>1 DEF SetConf, Says, Seen, Confs, Others, Volumes
<1>2. CASE (\E f : SetFlag(f) \/ ClearFlag(f)) \/ (\E w : SetConf([conf EXCEPT !.want = w])) \/ conf' = conf
  BY <1>2 DEF SetFlag, ClearFlag, SetConf, Says, Seen, Confs
<1>3. CASE conf' = NoFile \/ conf' = Fresh \/ conf' \in Torn
  BY <1>3, FilesAssumption DEF Says, Torn, Fresh, NoWant, Others, Volumes
<1> QED
  BY <1>1, <1>2, <1>3

\* The steps that do not.
LEMMA CalmSteps ==
  ASSUME TypeInv, Next
  PROVE  \/ Calm \/ UpgradeCat \/ PowerLoss \/ Converting
         \/ \E v \in Others : FsFormat(v) \/ FsFormatted(v) \/ FsFormatFails(v) \/ FsSet(v)
                              \/ Stage6Mount(v) \/ Stage6Fails(v)
<1> USE DEF Goto, Boot, Keep, KeepHistory, history, ram, disk, system, Calm, BusyPcs, Restoring
<1>1. CASE Stage3 \/ Stage4 \/ FsConverted \/ Start \/ EarlyInit
  BY <1>1, SetSays DEF Stage3, Stage4, FsConverted, Start, EarlyInit
<1>2. CASE InstallCopy \/ InstallSet \/ UpgradeMove \/ UpgradeSet \/ SaveType
  BY <1>2, SetSays DEF InstallCopy, InstallSet, UpgradeMove, UpgradeSet, SaveType
<1>3. CASE Stage5
  BY <1>3, SetSays DEF Stage5
<1>4. CASE Stage7
  BY <1>4, SetSays DEF Stage7
<1>5. CASE RecoverySteps
  BY <1>5, SetSays DEF RecoverySteps, RecoveryMain, InstallMounts, InstallClear, DoUpgrade,
      NoUninstall, UninstallConvert, UninstallRemove, Afterburner, Want
<1>6. CASE Answers
  BY <1>6, SetSays DEF Answers, FixConvert, FixMount, Convert, Skip, InstallRemove, UpgradeRemove,
      ConfirmYes, ConfirmNo, FsCancel, FsAgree, CreateNothing, Create, NotFound, KeepMost, NoPlugin,
      RunPlugin
<1>7. CASE Asks \/ Boots
  BY <1>7, SetSays DEF Asks, Boots, Request, RequestUninstall, RequestConversion, UserBoot, Want
<1> QED
  BY <1>1, <1>2, <1>3, <1>4, <1>5, <1>6, <1>7 DEF Next, Stages

\* The type in the settings after set_conf().
LEMMA NoteSays ==
  ASSUME TypeInv, NEW v \in Others, NEW t, NoteType(v, t), conf' \in Confs
  PROVE  /\ conf \in Confs
         /\ \A u \in Others \ {v} : conf'.type[u] = conf.type[u]
         /\ conf'.type[v] = IF Seen THEN t ELSE conf.type[v]
BY DEF NoteType, SetConf, Seen, Confs, Volumes

\* What stages 6 and 7 find or make on a volume they note.
LEMMA NotedStep == TypeInv /\ NotedInv /\ [Next]_vars => NotedInv'
<1> SUFFICES ASSUME TypeInv, NotedInv, [Next]_vars PROVE NotedInv'
  OBVIOUS
<1>1. CASE UNCHANGED vars
  BY <1>1 DEF NotedInv, MkfsFailed, Right, Formatting, vars, ram, disk, system, history, faults
<1> SUFFICES ASSUME Next, ~MkfsFailed' PROVE NotedInv'
  BY <1>1 DEF NotedInv
<1>2. /\ ~MkfsFailed /\ Right(conf)
      /\ pc = "upgrade_cat" => Right(old)
      /\ pc \in Restoring => Right(save.conf)
      /\ pc = "fs_set" => \A v \in Others : Formatting(v) => fs[v] = new[v]
  BY MkfsGrows DEF NotedInv
<1> USE DEF Goto, Keep, history, ram, disk, system
<1>3. CASE Calm
  <2>1. Right(conf)'
    BY <1>2, <1>3 DEF Calm, Right, Says
  <2>2. pc' = "upgrade_cat" => Right(old)'
    BY <1>2, <1>3 DEF Calm, Right
  <2> QED
    BY <1>3, <2>1, <2>2 DEF Calm, NotedInv, BusyPcs
<1>4. CASE UpgradeCat
  <2>1. Right(conf)'
    BY <1>2, <1>4 DEF UpgradeCat, Right, BusyPcs, TypeInv, Upgrading, Confs
  <2> QED
    BY <1>4, <2>1 DEF UpgradeCat, NotedInv, Restoring
<1>5. CASE PowerLoss
  <2>1. fs' = fs /\ pc' = "stage3" /\ unnoted \subseteq unnoted'
    BY <1>5 DEF PowerLoss, Boot
  <2>2. pc \in BusyPcs => \A v \in Others : Formatting(v) => v \in unnoted'
    BY <1>5 DEF PowerLoss, BusyPcs
  <2>3. Says(conf, conf')
    BY <1>5, SetSays DEF PowerLoss
  <2>4. Right(conf)'
    BY <1>2, <2>1, <2>2, <2>3 DEF Right, Says
  <2> QED
    BY <2>1, <2>4 DEF NotedInv, Restoring
<1>6. ASSUME NEW v \in Others, FsFormat(v) \/ FsFormatted(v) PROVE NotedInv'
  <2>1. /\ \A u \in Others \ {v} : fs'[u] = fs[u]
        /\ UNCHANGED <<conf, new, unnoted>> /\ Formatting(v) /\ pc' \in BusyPcs
        /\ pc' # "upgrade_cat" /\ pc' \notin Restoring
    BY <1>6 DEF FsFormat, FsFormatted, BusyPcs, Restoring, TypeInv, DiskTypes, Volumes
  <2>2. Formatting(v)' /\ (pc \in BusyPcs => \A u \in Others : Formatting(u) => u = v)
    BY <2>1, OneFormatting DEF Formatting
  <2>3. Right(conf)'
    BY <1>2, <2>1, <2>2 DEF Right
  <2>4. ASSUME pc' = "fs_set", NEW u \in Others, Formatting(u)' PROVE fs'[u] = new'[u]
    <3>1. Formatting(u) /\ FsFormatted(v)
      BY <1>6, <2>1, <2>4 DEF Formatting, FsFormat
    <3> QED
      BY <2>1, <3>1, OneFormatting DEF FsFormatted, TypeInv, DiskTypes, Volumes
  <2> QED
    BY <2>1, <2>3, <2>4 DEF NotedInv
<1>7. ASSUME NEW v \in Others, FsFormatFails(v) PROVE NotedInv'
  BY <1>7 DEF FsFormatFails, Fault, MkfsFailed
<1>8. ASSUME NEW v \in Others, FsSet(v) PROVE NotedInv'
  <2>1. /\ pc' \in {"stage6", "fs_convert"} /\ fs' = fs /\ fs[v] = new[v] /\ NoteType(v, new[v])
        /\ pc = "fs_set" /\ Formatting(v)
        /\ unnoted' = IF ~Seen THEN unnoted \cup {v} ELSE unnoted \ {v}
    BY <1>2, <1>8 DEF FsSet
  <2>2. \A u \in Others \ {v} : ~Formatting(u)
    BY <2>1, OneFormatting
  <2>3. ASSUME conf' \in Confs, NEW u \in Others PROVE conf'.type[u] \in {NoType, fs[u]} \/ u \in unnoted'
    <3>1. CASE u = v
      BY <2>1, <2>3, <3>1, NoteSays
    <3>2. CASE u # v
      BY <1>2, <2>1, <2>2, <2>3, <3>2, NoteSays DEF Right
    <3> QED
      BY <3>1, <3>2
  <2>4. Right(conf)'
    BY <2>1, <2>3 DEF Right
  <2> QED
    BY <2>1, <2>4 DEF NotedInv, Restoring
<1>9. ASSUME NEW v \in Others, Stage6Mount(v) \/ Stage6Fails(v) PROVE NotedInv'
  <2>1. /\ pc = "stage6" /\ pc' = "stage6" /\ fs' = fs /\ Settle(v)
        /\ conf' = conf \/ NoteType(v, fs[v])
    BY <1>9 DEF Stage6Mount, Stage6Fails
  <2>2. ASSUME conf' \in Confs, NEW u \in Others PROVE conf'.type[u] \in {NoType, fs[u]} \/ u \in unnoted'
    <3>1. conf \in Confs /\ conf'.type[u] \in {conf.type[u], fs[u]}
      BY <2>1, <2>2, NoteSays
    <3>2. conf.type[u] \in {NoType, fs[u]} \/ u \in unnoted
      BY <1>2, <2>1, <3>1 DEF Right, BusyPcs
    <3>3. u \in unnoted => u \in unnoted' \/ conf'.type[u] = fs[u]
      BY <2>1 DEF Settle
    <3> QED
      BY <3>1, <3>2, <3>3
  <2>3. Right(conf)'
    BY <2>1, <2>2 DEF Right
  <2> QED
    BY <2>1, <2>3 DEF NotedInv, Restoring
<1>10. CASE Converting
  <2>1. fs \in [Volumes -> Types \cup {"bad", NoType}] /\ Others \subseteq Volumes /\ "system" \notin Others
    BY DEF TypeInv, DiskTypes, Volumes, Others
  <2>2. /\ \A v \in Others : fs'[v] = fs[v]
        /\ UNCHANGED unnoted
        /\ pc' \notin BusyPcs /\ pc' # "upgrade_cat" /\ pc \notin BusyPcs
    BY <1>10, <2>1 DEF Converting, KeepConverting, Boot, BusyPcs, CsMountOld, CsSpace, CsNoSpace, CsRemove,
      CsBackup, CsFormat, CsFormatted, CsFormatFails, CsMountNew, CsRestore, CsRestored, CsRestoreFails,
      CsClean
  <2>3. conf' \in {conf, NoFile} \/ (pc \in Restoring /\ conf' = save.conf)
    BY <1>10 DEF Converting, Restoring, CsMountOld, CsSpace, CsNoSpace, CsRemove, CsBackup, CsFormat,
      CsFormatted, CsFormatFails, CsMountNew, CsRestore, CsRestored, CsRestoreFails, CsClean
  <2>4. pc' \in Restoring => save'.conf \in {conf, NoFile} \/ (pc \in Restoring /\ save' = save)
    BY <1>10 DEF Converting, NoSave, Boot, Restoring, CsMountOld, CsSpace, CsNoSpace, CsRemove, CsBackup,
      CsFormat, CsFormatted, CsFormatFails, CsMountNew, CsRestore, CsRestored, CsRestoreFails, CsClean
  <2>5. \A f : f = NoFile \/ Right(f) =>
                 (f \in Confs => \A v \in Others : f.type[v] \in {NoType, fs'[v]} \/ v \in unnoted')
    BY <2>2, FilesAssumption DEF Right
  <2>6. Right(conf)' /\ (pc' \in Restoring => Right(save.conf)')
    BY <1>2, <2>3, <2>4, <2>5 DEF Right
  <2> QED
    BY <2>2, <2>6 DEF NotedInv, BusyPcs
<1> QED
  BY <1>3, <1>4, <1>5, <1>6, <1>7, <1>8, <1>9, <1>10, CalmSteps

\* Once steam.conf is gone nothing asks for a conversion any more.
LEMMA UninstallStep == TypeInv /\ SystemInv /\ NotedInv /\ UninstallInv /\ [Next]_vars => UninstallInv'
<1> SUFFICES ASSUME TypeInv, SystemInv, NotedInv, UninstallInv, [Next]_vars PROVE UninstallInv'
  OBVIOUS
<1>1. CASE UNCHANGED vars
  BY <1>1 DEF UninstallInv, Gone, MkfsFailed, vars, ram, disk, system, history, faults
<1> SUFFICES ASSUME Next, ~MkfsFailed' PROVE UninstallInv'
  BY <1>1 DEF UninstallInv
<1>2. ~MkfsFailed
  BY MkfsGrows
<1> USE DEF Goto, Boot, Keep, KeepHistory, history, ram, disk, system, Closed
<1>3. CASE UninstallRemove
  <2>1. Seen /\ conf \in Confs /\ pc = "uninstall" /\ \A v \in Volumes : conf.type[v] = "rfs"
    BY <1>3 DEF UninstallRemove, Flagged, Seen, AllRfs
  <2>2. fs["system"] = "rfs"
    BY <2>1 DEF SystemInv, Stage5Pcs, Volumes
  <2>3. \A v \in Others : fs[v] = "rfs" \/ v \in unnoted
    BY <1>2, <2>1, SteamAssumption DEF NotedInv, Right, BusyPcs, Volumes, Types
  <2> QED
    BY <1>3, <2>2, <2>3, FilesAssumption DEF UninstallRemove, UninstallInv, Gone, CsPcs, Saving, Restoring
<1> SUFFICES ASSUME ~UninstallRemove, uninstalled' PROVE Gone'
  BY <1>3 DEF UninstallInv
<1>4. uninstalled
  <2>1. CASE Editing
    BY <2>1 DEF Editing
  <2>2. CASE Converting
    BY <2>2 DEF Converting, CsMountOld, CsSpace, CsNoSpace, CsRemove, CsBackup, CsFormat, CsFormatted,
      CsFormatFails, CsMountNew, CsRestore, CsRestored, CsRestoreFails, CsClean, KeepConverting
  <2>3. CASE InstallRemove \/ InstallCopy \/ UpgradeRemove \/ UpgradeMove \/ UpgradeCat \/ PowerLoss
    BY <2>3 DEF InstallRemove, InstallCopy, UpgradeRemove, UpgradeMove, UpgradeCat, PowerLoss,
                TypeInv, HistoryTypes
  <2> QED
    BY <2>1, <2>2, <2>3, EditSteps DEF Moves
<1>5. Gone
  BY <1>2, <1>4 DEF UninstallInv
<1>6. ~Seen /\ fs["system"] = "rfs" /\ fs["system"] # NoType /\ fs["system"] # "bad"
  BY <1>5, SteamAssumption DEF Gone, Seen, Types
<1>7. ~Converting
  BY <1>5 DEF Gone, CsPcs, Saving, Restoring, Converting, CsMountOld, CsSpace, CsNoSpace, CsRemove,
    CsBackup, CsFormat, CsFormatted, CsFormatFails, CsMountNew, CsRestore, CsRestored, CsRestoreFails, CsClean
<1>8. \A v \in Others : ~Formatting(v) /\ ~FsFormat(v) /\ ~FsFormatted(v) /\ ~FsFormatFails(v) /\ ~FsSet(v)
  BY <1>5 DEF Gone, FsFormat, FsFormatted, FsFormatFails, FsSet, Formatting, FirstOf, Nothing
<1>9. \A v \in Others : \A t : ~Create(v, t)
  BY DEF Create
<1>10. fs'["system"] = "rfs" /\ \A v \in Others : fs'[v] = "rfs" \/ v \in unnoted'
  <2>1. fs' = fs
    BY <1>7, <1>8 DEF Next, Stages, RecoverySteps, Answers, Asks, Boots, PowerLoss,
      Stage3, Stage4, InstallCopy, InstallSet, UpgradeMove, UpgradeCat, UpgradeSet, SaveType, Stage5,
      Stage7, FsConverted, Start, EarlyInit, Stage6Mount, Stage6Fails, RecoveryMain, InstallMounts,
      InstallClear, DoUpgrade, NoUninstall, UninstallConvert, UninstallRemove, Afterburner, FixConvert,
      FixMount, Skip, InstallRemove, UpgradeRemove, ConfirmYes, ConfirmNo, FsCancel, FsAgree, CreateNothing,
      Create, NoPlugin, RunPlugin, RequestUninstall, RequestConversion, UserBoot
  <2>2. unnoted \subseteq unnoted'
    <3>1. CASE Calm \/ UpgradeCat \/ PowerLoss
      BY <3>1 DEF Calm, UpgradeCat, PowerLoss
    <3>2. ASSUME NEW v \in Others, Stage6Mount(v) \/ Stage6Fails(v) PROVE unnoted \subseteq unnoted'
      BY <1>6, <3>2 DEF Stage6Mount, Stage6Fails, Settle
    <3> QED
      BY <1>7, <1>8, <3>1, <3>2, CalmSteps
  <2> QED
    BY <1>5, <2>1, <2>2 DEF Gone
<1>11. conf' \notin Confs
  <2>1. CASE Editing
    BY <1>5, <2>1 DEF Gone, Editing, Edited
  <2>2. CASE Moves
    <3>1. InstallRemove \/ InstallCopy \/ PowerLoss
      BY <1>5, <1>7, <2>2 DEF Moves, Gone, UpgradeRemove, UpgradeMove, UpgradeCat
    <3>2. CASE InstallRemove \/ InstallCopy
      BY <1>5, <3>2, FilesAssumption DEF Gone, InstallRemove, InstallCopy, TypeInv, HistoryTypes
    <3>3. CASE PowerLoss
      BY <1>5, <1>6, <3>3, FilesAssumption DEF Gone, PowerLoss, Torn
    <3> QED
      BY <3>1, <3>2, <3>3
  <2> QED
    BY <2>1, <2>2, EditSteps
<1>12. new' = Nothing
  <2>1. CASE Stage7
    BY <1>6, <2>1 DEF Stage7, Nothing
  <2>2. CASE FsAgree
    BY <1>5, <2>2 DEF FsAgree, Gone, Nothing
  <2>3. new' = new \/ new' = Nothing \/ Stage7 \/ FsAgree
    BY <1>7, <1>8, <1>9 DEF Next, Stages, RecoverySteps, Answers, Asks, Boots, PowerLoss,
      Stage3, Stage4, InstallCopy, InstallSet, UpgradeMove, UpgradeCat, UpgradeSet, SaveType, Stage5,
      FsConverted, Start, EarlyInit, Stage6Mount, Stage6Fails, RecoveryMain, InstallMounts, InstallClear,
      DoUpgrade, NoUninstall, UninstallConvert, UninstallRemove, Afterburner, FixConvert, FixMount, Skip,
      InstallRemove, UpgradeRemove, ConfirmYes, ConfirmNo, FsCancel, CreateNothing, NoPlugin, RunPlugin,
      RequestUninstall, RequestConversion, UserBoot
  <2> QED
    BY <1>5, <2>1, <2>2, <2>3 DEF Gone
<1>13. pc' \notin CsPcs \cup Closed
  <2>1. pc' \notin CsPcs
    BY <1>5, <1>7, AsideSteps DEF Aside, Gone, FixConvert, ConfirmYes
  <2>2. pc' \notin Closed
    <3>1. Stages => pc' \notin Closed
      BY <1>5, <1>6, <1>8 DEF Stages, Gone,
        Stage3, Stage4, InstallCopy, InstallSet, UpgradeMove, UpgradeCat, UpgradeSet, SaveType, Stage5,
        Stage6Mount, Stage6Fails, Stage7, FsConverted, Start, EarlyInit
    <3>2. RecoverySteps \/ Answers => pc' \notin Closed
      BY <1>5, <1>9 DEF RecoverySteps, Answers, Gone, RecoveryMain, InstallMounts, InstallClear,
        DoUpgrade, NoUninstall, UninstallConvert, UninstallRemove, Afterburner, FixConvert, FixMount, Convert,
        Skip, InstallRemove, UpgradeRemove, ConfirmYes, ConfirmNo, FsCancel, FsAgree, CreateNothing, NotFound,
        NoPlugin, RunPlugin
    <3>3. Asks \/ Boots \/ PowerLoss => pc' \notin Closed
      BY <1>5 DEF Asks, Boots, PowerLoss, Gone, Request, RequestUninstall, RequestConversion,
          UserBoot
    <3> QED
      BY <1>7, <3>1, <3>2, <3>3 DEF Next
  <2> QED
    BY <2>1, <2>2
<1> QED
  BY <1>10, <1>11, <1>12, <1>13 DEF Gone

\* do_steam_uninstall() leaves a phone that a kernel without steam can run: UninstallSafe
\* holds although only the settings are looked at, never the volumes; a volume that is
\* not rfs was formatted by a mkfs that failed, or lost power before set_conf().
THEOREM Uninstalled == Spec => []UninstallSafe
<1>1. Init => SystemInv /\ NotedInv /\ UninstallInv
  <2> SUFFICES ASSUME Init PROVE SystemInv /\ NotedInv /\ UninstallInv
    OBVIOUS
  <2>1. conf \in Confs => conf.type = fs
    BY FilesAssumption DEF Init, Fresh
  <2> QED
    BY <2>1 DEF Init, SystemInv, NotedInv, Right, UninstallInv, Stage4Pcs, Stage5Pcs, Restoring
<1>2. UninstallInv => UninstallSafe
  BY DEF UninstallInv, UninstallSafe, Gone, MkfsFailed, Volumes
<1> QED
  BY <1>1, <1>2, TypeInit, TypeStep, SystemStep, NotedStep, UninstallStep, PTL DEF Spec
=============================================================================
