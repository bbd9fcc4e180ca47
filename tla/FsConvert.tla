----------------------------- MODULE FsConvert -----------------------------
(***************************************************************************)
(* Stages 6 and 7 of steam_init_main() (init.c): mounting /cache, /data    *)
(* and /dbdata, and convert_filesystems(), which backs them up to the SD   *)
(* card (nandroid.c), formats them (roots.c) and restores them.  Power may *)
(* be lost, and tools may fail, anywhere; every boot runs the stages again. *)
(*                                                                         *)
(* A type stands for everything TYPE_... says of a volume (file system,    *)
(* loop image, encryption); a password that is not given is a mount that   *)
(* fails.  A volume may mount under a type it is not of: the driver of     *)
(* ext4 takes ext2, and the base of a loop volume mounts without its image. *)
(***************************************************************************)
EXTENDS Naturals, FiniteSets

CONSTANTS
  Types,       \* the types a volume may be formatted to
  None,        \* 0: no type
  MountsAs,    \* the types of volumes that check_and_mount() of a type succeeds on
  Plain,       \* the type without TYPE_LOOP: what mkfs makes, the image comes after
  Layouts,     \* the file systems at the start
  Requests,    \* the conversions asked for at the start
  MaxMishaps   \* bound: power losses and failing tools

Volumes == {"cache", "data", "dbdata"}

ASSUME TypesAssumption == None \notin Types
ASSUME MountsAssumption ==
  /\ MountsAs \in [Types -> SUBSET Types] /\ \A t \in Types : t \in MountsAs[t]
  /\ Plain \in [Types -> Types] /\ \A t \in Types : Plain[Plain[t]] = Plain[t]
  /\ \A t \in Types, u \in Types : u # t /\ u \in MountsAs[t] => Plain[u] \in MountsAs[t]
ASSUME StartAssumption ==
  /\ Layouts \subseteq [Volumes -> Types]
  /\ Requests \subseteq [Volumes -> Types \cup {None}]
ASSUME MishapsAssumption == MaxMishaps \in Nat

Choices == {"full", "onlybackup", "rmbackup", "rmall", "cancel"}

VARIABLES
  fs,        \* the file system on each volume
  content,   \* what it holds
  settings,  \* is there any setting? write_conf() adds none to an empty list
  conf,      \* fs.<volume>.type
  want,      \* fs.<volume>.convertto
  images,    \* <volume>.img in the backup directory
  md5,       \* is nandroid.md5 there?
  pc,        \* where the boot is
  caller,    \* where it goes on after mounting or formatting
  cur,       \* the volume it is at
  todo,      \* the volumes still to come
  target,    \* the type being formatted
  mounted,   \* the type it is mounted as
  type,      \* cache_type, data_type, dbdata_type
  new,       \* newcache, newdata, newdbdata
  choice,    \* the user's answer, kept over a power loss as history
  asked,     \* history: the requests at the start
  discarded, \* history: volumes the user agreed to lose
  torn,      \* history: volumes whose format failed, or was cut off before set_conf()
  mishaps, failed   \* how many mishaps, and of which kinds

disk == <<settings, fs, content, conf, want, images, md5>>
ram == <<caller, cur, todo, target, mounted, type, new>>
history == <<choice, asked, discarded, torn, mishaps, failed>>
vars == <<pc, ram, disk, history>>

Nothing == [v \in Volumes |-> None]

Init ==
  /\ fs \in Layouts
  /\ content = [v \in Volumes |-> "user"]
  /\ settings \in BOOLEAN
  /\ conf \in (IF settings THEN {fs, Nothing} ELSE {Nothing})
  /\ want \in (IF settings THEN Requests ELSE {Nothing})
  /\ images = [v \in Volumes |-> "none"] /\ md5 = FALSE
  /\ pc = "stage6" /\ caller = "stage6" /\ cur = "cache" /\ todo = Volumes
  /\ target = None /\ mounted = Nothing
  /\ type = Nothing /\ new = Nothing
  /\ choice = "none" /\ asked = want /\ discarded = {} /\ torn = {}
  /\ mishaps = 0 /\ failed = {}

-----------------------------------------------------------------------------
Goto(p) == pc' = p
Fault(k) ==
  /\ mishaps < MaxMishaps /\ mishaps' = mishaps + 1
  /\ failed' = failed \cup {k}

\* The order of steam_init_main() and convert_filesystems(), and of nandroid.c.
StageRank == [v \in Volumes |-> CASE v = "cache" -> 1 [] v = "data" -> 2 [] v = "dbdata" -> 3]
BackupRank == [v \in Volumes |-> CASE v = "data" -> 1 [] v = "dbdata" -> 2 [] v = "cache" -> 3]
First(rank) == CHOOSE v \in todo : \A u \in todo : rank[v] <= rank[u]

\* The next volume of a loop.
Take(rank) == todo # {} /\ cur' = First(rank) /\ todo' = todo \ {cur'}

(***************************************************************************)
(* mount_from_config_or_autodetect()                                       *)
(***************************************************************************)
Mounts(t) == mounted' = [mounted EXCEPT ![cur] = t]
KeepUser == UNCHANGED <<choice, asked, discarded>>
KeepHistory == UNCHANGED history
KeepLoop == UNCHANGED <<caller, cur, todo>>

\* set_conf("fs.<volume>.type", t): nothing is stored in an empty list.
Note(t) == conf' = IF settings THEN [conf EXCEPT ![cur] = t] ELSE conf

\* check_and_mount() as the type in the settings.
ConfMounts == conf[cur] # None /\ fs[cur] \in MountsAs[conf[cur]]

\* The settings are believed when the volume mounts under the type they give;
\* otherwise filesystem_check() finds the type, which goes into the settings.
Mount ==
  /\ pc = "mount" /\ fs[cur] \in Types
  /\ IF ConfMounts THEN Mounts(conf[cur]) /\ UNCHANGED conf
                   ELSE Mounts(fs[cur]) /\ Note(fs[cur])
  /\ Goto(caller)
  /\ KeepLoop /\ UNCHANGED <<target, type, new, settings, fs, content, want, images, md5>> /\ KeepHistory

\* The mount fails all the same: the type cannot be found, or it is found and noted,
\* and the second mount fails or not.
MountFails ==
  /\ pc = "mount" /\ fs[cur] \in Types
  /\ Fault("mount")
  /\ \/ Goto("create") /\ UNCHANGED <<conf, mounted>>
     \/ Goto(caller) /\ Note(fs[cur]) /\ \E t \in {None, fs[cur]} : Mounts(t)
  /\ KeepLoop /\ KeepUser /\ UNCHANGED <<target, type, new, settings, fs, content, want, images, md5, torn>>

MountUnknown ==
  /\ pc = "mount" /\ fs[cur] = None
  /\ Goto("create")
  /\ UNCHANGED <<ram, disk, history>>

\* filesystem_create() asks the user; it offers no loop images.
Create(t) ==
  /\ pc = "create" /\ Plain[t] = t
  /\ target' = t
  /\ discarded' = discarded \cup {cur}
  /\ Goto("format")
  /\ KeepLoop /\ UNCHANGED <<mounted, type, new, disk, choice, asked, torn, mishaps, failed>>

CreateNothing ==
  /\ pc = "create"
  /\ Goto(caller)
  /\ UNCHANGED <<ram, disk, history>>

(***************************************************************************)
(* filesystem_format(); then the volume is mounted and its type noted.     *)
(***************************************************************************)
\* What is there meanwhile does not mount, or is the base without its image.
FormatBegin ==
  /\ pc = "format"
  /\ \E t \in {None, Plain[target]} : fs' = [fs EXCEPT ![cur] = t]
  /\ content' = [content EXCEPT ![cur] = "empty"]
  /\ Goto("formatting")
  /\ UNCHANGED <<ram, settings, conf, want, images, md5, history>>

FormatEnd ==
  /\ pc = "formatting"
  /\ fs' = [fs EXCEPT ![cur] = target]
  /\ Goto("set_type")
  /\ UNCHANGED <<ram, settings, content, conf, want, images, md5, history>>

\* mkfs did not start or did not finish: no caller looks.
FormatFails ==
  /\ pc \in {"format", "formatting"}
  /\ Fault("format") /\ torn' = torn \cup {cur}
  /\ Goto("set_type")
  /\ KeepUser /\ UNCHANGED <<ram, disk>>

\* check_and_mount() and set_conf(); the one may fail, the other is done anyway.
MountedAs(t) == IF fs[cur] \in MountsAs[t] THEN t ELSE None
\* Mutant: the new type is not noted.
SetTypeNot ==
  /\ pc = "set_type"
  /\ Mounts(MountedAs(target)) /\ KeepHistory
  /\ Goto(caller)
  /\ KeepLoop /\ UNCHANGED <<target, type, new, disk>>
\* Mutant: the volume is not mounted again.
SetTypeOnly ==
  /\ pc = "set_type"
  /\ Note(target)
  /\ Goto(caller)
  /\ KeepLoop /\ KeepHistory /\ UNCHANGED <<target, mounted, type, new, settings, fs, content, want, images, md5>>
SetType ==
  /\ pc = "set_type"
  /\ Note(target)
  /\ \/ Mounts(MountedAs(target)) /\ KeepHistory
     \/ Mounts(None) /\ Fault("mount") /\ KeepUser /\ UNCHANGED torn
  /\ Goto(caller)
  /\ KeepLoop /\ UNCHANGED <<target, type, new, settings, fs, content, want, images, md5>>

(***************************************************************************)
(* Stage 6, and stage 7 up to the menu.                                    *)
(***************************************************************************)
Stage6 ==
  /\ pc = "stage6"
  /\ Take(StageRank) /\ caller' = "stage6_type"
  /\ Goto("mount")
  /\ UNCHANGED <<target, mounted, type, new, disk, history>>

Stage6Type ==
  /\ pc = "stage6_type"
  /\ type' = [type EXCEPT ![cur] = mounted[cur]]
  /\ Goto("stage6")
  /\ KeepLoop /\ UNCHANGED <<target, mounted, new, disk, history>>

ReadRequests ==
  /\ pc = "stage6" /\ todo = {}
  /\ new' = want /\ todo' = Volumes
  /\ Goto("clear")
  /\ UNCHANGED <<caller, cur, target, mounted, type, disk, history>>

\* set_conf("fs.<volume>.convertto", NULL)
ClearRequest ==
  /\ pc = "clear"
  /\ Take(StageRank)
  /\ want' = [want EXCEPT ![cur'] = None]
  /\ UNCHANGED <<pc, caller, target, mounted, type, new, settings, fs, content, conf, images, md5, history>>

\* A request for the type a volume has is dropped; newdbdata is compared with
\* data_type.
\* Mutant: newcache is compared with data_type as well.
StillNewMixed(v) == IF v \in {"dbdata", "cache"} THEN new[v] # type["data"] ELSE new[v] # type[v]
StillNew(v) == IF v = "dbdata" THEN new[v] # type["data"] ELSE new[v] # type[v]

DropRequests ==
  /\ pc = "clear" /\ todo = {}
  /\ new' = [v \in Volumes |-> IF StillNew(v) THEN new[v] ELSE None]
  /\ Goto(IF new' = Nothing THEN "running" ELSE "menu")
  /\ UNCHANGED <<caller, cur, todo, target, mounted, type, disk, history>>

(***************************************************************************)
(* convert_filesystems(): the menu, then nandroid_backup_flags().          *)
(***************************************************************************)
ToConvert == {v \in Volumes : new[v] # None /\ new[v] # type[v]}

Choose(c) ==
  /\ pc = "menu"
  /\ choice' = c
  /\ discarded' = IF c = "rmall" THEN discarded \cup ToConvert ELSE discarded
  /\ todo' = IF c = "cancel" THEN {} ELSE ToConvert
  /\ Goto(CASE c = "cancel" -> "running" [] c = "rmall" -> "convert" [] OTHER -> "backup")
  /\ UNCHANGED <<caller, cur, target, mounted, type, new, disk, asked, torn, mishaps, failed>>

\* ensure_root_path_mounted()
EnsureMountedThen(p) ==
  /\ caller' = p
  /\ Goto(IF mounted[cur'] # None THEN p ELSE "mount")

Backup ==
  /\ pc = "backup"
  /\ Take(BackupRank) /\ EnsureMountedThen("copy")
  /\ UNCHANGED <<target, mounted, type, new, disk, history>>

CopyBegin ==
  /\ pc = "copy"
  /\ IF mounted[cur] # None
       THEN images' = [images EXCEPT ![cur] = "partial"] /\ Goto("copying")
       ELSE UNCHANGED images /\ Goto("running")
  /\ UNCHANGED <<ram, settings, fs, content, conf, want, md5, history>>

\* Only the cache stays mounted.
Unmount == mounted' = [mounted EXCEPT ![cur] = IF cur = "cache" THEN @ ELSE None]

CopyEnd ==
  /\ pc = "copying"
  /\ images' = [images EXCEPT ![cur] = content[cur]]
  /\ Unmount /\ Goto("backup")
  /\ KeepLoop /\ UNCHANGED <<target, type, new, settings, fs, content, conf, want, md5, history>>

\* mkyaffs2image(), the SD card or md5sum: any failure of the backup ends the conversion before a volume is touched.
\* Mutant: it goes on.
BackupFailsOn ==
  /\ \/ pc = "copying" /\ Unmount
     \/ pc = "backup" /\ todo \in {ToConvert, {}} /\ UNCHANGED mounted
  /\ Fault("backup")
  /\ todo' = ToConvert /\ Goto("convert")
  /\ KeepUser /\ UNCHANGED <<caller, cur, target, type, new, disk, torn>>
BackupFails ==
  /\ \/ pc = "copying" /\ Unmount
     \/ pc = "backup" /\ todo \in {ToConvert, {}} /\ UNCHANGED mounted
  /\ Fault("backup")
  /\ Goto("running")
  /\ KeepLoop /\ KeepUser /\ UNCHANGED <<target, type, new, disk, torn>>

BackupDone ==
  /\ pc = "backup" /\ todo = {}
  /\ md5' = TRUE
  /\ todo' = ToConvert /\ Goto("convert")
  /\ UNCHANGED <<caller, cur, target, mounted, type, new, settings, fs, content, conf, want, images, history>>

(***************************************************************************)
(* The conversion, and nandroid_restore().                                 *)
(***************************************************************************)
\* Mutant: the volume is formatted while it is mounted.
ConvertMounted ==
  /\ pc = "convert"
  /\ Take(StageRank) /\ caller' = "convert"
  /\ target' = new[cur']
  /\ Goto("format")
  /\ UNCHANGED <<mounted, type, new, disk, history>>
Convert ==
  /\ pc = "convert"
  /\ Take(StageRank) /\ caller' = "convert"
  /\ mounted' = [mounted EXCEPT ![cur'] = None]
  /\ target' = new[cur']
  /\ Goto("format")
  /\ UNCHANGED <<type, new, disk, history>>

\* "%s.img not found. Skipping restore of %s."
ToRestore == {v \in Volumes : images[v] # "none"}

ConvertDone ==
  /\ pc = "convert" /\ todo = {}
  /\ IF choice \in {"full", "rmbackup"}
       THEN todo' = ToRestore /\ Goto("restore")
       ELSE UNCHANGED todo /\ Goto("running")
  /\ UNCHANGED <<caller, cur, target, mounted, type, new, disk, history>>

Restore ==
  /\ pc = "restore"
  /\ Take(BackupRank) /\ EnsureMountedThen("unpack")
  /\ UNCHANGED <<target, mounted, type, new, disk, history>>

\* "rm -rf", which takes the image of a loop volume too when its base is what is
\* mounted; then unyaffs().  A volume that does not mount ends the restore.
UnpackBegin ==
  /\ pc = "unpack"
  /\ IF mounted[cur] # None
       THEN /\ content' = [content EXCEPT ![cur] = "partial"]
            /\ fs' = [fs EXCEPT ![cur] = IF mounted[cur] = @ THEN @ ELSE Plain[@]]
            /\ Goto("unpacking")
       ELSE UNCHANGED <<fs, content>> /\ Goto("restored")
  /\ UNCHANGED <<ram, settings, conf, want, images, md5, history>>

UnpackEnd ==
  /\ pc = "unpacking"
  /\ content' = [content EXCEPT ![cur] = images[cur]]
  /\ Mounts(None) /\ Goto("restore")
  /\ KeepLoop /\ UNCHANGED <<target, type, new, settings, fs, conf, want, images, md5, history>>

\* The SD card, the md5 sums or unyaffs(): the rest is not restored.
RestoreFails ==
  /\ pc = "unpacking" \/ (pc = "restore" /\ todo = ToRestore)
  /\ Fault("restore")
  /\ Goto("restored")
  /\ KeepUser /\ UNCHANGED <<ram, disk, torn>>

RestoreDone ==
  /\ pc = "restore" /\ todo = {}
  /\ Goto("restored")
  /\ UNCHANGED <<ram, disk, history>>

\* The result of the restore is not looked at.
RemoveBackup ==
  /\ pc = "restored"
  /\ IF choice = "rmbackup"
       THEN images' = [v \in Volumes |-> "none"] /\ md5' = FALSE
       ELSE UNCHANGED <<images, md5>>
  /\ Goto("running")
  /\ UNCHANGED <<ram, settings, fs, content, conf, want, history>>

(***************************************************************************)
(* The next boot.                                                          *)
(***************************************************************************)
Boot ==
  /\ \/ pc = "running" /\ KeepHistory
     \/ /\ pc # "running" /\ Fault("power") /\ KeepUser
        /\ torn' = IF pc \in {"formatting", "set_type"} THEN torn \cup {cur} ELSE torn
  /\ Goto("stage6") /\ caller' = "stage6" /\ cur' = "cache" /\ todo' = Volumes
  /\ target' = None /\ mounted' = Nothing
  /\ type' = Nothing /\ new' = Nothing
  /\ UNCHANGED disk

Mounting == Mount \/ MountFails \/ MountUnknown \/ CreateNothing \/ \E t \in Types : Create(t)
Formatting == FormatBegin \/ FormatEnd \/ FormatFails \/ SetType
Stages == Stage6 \/ Stage6Type \/ ReadRequests \/ ClearRequest \/ DropRequests
BackingUp == Backup \/ CopyBegin \/ CopyEnd \/ BackupFails \/ BackupDone
Converting == Convert \/ ConvertDone
Restoring == Restore \/ UnpackBegin \/ UnpackEnd \/ RestoreFails \/ RestoreDone \/ RemoveBackup

Next ==
  \/ Mounting \/ Formatting \/ Stages \/ BackingUp \/ Converting \/ Restoring \/ Boot
  \/ \E c \in Choices : Choose(c)

Spec == Init /\ [][Next]_vars

-----------------------------------------------------------------------------
\* Type invariant of the boot.
TypeOK ==
  /\ fs \in [Volumes -> Types \cup {None}] /\ conf \in [Volumes -> Types \cup {None}]
  /\ want \in [Volumes -> Types \cup {None}] /\ new \in [Volumes -> Types \cup {None}]
  /\ type \in [Volumes -> Types \cup {None}] /\ target \in Types \cup {None}
  /\ content \in [Volumes -> {"user", "partial", "empty"}]
  /\ images \in [Volumes -> {"none", "user", "partial", "empty"}]
  /\ mounted \in [Volumes -> Types \cup {None}] /\ cur \in Volumes /\ todo \subseteq Volumes
  /\ settings \in BOOLEAN /\ torn \subseteq Volumes
  /\ \A v \in Volumes : mounted[v] # None => fs[v] \in MountsAs[mounted[v]]

\* Files of a volume are never lost: they are on the volume, or in a backup whose
\* md5 sums were written, whenever power is lost or a tool fails, unless the user
\* agreed to lose them, or chose to erase the backup and the restore, whose result
\* convert_filesystems() does not look at, was not complete.
DataKept ==
  \A v \in Volumes :
    \/ content[v] = "user"
    \/ images[v] = "user" /\ md5
    \/ v \in discarded
    \/ choice = "rmbackup" /\ failed \cap {"mount", "format", "restore"} # {}

\* The settings know what is mounted: at the end of the boot, after any failure and
\* power loss, a mounted volume is mounted as fs.<volume>.type says, if there are
\* settings, and that is its type; the exception is a volume whose format failed or lost
\* power before set_conf(), which may go on mounting under a type that it is not of.
TypeNoted ==
  pc = "running" =>
    \A v \in Volumes : mounted[v] # None =>
      /\ settings => conf[v] = mounted[v]
      /\ mounted[v] = fs[v] \/ v \in torn

Honoured(v) ==
  pc = "running" /\ mishaps = 0 /\ choice \notin {"none", "cancel"}
    => asked[v] \in {None, fs[v]}

\* A conversion that was asked for and not cancelled is done when nothing goes wrong;
\* not so for /dbdata, whose request StillNew() may drop.
Converted == Honoured("cache") /\ Honoured("data")

\* "Mount all other filesystems" (init.c): when nothing goes wrong, the main system,
\* whose own mounts fix_init() comments out, finds its volumes mounted, also those that
\* were unmounted for their backup and formatted since; but not those that
\* nandroid_restore(), which is not given BACKUP_NOUMOUNT, has restored.
MountedAgain ==
  pc = "running" /\ mishaps = 0 =>
    \A v \in Volumes : mounted[v] # None \/ (choice \in {"full", "rmbackup"} /\ v \in ToConvert)
=============================================================================
