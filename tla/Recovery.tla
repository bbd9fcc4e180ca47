------------------------------ MODULE Recovery ------------------------------
(***************************************************************************)
(* The recovery run: recovery.c with the bootloader message (bootloader.c) *)
(* and the firmware hand-over (firmware.c) it drives, the bootloader and   *)
(* the main system around them, and power loss at any point.               *)
(*                                                                         *)
(* HasMisc tells the two builds apart.  TRUE: a board with a misc          *)
(* partition, whose CACHE: and DATA: are yaffs2 on MTD.  FALSE: the build  *)
(* BOARD_HAS_NO_MISC_PARTITION of the device headers in src/device, where  *)
(* every bootloader-message call is compiled out and a format is the       *)
(* "rm -rf" of format_non_mtd_device.                                      *)
(***************************************************************************)
EXTENDS Naturals, Sequences

CONSTANTS
  HasMisc,      \* is the bootloader message compiled in?
  Requests,     \* the argument sets the main system may write to COMMAND_FILE
  MaxRequests,  \* bound: requests the main system makes
  MaxMishaps    \* bound: power losses and failing operations, together

Options == {"wipe_data", "wipe_cache", "update_package", "send_intent"}
Roots == {"DATA", "DATADATA", "CACHE"}
Mishaps == {"power", "misc_read", "misc_write", "format", "image", "install"}

ASSUME HasMiscAssumption == HasMisc \in BOOLEAN
ASSUME RequestsAssumption == Requests \subseteq SUBSET Options
ASSUME BoundsAssumption ==
  /\ MaxRequests \in Nat
  /\ MaxMishaps \in Nat

VARIABLES
  mode,      \* who runs: "bootloader", "flashing", "main" or "recovery"
  reason,    \* the last reboot() asked for "recovery"; lost with power
  misc,      \* struct bootloader_message in the misc partition
  vol,       \* what each volume holds
  files,     \* the files of CACHE: that matter here
  command,   \* the arguments COMMAND_FILE holds
  image,     \* the update image in the raw cache partition
  system,    \* the system partition a package writes
  radio,     \* the radio or hboot firmware the bootloader flashes
  pc,        \* where recovery's main() is
  argv,      \* its options
  status,    \* main()'s status
  todo,      \* roots still to erase ...
  cont,      \* ... and where to go on afterwards
  inMenu,    \* is prompt_and_wait() on the stack?
  pending,   \* the remembered firmware update, by how its package ended
  text,      \* show_text
  request,   \* history: the request being served
  attended,  \* history: prompt_and_wait() ran since that request
  requests,  \* bounded counters: requests made,
  faults     \* and mishaps of each kind

ram == <<argv, status, todo, cont, inMenu, pending, text>>
disk == <<misc, vol, files, command, image, system, radio>>
history == <<request, attended, requests, faults>>
vars == <<mode, reason, pc, ram, disk, history>>

Messages == [command : {"none", "boot-recovery", "update"}, recovery : BOOLEAN,
             args : SUBSET Options]
Blank == [command |-> "none", recovery |-> FALSE, args |-> {}]
\* Mutants: argv[0] written as an argument; the command field left empty.
MessageWithProgram(cmd, args) ==
  [command |-> cmd, recovery |-> TRUE, args |-> args \cup {"recovery"}]
MessageWithoutCommand(cmd, args) == [command |-> "none", recovery |-> TRUE, args |-> args]
Message(cmd, args) == [command |-> cmd, recovery |-> TRUE, args |-> args]

\* A block-device cache stays mountable while its tree is being removed; an MTD
\* partition being erased, or holding an update image, does not mount.
CacheMounts ==
  \/ vol["CACHE"] \in {"user", "clean"}
  \/ vol["CACHE"] = "partial" /\ ~HasMisc

\* One more mishap of kind k.
Total == faults["power"] + faults["misc_read"] + faults["misc_write"]
         + faults["format"] + faults["image"] + faults["install"]
Fault(k) ==
  /\ Total < MaxMishaps
  /\ faults' = [faults EXCEPT ![k] = @ + 1]

\* A failed write leaves the old message or an erased page; callers get ok.
set_bootloader_message(m, ok) ==
  \/ /\ ok
     /\ misc' = IF HasMisc THEN m ELSE misc
     /\ UNCHANGED faults
  \/ /\ ~ok /\ HasMisc
     /\ Fault("misc_write")
     /\ misc' \in {misc, Blank}

-----------------------------------------------------------------------------
Init ==
  /\ mode = "main" /\ reason = FALSE /\ pc = "off"
  /\ misc = Blank
  /\ vol = [r \in Roots |-> "user"]
  /\ files = {} /\ command = {} /\ image = "none"
  /\ system = "old" /\ radio = "old"
  /\ argv = {} /\ status = "success" /\ todo = <<>> /\ cont = "decide"
  /\ inMenu = FALSE /\ pending = "none" /\ text = FALSE
  /\ request = {} /\ attended = FALSE
  /\ requests = 0 /\ faults = [k \in Mishaps |-> 0]

ForgetRam ==
  /\ argv' = {} /\ status' = "success" /\ todo' = <<>> /\ cont' = "decide"
  /\ inMenu' = FALSE /\ pending' = "none" /\ text' = FALSE

\* reboot(): the machine is back in its bootloader.
Reboot(why) ==
  /\ mode' = "bootloader" /\ reason' = why /\ pc' = "off"
  /\ ForgetRam

(***************************************************************************)
(* The main system and the bootloader (outside this repository).           *)
(***************************************************************************)
\* Write COMMAND_FILE (and the downloaded package), or an extendedcommand script
\* when there are no arguments, and reboot into recovery.
\* Meanwhile the main system has put the erased volumes to use.
MainRequest(req) ==
  /\ mode = "main" /\ requests < MaxRequests
  /\ CacheMounts /\ vol["DATA"] # "partial" /\ system # "partial"
  /\ vol' = [r \in Roots |-> IF vol[r] = "clean" THEN "user" ELSE vol[r]]
  /\ files' = IF req = {} THEN {"extendedcommand"}
              ELSE {"command"} \cup (IF "update_package" \in req THEN {"package"} ELSE {})
  /\ command' = req
  /\ system' = "old"
  /\ request' = req /\ attended' = FALSE /\ requests' = requests + 1
  /\ Reboot(TRUE)
  /\ UNCHANGED <<misc, image, radio, faults>>

BootMain ==
  /\ mode = "bootloader" /\ misc.command = "none" /\ ~reason
  /\ mode' = "main"
  /\ UNCHANGED <<reason, pc, ram, disk, history>>

\* "boot-recovery", a reboot into recovery, or the user holding the key combo.
BootRecovery ==
  /\ mode = "bootloader" /\ misc.command # "update"
  /\ mode' = "recovery" /\ pc' = "get_args" /\ reason' = FALSE
  /\ UNCHANGED <<ram, disk, history>>

\* An invalid header only gets the command changed (steps 1, 2 and 8).
Flash ==
  /\ mode = "bootloader" /\ misc.command = "update"
  /\ IF image = "valid"
       THEN mode' = "flashing" /\ radio' = "partial" /\ UNCHANGED misc
       ELSE misc' = [misc EXCEPT !.command = "boot-recovery"] /\ UNCHANGED <<mode, radio>>
  /\ UNCHANGED <<reason, pc, ram, vol, files, command, image, system, history>>

\* Flashed, or failed with the old image still bootable.
FlashDone ==
  /\ mode = "flashing"
  /\ radio' \in {"old", "new"}
  /\ misc' = [misc EXCEPT !.command = "boot-recovery"]
  /\ mode' = "bootloader"
  /\ UNCHANGED <<reason, pc, ram, vol, files, command, image, system, history>>

(***************************************************************************)
(* main(): get_args(), then the branch the options select.                 *)
(***************************************************************************)
At(p) == mode = "recovery" /\ pc = p
Goto(p) == pc' = p /\ UNCHANGED <<mode, reason>>

\* The arguments: the message's if it has any, else the command file's.
ArgsFrom(boot) ==
  IF boot.recovery /\ boot.args # {} THEN boot.args
  ELSE IF "command" \in files /\ CacheMounts THEN command
  ELSE {}

\* First half of get_args(): reading the message may fail, leaving it zeroed.
get_args ==
  /\ At("get_args")
  /\ \/ argv' = ArgsFrom(IF HasMisc THEN misc ELSE Blank) /\ UNCHANGED faults
     \/ HasMisc /\ Fault("misc_read") /\ argv' = ArgsFrom(Blank)
  /\ Goto("write_back")
  /\ UNCHANGED <<status, todo, cont, inMenu, pending, text, disk,
                 request, attended, requests>>

\* Second half: the arguments go back into the message ("always boot into
\* recovery after this"); the result of the write is ignored.
write_back ==
  /\ At("write_back")
  /\ \E ok \in BOOLEAN : set_bootloader_message(Message("boot-recovery", argv), ok)
  /\ Goto("dispatch")
  /\ UNCHANGED <<ram, vol, files, command, image, system, radio,
                 request, attended, requests>>

\* The roots each branch of main() erases before going on.
\* Mutant: --wipe_data leaves the cache alone.
RootsToEraseKeepingCache ==
  IF "wipe_data" \in argv THEN <<"DATA">>
  ELSE IF "update_package" \in argv THEN <<>>
  ELSE <<"CACHE">>
RootsToErase ==
  IF "update_package" \in argv THEN (IF "wipe_data" \in argv THEN <<"DATA">> ELSE <<>>)
  ELSE IF "wipe_data" \in argv THEN <<"DATA", "CACHE">>
  ELSE <<"CACHE">>

Dispatch ==
  /\ At("dispatch")
  /\ argv \cap {"update_package", "wipe_data", "wipe_cache"} # {}
  /\ todo' = RootsToErase
  /\ cont' = IF "update_package" \in argv THEN "install" ELSE "decide"
  /\ Goto("erase")
  /\ UNCHANGED <<argv, status, inMenu, pending, text, disk, history>>

\* No command: status is INSTALL_ERROR and the text is shown, unless an
\* extendedcommand script, which is removed first, runs to its end.
DispatchNone ==
  /\ At("dispatch")
  /\ argv \cap {"update_package", "wipe_data", "wipe_cache"} = {}
  /\ status' \in {"error"} \cup
       (IF "extendedcommand" \in files /\ CacheMounts THEN {"success"} ELSE {})
  /\ files' = IF CacheMounts THEN files \ {"extendedcommand"} ELSE files
  /\ text' = (status' = "error")
  /\ Goto("decide")
  /\ UNCHANGED <<argv, todo, cont, inMenu, pending,
                 misc, vol, command, image, system, radio, history>>

(***************************************************************************)
(* erase_root(): a format takes time and power may go in the middle.       *)
(***************************************************************************)
EraseBegin ==
  /\ At("erase") /\ todo # <<>>
  /\ vol' = [vol EXCEPT ![Head(todo)] = "partial"]
  /\ IF Head(todo) = "CACHE"
       THEN image' = "none" /\ \E left \in SUBSET files : files' = left
       ELSE UNCHANGED <<image, files>>
  /\ Goto("erasing")
  /\ UNCHANGED <<ram, misc, command, system, radio, history>>

EraseEnd ==
  /\ At("erasing")
  /\ vol' = [vol EXCEPT ![Head(todo)] = "clean"]
  /\ files' = IF Head(todo) = "CACHE" THEN {} ELSE files
  /\ todo' = Tail(todo)
  /\ Goto("erase")
  /\ UNCHANGED <<argv, status, cont, inMenu, pending, text,
                 misc, command, image, system, radio, history>>

\* format_root_device() gives up before the erase, or MTD reports a failed one.
EraseFail ==
  /\ At("erase") \/ At("erasing")
  /\ todo # <<>> /\ HasMisc
  /\ Fault("format")
  /\ status' = IF cont \in {"decide", "install"} THEN "error" ELSE status
  /\ todo' = Tail(todo)
  /\ Goto("erase")
  /\ UNCHANGED <<argv, cont, inMenu, pending, text, disk,
                 request, attended, requests>>

\* format_non_mtd_device() skips a volume it cannot mount, and returns 0.
EraseSkip ==
  /\ At("erase") /\ todo # <<>> /\ ~HasMisc
  /\ Fault("format")
  /\ todo' = Tail(todo)
  /\ UNCHANGED <<mode, reason, pc, argv, status, cont, inMenu, pending, text, disk,
                 request, attended, requests>>

EraseDone ==
  /\ At("erase") /\ todo = <<>>
  /\ Goto(cont)
  /\ UNCHANGED <<ram, disk, history>>

(***************************************************************************)
(* install_package(): restartable from any point, and not atomic.          *)
(***************************************************************************)
\* Where an installation returns to.  From the menu, ITEM_APPLY_SDCARD leaves
\* the loop when it succeeded and the text is hidden; install_zip() never does.
\* Mutant: a failed installation does not stop at the menu.
InstallReturnsToFinish(ok) == IF inMenu THEN {"prompt"} ELSE {"firmware"}
InstallReturns(ok) ==
  IF inMenu THEN {"prompt"} \cup (IF ok THEN {"firmware"} ELSE {}) ELSE {"decide"}

\* The package cannot be mounted, opened or verified: INSTALL_CORRUPT.
InstallCorrupt ==
  /\ At("install")
  /\ \/ ~inMenu /\ ~("package" \in files /\ CacheMounts) /\ UNCHANGED faults
     \/ Fault("install")
  /\ status' = IF inMenu THEN status ELSE "error"
  /\ \E p \in InstallReturns(FALSE) : Goto(p)
  /\ UNCHANGED <<argv, todo, cont, inMenu, pending, text, disk,
                 request, attended, requests>>

InstallBegin ==
  /\ At("install")
  /\ inMenu \/ ("package" \in files /\ CacheMounts)
  /\ system' = "partial"
  /\ Goto("installing")
  /\ UNCHANGED <<ram, misc, vol, files, command, image, radio, history>>

\* remember_firmware_update() takes one image only; a package with a second one
\* fails, so the pending image is always the first package's.
Remembered(outcome) ==
  {pending} \cup (IF HasMisc /\ pending = "none" THEN {outcome} ELSE {})

InstallEnd ==
  /\ At("installing")
  /\ system' = "new"
  /\ pending' \in Remembered("complete")
  /\ status' = IF inMenu THEN status ELSE "success"
  /\ \E p \in InstallReturns(TRUE) :
       Goto(p) /\ inMenu' = (inMenu /\ p = "prompt")
  /\ UNCHANGED <<argv, todo, cont, text,
                 misc, vol, files, command, image, radio, history>>

InstallFail ==
  /\ At("installing")
  /\ Fault("install")
  /\ pending' \in Remembered("aborted")
  /\ status' = IF inMenu THEN status ELSE "error"
  /\ \E p \in InstallReturns(FALSE) : Goto(p)
  /\ UNCHANGED <<argv, todo, cont, inMenu, text, disk,
                 request, attended, requests>>

(***************************************************************************)
(* prompt_and_wait(): each turn of the loop calls finish_recovery(NULL).   *)
(***************************************************************************)
\* The user may have turned the text on while the command ran.
Decide ==
  /\ At("decide")
  /\ \E visible \in {text, TRUE} :
       IF status # "success" \/ visible
         THEN Goto("prompt") /\ inMenu' = TRUE /\ attended' = TRUE
         ELSE Goto("firmware") /\ UNCHANGED <<inMenu, attended>>
  /\ UNCHANGED <<argv, status, todo, cont, pending, text, disk,
                 request, requests, faults>>

PromptTurn ==
  /\ At("prompt")
  /\ Goto("clear")
  /\ UNCHANGED <<ram, disk, history>>

\* REBOOT_NORMAL: back to main().
MenuReboot ==
  /\ At("menu")
  /\ inMenu' = FALSE
  /\ Goto("firmware")
  /\ UNCHANGED <<argv, status, todo, cont, pending, text, disk, history>>

\* REBOOT_RECOVERY or REBOOT_DOWNLOAD: at once.
MenuRebootTo(why) ==
  /\ At("menu")
  /\ Reboot(why)
  /\ UNCHANGED <<disk, history>>

\* wipe_data(1) and ITEM_WIPE_CACHE, once confirmed; results are ignored.
MenuWipe(roots) ==
  /\ At("menu")
  /\ todo' = roots /\ cont' = "prompt"
  /\ Goto("erase")
  /\ UNCHANGED <<argv, status, inMenu, pending, text, disk, history>>

\* ITEM_APPLY_SDCARD and install_zip().
MenuInstall ==
  /\ At("menu")
  /\ \E ok \in BOOLEAN : set_bootloader_message(Message("boot-recovery", {}), ok)
  /\ Goto("install")
  /\ UNCHANGED <<ram, vol, files, command, image, system, radio,
                 request, attended, requests>>

(***************************************************************************)
(* maybe_install_firmware_update() and write_update_for_bootloader().      *)
(***************************************************************************)
FirmwareNone ==
  /\ At("firmware") /\ pending = "none"
  /\ Goto("finish")
  /\ UNCHANGED <<ram, disk, history>>

\* Mutant: the intent is forgotten.
AfterFlashWithoutIntent == {"wipe_cache"}
AfterFlash == {"wipe_cache"} \cup (argv \cap {"send_intent"})

\* The wipe_cache instruction goes first, in case writing is interrupted.
FirmwareMessage ==
  /\ At("firmware") /\ pending # "none"
  /\ \E ok \in BOOLEAN :
       /\ set_bootloader_message(Message("boot-recovery", AfterFlash), ok)
       /\ Goto(IF ok THEN "image_zero" ELSE "finish")
  /\ UNCHANGED <<ram, vol, files, command, image, system, radio,
                 request, attended, requests>>

ImagePcs == {"image_zero", "image_body", "image_header"}

\* What write_update_for_bootloader() has written after each of its steps.
Written(step) ==
  CASE step = "image_zero" -> "zeroed"
    [] step = "image_body" -> "body"
    [] step = "image_header" -> "valid"

\* Mutant: the header is never completed.
AfterImageWithoutHeader(step) == IF step = "image_zero" THEN "image_body" ELSE "arm"
AfterImage(step) ==
  CASE step = "image_zero" -> "image_body"
    [] step = "image_body" -> "image_header"
    [] step = "image_header" -> "arm"

\* The zero header destroys the filesystem; image and bitmaps follow; the header
\* is rewritten last.
WriteImage(step) ==
  /\ At(step)
  /\ image' = Written(step)
  /\ vol' = [vol EXCEPT !["CACHE"] = "raw"]
  /\ files' = {}
  /\ Goto(AfterImage(step))
  /\ UNCHANGED <<ram, misc, command, system, radio, history>>

\* Mutant: the destroyed cache is left as it is.
LeaveCacheThen(p) == todo' = <<>> /\ cont' = p /\ Goto("erase")
CleanCacheThen(p) == todo' = <<"CACHE">> /\ cont' = p /\ Goto("erase")

\* A failed step may or may not have reached the flash; CACHE: is formatted.
WriteImageFail(step) ==
  /\ At(step)
  /\ Fault("image")
  /\ \/ UNCHANGED <<image, vol, files>>
     \/ /\ image' = Written(step)
        /\ vol' = [vol EXCEPT !["CACHE"] = "raw"] /\ files' = {}
  /\ CleanCacheThen("finish")
  /\ UNCHANGED <<argv, status, inMenu, pending, text,
                 misc, command, system, radio, request, attended, requests>>

\* "update-radio": the bootloader flashes at the reboot that follows.
Arm ==
  /\ At("arm")
  /\ \/ /\ set_bootloader_message(Message("update", AfterFlash), TRUE)
        /\ Reboot(FALSE)
     \/ /\ set_bootloader_message(Message("update", AfterFlash), FALSE)
        /\ CleanCacheThen("finish")
        /\ UNCHANGED <<argv, status, inMenu, pending, text>>
  /\ UNCHANGED <<vol, files, command, image, system, radio,
                 request, attended, requests>>

(***************************************************************************)
(* finish_recovery(): intent, log, bootloader message, command file.       *)
(***************************************************************************)
\* Mutant: the intent is not passed on.
FinishWithoutIntent ==
  /\ At("finish")
  /\ Goto("clear")
  /\ UNCHANGED <<ram, disk, history>>
FinishIntent ==
  /\ At("finish")
  /\ files' = IF "send_intent" \in argv /\ CacheMounts THEN files \cup {"intent"} ELSE files
  /\ Goto("clear")
  /\ UNCHANGED <<ram, misc, vol, command, image, system, radio, history>>

\* Mutant: the message stays.
FinishWithoutClear ==
  /\ At("clear")
  /\ Goto("unlink")
  /\ UNCHANGED <<ram, disk, history>>
FinishClear ==
  /\ At("clear")
  /\ \E ok \in BOOLEAN : set_bootloader_message(Blank, ok)
  /\ Goto("unlink")
  /\ UNCHANGED <<ram, vol, files, command, image, system, radio,
                 request, attended, requests>>

\* Mutant: the command file stays.
FinishWithoutUnlink ==
  /\ At("unlink")
  /\ IF inMenu THEN Goto("menu") /\ UNCHANGED ram ELSE Reboot(FALSE)
  /\ UNCHANGED <<disk, history>>
FinishUnlink ==
  /\ At("unlink")
  /\ files' = IF CacheMounts THEN files \ {"command"} ELSE files
  /\ IF inMenu THEN Goto("menu") /\ UNCHANGED ram ELSE Reboot(FALSE)
  /\ UNCHANGED <<misc, vol, command, image, system, radio, history>>

(***************************************************************************)
(* Power loss, anywhere; it may also cut short the write of the message,   *)
(* which is then lost (a mishap of its own).                               *)
(***************************************************************************)
WritesMisc == HasMisc /\ mode = "recovery" /\ pc \in {"write_back", "firmware", "arm", "clear"}

Crash ==
  /\ \/ Fault("power") /\ UNCHANGED misc
     \/ WritesMisc /\ Fault("misc_write") /\ misc' = Blank
  /\ Reboot(FALSE)
  /\ UNCHANGED <<vol, files, command, image, system, radio, request, attended, requests>>

Install == InstallCorrupt \/ InstallBegin \/ InstallEnd \/ InstallFail
Erase == EraseBegin \/ EraseEnd \/ EraseFail \/ EraseSkip \/ EraseDone
Firmware == FirmwareNone \/ FirmwareMessage \/ Arm
            \/ \E s \in ImagePcs : WriteImage(s) \/ WriteImageFail(s)
Finish == PromptTurn \/ FinishIntent \/ FinishClear \/ FinishUnlink
Menu == MenuReboot \/ (\E why \in BOOLEAN : MenuRebootTo(why)) \/ MenuInstall
        \/ \E roots \in {<<"DATA", "DATADATA", "CACHE">>, <<"CACHE">>} : MenuWipe(roots)

\* What runs by itself: recovery up to its menu, and the bootloader.
RecoveryStep == get_args \/ write_back \/ Dispatch \/ DispatchNone \/ Erase \/ Install
                \/ Decide \/ Firmware \/ Finish
BootStep == BootMain \/ BootRecovery \/ Flash \/ FlashDone

Next ==
  \/ \E req \in Requests : MainRequest(req)
  \/ BootStep \/ RecoveryStep \/ Menu \/ Crash

\* The processor goes on executing recovery and the bootloader; users, the main
\* system's requests and power losses come when they come.
Fairness == WF_vars(RecoveryStep) /\ WF_vars(BootStep)

Spec == Init /\ [][Next]_vars
FairSpec == Spec /\ Fairness

-----------------------------------------------------------------------------
Pcs == {"off", "get_args", "write_back", "dispatch", "erase", "erasing", "install",
        "installing", "decide", "prompt", "menu", "firmware", "arm", "finish", "clear",
        "unlink"} \cup ImagePcs

MachineTypes ==
  /\ mode \in {"bootloader", "flashing", "main", "recovery"}
  /\ pc \in Pcs

FlagTypes ==
  /\ reason \in BOOLEAN /\ inMenu \in BOOLEAN /\ text \in BOOLEAN /\ attended \in BOOLEAN

DiskTypes ==
  /\ misc \in Messages
  /\ vol \in [Roots -> {"user", "partial", "clean", "raw"}]
  /\ files \subseteq {"command", "package", "intent", "extendedcommand"}
  /\ command \subseteq Options
  /\ image \in {"none", "zeroed", "body", "valid"}
  /\ system \in {"old", "partial", "new"} /\ radio \in {"old", "partial", "new"}

RamTypes ==
  /\ argv \subseteq Options
  /\ status \in {"success", "error"}
  /\ todo \in Seq(Roots)
  /\ cont \in {"decide", "install", "prompt", "finish"}
  /\ pending \in {"none", "complete", "aborted"}

HistoryTypes ==
  /\ request \subseteq Options
  /\ requests \in Nat
  /\ faults \in [Mishaps -> Nat]

\* Type invariant: what every variable of recovery.c, bootloader.c and firmware.c
\* may hold.
TypeOK == MachineTypes /\ FlagTypes /\ DiskTypes /\ RamTypes /\ HistoryTypes

\* The message of get_args() cannot be counted on: a write of it failed, or there
\* is none on this board and power was lost.
MessageLost == faults["misc_write"] > 0 \/ (~HasMisc /\ faults["power"] > 0)

\* --update_package and --wipe_data in one request.
Both == {"update_package", "wipe_data"} \subseteq request

HalfDone == mode = "main" /\ (vol["DATA"] = "partial" \/ system = "partial")

\* main() of recovery.c restarts what was interrupted: however often power is
\* lost, the main system never comes up on a half-erased /data or a half-installed
\* system, unless prompt_and_wait() was entered or the message was lost, or the
\* status of a failing erase was overwritten by that of the installation after it.
NoHalfDone == HalfDone => attended \/ MessageLost \/ (Both /\ faults["format"] > 0)

\* The bootloader is told to flash only when the image in the cache partition is
\* complete and the order to wipe the cache afterwards is in the message; a radio
\* in mid-flash is always flashed again (firmware.c, maybe_install_firmware_update).
FirmwareSafe ==
  /\ misc.command = "update" => image = "valid" /\ "wipe_cache" \in misc.args
  /\ radio = "partial" => misc.command = "update"

\* The cache partition that maybe_install_firmware_update() destroyed, or a wipe
\* left half erased, is mountable again when the main system runs: it takes a
\* lost message, or a failing image write and a failing format, or a user who was
\* at the menu, to leave it broken.
CacheRepaired ==
  mode = "main" /\ ~CacheMounts
    => \/ attended
       \/ MessageLost
       \/ faults["image"] > 0 /\ faults["format"] > 0

\* The intent of an update reaches the main system once the update is in, also
\* across the firmware detour that erases the cache: it travels in the message
\* (finish_recovery and maybe_install_firmware_update).
IntentDelivered ==
  /\ mode = "main" /\ {"update_package", "send_intent"} \subseteq request
  /\ system = "new" /\ ~attended /\ CacheMounts
  => "intent" \in files \/ MessageLost

\* One factory reset per request: once the main system runs on an erased /data, no
\* --wipe_data is left behind in COMMAND_FILE to erase it again (get_args and
\* finish_recovery).  It takes a lost message, or a power loss just before the unlink
\* and a cache that was not erased: the format failed, or a package came with the wipe.
WipeOnce ==
  mode = "main" /\ vol["DATA"] = "clean" /\ CacheMounts
    => \/ ~("command" \in files /\ "wipe_data" \in command)
       \/ MessageLost
       \/ (Both \/ faults["format"] > 0) /\ faults["power"] > 0

\* "so recovery won't cycle indefinitely": every recovery run ends in the main
\* system or at the menu.
RecoveryEnds == mode = "recovery" ~> (mode = "main" \/ pc = "menu")

\* "These important scenarios must be safely restartable at any point"
\* (recovery.c), said of every build: NoHalfDone without the excuse of a board that
\* has no misc partition.
RestartableAtAnyPoint == HalfDone => attended \/ faults["misc_write"] > 0

\* "Doesn't actually take effect until the rest of installation finishes."
\* (commands.c, write_radio_image): the bootloader is told to flash only the image
\* of a package that installed to its end; except that a user who reboots from the menu
\* after a failed installation, which forgets nothing, has the image flashed as well.
FirmwareAfterInstall ==
  [][misc'.command = "update" /\ misc.command # "update" => pending = "complete" \/ attended]_vars

=============================================================================
