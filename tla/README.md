# A TLA+ model of the steam recovery

The repository is the recovery of an Android phone (the Galaxy S family): a
program that the bootloader starts instead of the main system, that erases,
installs, backs up and restores partitions, and whose `init.c` also runs at
every normal boot, before Android's own init, to mount and convert the file
systems.  What makes it hard is what this project is about: power may be lost at
any instant and the next boot has to go on from what is on flash; every tool it
calls may fail; and the user interface runs on several threads with little
locking.

TLC checks small instances, TLAPS proves most of the safety properties for every
value of the constants.  `PROJECT.json` lists the runs, the definitions with the lines
they model, the hazards and the theorems.

    tlc -workers 2 -config Recovery.cfg MCRecovery      # one run
    tlapm RecoveryProofs.tla                            # one module of proofs

## 1. Inventory

| Component | State | Operations | Behaviour that is hard | Module |
|---|---|---|---|---|
| recovery run (`recovery.c`) | argv, status, COMMAND_FILE, INTENT_FILE | get_args, main, erase_root, prompt_and_wait, wipe_data, finish_recovery | restart after power loss, order of clearing | Recovery |
| bootloader message (`bootloader.c`) | `struct bootloader_message` in misc; update image in the cache partition | get/set_bootloader_message, write_update_for_bootloader | torn and failing writes, the image destroys the cache | Recovery |
| firmware hand-over (`firmware.c`) | the pending image | remember_firmware_update, maybe_install_firmware_update | a protocol over three boots | Recovery |
| package installation (`install.c`, `legacy.c`) | the package root | install_package, handle_update_package, try_update_binary | not atomic, a failure in the middle, packages within packages | Script, Recovery (outcomes) |
| amend commands (`commands.c`) | roots, mounts, a static program name | one per command of a script | failures passed over, restart on a half-written disk | Script |
| settings (`config.c`) | list, CONFIG_SYSTEM, five mutexes | get_conf, set_conf, init_conf | readers and writers, file rewritten in place | ConfLock, Config, ConfigStore |
| boot stages (`init.c`) | types of volumes, requests, /system | steam_init_main, convert_filesystems, convert_system, the end of steam_earlyinit_main | backup, format, restore with power losses | FsConvert (stages 6, 7), SteamInstall (3 to 5, 8) |
| volumes (`roots.c`) | mounts, file systems | ensure_root_path_mounted, mount_from_config_or_autodetect, filesystem_create/format, unmount_filesystem, open_encrypted_partition | settings and disk disagree, a dialogue with a child | FsConvert, Recovery, Script, Processes |
| nandroid (`nandroid.c`) | images and md5 sums on the SD card | backup, restore | one of several volumes fails | FsConvert, Script |
| user interface (`ui.c`, `device.c`) | key queue, menu, show_text, touches | get_menu_selection(_ext), ui_wait_key, ui_menu_select, input_thread | unlocked reads, lost wake-ups, freed menus | Menu |
| steam installation (`oem.c`) | steam.conf and its requests | do_steam_install, do_steam_upgrade, do_steam_uninstall, do_steam_afterburner, do_steam_install_fromcache | steps over several reboots, repeated or skipped | SteamInstall |
| processes (`system.c`, log readers of `ui.c`) | descriptors, pipes, children | popen3, pclose3, ui_init, ui_done, log_reader | numbers reused by other threads, inherited ends, blocking | Processes |
| menus (`steamext.c`, `extendedcommands.c`) | none of their own | choose and call the above | | SteamInstall (fsreformat_menu, uninstallation), Script, Recovery |
| signature (`verifier.c`) | none | verify_file | bounds of the footer | not modelled |
| tools, tables, texts, tests | | | | not modelled |

How they interact.  The main system writes COMMAND_FILE and reboots; `main()`
copies the arguments into the bootloader message, does the work, and
`finish_recovery()` clears message and file.  A package may leave a firmware
image, which is written over the cache partition and flashed by the bootloader,
which then boots recovery again with `--wipe_cache` in the message.
`steam_init_main()` reads its requests from the settings, uses nandroid and
roots for the conversion, and asks the user through the menus.  Its requests
come from recovery's menus and from `oem.c`, which in turn wait for it to have
done its part at the next boot.  Scripts write the roots that `roots.c` mounts.
The settings are shared by all threads; the menu is shared by the main thread,
the input thread and the drawing thread; the table of descriptors by everybody.

What correctness means, by component: interrupted work is restarted and the
bootloader never sees half an image (recovery run, firmware); a setting is
atomic for readers and on disk when set_conf() returns (settings); files are
never lost without the user's consent and the settings tell the truth about the
disk (conversion); the main system and the user's settings survive everything
that happens to /system, and every request is served (steam installation);
success means that the script's meaning is on the disk (scripts); nobody reads
another's pipe and everybody ends (processes); a menu returns what the user
chose (user interface).

## 2. Modules and the code

**Recovery** (`Recovery.tla`, constants in `MCRecovery.tla`).  `mode` says who
runs the phone: bootloader, main system, recovery.  `pc` is where `main()` is;
every write to flash that power loss can separate from the next one is a step:
reading the message, writing it back, the begin and end of every erase and
installation, the three writes of the image (zero header, body, header), the
arming message, and in finish_recovery() the intent, the message and the
unlink.  What is on flash (`misc`, `vol`, `files`, `image`, `system`, `radio`)
survives `Crash`, the rest is forgotten.  The bootloader and the main system
are external and follow the flow described in `firmware.c` and `recovery.c`.
`HasMisc` tells the two builds apart: with `BOARD_HAS_NO_MISC_PARTITION`, which
both device headers define, the message calls are compiled out.  Arguments are
sets of options; a volume holds "user", "partial", "clean" or "raw" data; the
log is left out.

**ConfLock** is the entry and exit code of `read_conf()` and `write_conf()`,
one step per mutex operation.  Two of the mutexes are handed from thread to
thread, so a mutex is just locked or not.  **Config** adds the list, walked
element by element, and the file, truncated and then printed, with a power loss
anywhere.  **ConfigStore** is what `config.h` promises: a table with atomic
get and set.  Config takes the lock from ConfLock with `INSTANCE` and implements
ConfigStore under a refinement mapping (property `Atomic`): an element that is
hooked on before its value is copied counts as absent.

**FsConvert** is stages 6 and 7 of `steam_init_main()`.  A boot mounts
/cache, /data and /dbdata by setting or by detection, reads and clears the
requests, and `convert_filesystems()` asks, backs up, formats, restores and
removes the backup.  Every step that changes the disk is an action; every boot
starts again from what is on disk.  A type stands for file system, loop image
and encryption together; a password that is not given is a mount that fails.
`MountsAs` says which volumes mount under a type: the driver of ext4 takes ext2,
and the base of a loop volume mounts without its image.  `Mount` believes the
settings when that succeeds, as `mount_from_config_or_autodetect()` does, and
detects the type otherwise.  A format is a step for its begin, one for its end and
one for `check_and_mount()` with `set_conf()`; in between the volume does not
mount, or is the base (`Plain`) without its image, so a power loss there may leave
settings that are wrong and believed.  `settings` says whether there is any
setting: `set_conf()` stores nothing in an empty list (`Note`).

**SteamInstall** (constants in `MCSteamInstall.tla`) is how steam gets on the
phone and off again, over as many boots as it takes.  `pc` goes through the
stages of `steam_init_main()`, `convert_system()`, the end of
`steam_earlyinit_main()` and the steam branches of `main()`; /system is its file
system, the main system's files (`rom`), `steam.conf` and `steam.conf.old`; the
SD card has `.syssave/save.tar`.  A settings file has the version, the requests,
the conversions asked for, the noted types, and whether the user's own settings
are in it.  `SetConf` stores nothing when there is no settings file, as
`set_conf()` does.  Stages 6 and 7 are here as far as the settings are concerned:
each volume is mounted as the settings say or detected (`Stage6Mount`), made by
`filesystem_create()`, or formatted, with a power loss possible in mid-mkfs and
before `set_conf()` (`FsFormat`, `FsFormatted`, `FsSet`); FsConvert has the files.
What the code does that surprises: `convert_system()` measures the space needed
on /system, which is the root file system then, not on /tmp/sys; it goes on when
the backup failed; after a power loss nothing restores save.tar, and the next
conversion deletes it; a failed restore without the file manager removes it
before halting.  A power loss between the copy of steam.conf and the
`set_conf()` of stage 4 makes steam installed without do_steam_afterburner()
ever running (`cut`).  A power loss while `set_conf()` writes the file, which it
truncates first, leaves it without settings or with the kernel's own lines only
(`Torn`); the user's settings and a request for the installation may go with it.
Where the files of the rec3e plugin are copied from is decided by `has_rec2e`.
MENU_FS_RESET changes a local array only and so nothing.

**Script** (constants in `MCScript.tla`) is the interpreter of update scripts:
`stack` holds the scripts in execution, because `install_zip` installs a package
from within one, `todo` the roots the command at work has yet to write.  A root
holds items, whole or in part.  Commands that write are a step for the begin and
one for the end; power may be lost in between, and then recovery starts anew:
`--update_package` is still in the command file, an extendedcommand has been
removed, a package from the menu is forgotten.  `Meaning` is the reference: what
the roots should hold if nothing fails, as recursive functions that give the
roots after each line of the script and of the packages it installs, or None
where it cannot succeed.  A package installed from within a script installs no
other; this is a bound, named in the module's assumption.  Modelled as the code
has it: `format` skips a volume that does not mount and returns 0, and nobody
asks `rm` whether it worked (`FormatSkipped`, `FormatLeaves`); `delete` counts its
errors and forgets them, and a recursive one may give up halfway; `restore_rom`
skips a root without an image (`Saved`) and unpacks an image whatever `rm -rf` has
left; `ignored` collects the roots where that happened.  A backup unmounts every
volume but CACHE:.  A failing program is ignored when asserts are off; the
static `binary` of `cmd_run_program()` keeps the path of the last program run by
its path, and the next one from the package is written over it; after an
`install_zip` the outer script has no package root, and a `PKG:` path ends in a
NULL archive and the death of recovery, which is tried again for ever with
`--update_package`; a package with neither binary nor script does the same;
`write_raw_image` on a root that is not MTD unmounts it and fails; "nosd-ext"
excludes the cache.

**Processes** is the table of descriptors that all threads share.  A descriptor
is a number; `close()` frees it and the next `pipe()` or `open()` takes the
lowest free one; `fork()` hands every open one to the child.  main talks to
cryptsetup (`open_encrypted_partition()` and the luksFormat of
`filesystem_format()`, one step per system call), one log reader runs logcat,
one reads the log file; the one for /proc/kmsg does the same as the latter.
The pipe for stdin is a step, those for stdout and stderr, which are joined, are
one together: what another thread could do between them is to fork, which hands
stdout's ends on as it does right after, or to open a file, which only changes
which of several free numbers the pipe for stderr gets, and these are closed by
popen3func() itself.  Of what a child inherits, the ends are recorded whose being
open is seen at the other end.  logcat may end by itself, with status 0, which a
waitpid(-1) of main may take for cryptsetup's success.  Cryptsetup, logcat and the
kernel's calls are external.

**Menu** is `get_menu_selection()` and `get_menu_selection_ext()` on the main
thread and `input_thread()` on its own.  Critical sections are one step; what
the code does without the lock is a step of its own: the look at `show_menu` and
`menu_items` before `ui_menu_select()`, `ui_get_selected()`, the copy in
`ui_get_selected_ext()`, `allow_display_toggle`.  `pc = "crashed"` is what
following a freed or NULL list, or walking a list without items for ever, ends
in.  One finger; scrolling only as far as it decides whether a touch selects.
The history variable `typed` holds the keys queued since the menu began.

## 3. Runs

| Run | Bounds | What it shows |
|---|---|---|
| recovery | misc partition, 2 requests of 5 kinds, 2 mishaps | NoHalfDone, FirmwareSafe, CacheRepaired, IntentDelivered, WipeOnce, FirmwareAfterInstall, RecoveryEnds |
| recovery_block | no misc partition, 2 requests, 3 mishaps | WipeOnce, RecoveryEnds: what is left of these without the message |
| conf_lock | 3 threads | Exclusive, WritersFirst, Progress |
| config | 2 threads, 2 keys, 3 files, 1 power loss | Saved, Atomic |
| fs_convert | 3 volumes, 3 types that mount under one another, 3 sets of requests, with and without settings, 2 mishaps | DataKept, TypeNoted, Converted, MountedAgain |
| steam | 3 states of steam.conf, 2 layouts of volumes, a set of conversions besides that of an uninstallation, any number of boots, 1 request, 1 mishap | SystemKept, SettingsKept, UninstallSafe, InstallNotSkipped, RequestsServed |
| script | 14 packages and scripts, 2 requests, 2 mishaps | SuccessMeansDone, ErrorExplained, PackageOwn, InstallationEnds |
| processes | 13 descriptors, 1 dialogue, 2 rounds of the ui, 1 failure, a logcat that may end | OwnDescriptors, NothingLeft, DialogueEnds, UiDoneEnds |
| menu | menus of 1 and 4 items, 2 menus, 3 inputs, touches on elements 0, 1 and 4, a queue of 2 | SelectionValid, AsTyped, MenuReturns |

The properties are stated in the modules, with the code they are about.  In
words: the main system never comes up on a half-erased /data or half-written
system unless somebody was at the menu or the message was lost (NoHalfDone);
the bootloader is told to flash only a complete image with the wipe order in
place, and a radio in mid-flash is flashed again (FirmwareSafe); the cache that
the image destroyed is mountable again (CacheRepaired); the intent survives the
detour (IntentDelivered); one request wipes once (WipeOnce); the firmware of a
failed package is not flashed behind the user's back (FirmwareAfterInstall); a
recovery run ends (RecoveryEnds); one writer and no reader (Exclusive), writers before new
readers (WritersFirst), no blockade (Progress); a value that was set is on disk
(Saved); get and set are atomic (Atomic); files are on the volume or in a
complete backup (DataKept); a volume is mounted as the settings say, and of that
type unless its format failed or was cut off before set_conf() (TypeNoted); what was asked for is done (Converted); a volume that init finds
unmounted was restored a moment ago, or could not be mounted (MountedAgain); the
main system is on /system or in a complete save.tar, unless a tool failed
(SystemKept), the user's settings likewise (SettingsKept); an uninstallation
leaves rfs everywhere, but for a volume whose new type did not get into the
settings (UninstallSafe); a steam.conf without a request was
installed to the end (InstallNotSkipped); requests are served over the reboots
they take (RequestsServed); a successful script has done what it says, and where
a failure was passed over in silence on one root it still has on all others, unless
it could not have succeeded at all (SuccessMeansDone); a failed one has a cause:
it cannot succeed, an operation failed, or it was begun again, after a power loss
or the death of recovery, with a command that cannot be repeated on what the first
attempt left (ErrorExplained); a script reads its own package (PackageOwn), an installation
ends (InstallationEnds); a thread's descriptors are its own (OwnDescriptors),
nothing stays open or unreaped (NothingLeft), a dialogue ends (DialogueEnds),
and ui_done() returns (UiDoneEnds); an item of this menu is selected
(SelectionValid), the menu returns what the keys mean (AsTyped) and does return
(MenuReturns).

Why the bounds are enough.  Two mishaps are one more than an excuse of a property
needs: a failure, and a power loss in what follows from it.  Requests are served
one after the other and leave no state but flash, so a second one matters only
for what the first left behind.  In steam one mishap is enough for every step to
be the last of a boot, and each property has its excuse by name; the layouts have a
/system that needs repair and a /dbdata that differs from /data, the conversions make
rfs an ext4 and a loop image, and an uninstallation makes all of it rfs again.  A
second mishap, such as a mount that fails right after a format that was cut off, is
left to the proofs.  The
packages of script use every command, in the orders that matter: a write before
and after a nested package, a link before one after which recovery dies and the
script is begun again, a program by path before one of the package, an assert that
holds and one that does not, a restore of roots with and without an image before
commands that depend on them.  In processes one dialogue, of any of its kinds, meets
the log readers of a first and of a second round, 13 descriptors are two sets of
pipes and the log, and one failure comes at every call and child in turn; a second
dialogue starts from what NothingLeft says of the first, and that is proved for
any number of them.  Three threads give a first, a
middle and a last reader and writers on both sides.  Two keys and a file that
names one twice exercise every position in the list; the empty file is the case
without an element.  Three types are enough for "the same", "another" and "another
that mounts as well", of a driver that takes both and of a base without its image;
the requests name each of them for each volume or none.  Three
inputs are a touch and its release around a key, or two volume keys and HOME;
a queue of two overflows with three.

Runs that show a disagreement between code and comment:

- recovery_restart: without a misc partition, power lost during the erase of
  /data leaves the main system on what is left of it; recovery.c says these
  scenarios are restartable at any point.
- steam_uninstall: with an rfs /data and an ext4 /dbdata an uninstallation
  reboots into recovery for ever, because stage 7 compares the type wanted for
  /dbdata with that of /data and drops the request.
- menu_race: a touch handled while the main thread takes the menu down makes
  ui_menu_select() follow a list that is gone.

More of the kind is built into the models as excuses of properties, each by
name, and is not a run of its own:

- `--wipe_data` from the main system leaves /dbdata, which the menu's wipe
  erases (recovery.c:544).
- The firmware of a package whose script failed later is flashed when the user
  reboots from the menu (commands.c:630; the excuse `attended`).
- A failed erase of `--wipe_data` is forgotten when `--update_package` comes with
  it (recovery.c:541; the excuse `Both`).
- After a conversion with restore the volumes are unmounted when init is executed
  (nandroid.c:292; MountedAgain).
- set_conf() stores nothing while there is no setting at all (the guard of
  ConfigStore!Set).
- convert_system() goes on after a failed backup (`SystemForsaken`), and a power
  loss at init.c:680 skips an installation (`cut`).
- A format that failed or was cut off before set_conf() leaves settings that the next
  boot believes when the volume mounts under them (`torn` in FsConvert, `unnoted` in
  SteamInstall).  When they say rfs and the user does not want a new file system made,
  an uninstallation, which looks at nothing else (oem.c:287), removes steam.conf with a
  volume that is not rfs.
- The failures that scripts pass over (`ignored`, for the root they happen on), and
  scripts that kill recovery (`Deadly`).
- pclose3() closes `sin` a second time, which may hit another thread's descriptor
  (`stray`); logcat forked in the middle of a dialogue keeps the end open that
  main reads to the end of (`Inherited`); after a failed popen3() main waits for
  any child (`WaitsForLogcat`); a cryptsetup that ends early kills recovery by
  SIGPIPE ("killed").

Fairness.  RecoveryEnds assumes that the processor goes on executing recovery
and the bootloader; users, requests and power losses are not assumed to come.
Progress assumes that a thread inside read_conf() or write_conf() goes on when
its next mutex operation stays possible (weak fairness); which waiter gets a
mutex is up to the kernel.  MenuReturns assumes the same of the main and the
input thread.  RequestsServed assumes that the processor goes on, that a menu is
answered and a phone that waits for its user booted again (weak fairness of all
these together), and, as strong fairness, that a phone in Android is now and then
left to come up (EarlyInit), that somebody who keeps being asked to confirm a
conversion agrees in the end, chooses no plugin in the end, and makes room on the
SD card: the code asks again at each boot, and a user who always refuses keeps
the request pending by choice; an installation whose SD card never mounts would
bring the phone back to recovery at each boot, and counts as a mishap here.
InstallationEnds assumes that a script in execution goes on, DialogueEnds and
UiDoneEnds that the threads and cryptsetup do; that the log reader looks at its
flag takes a logcat that is silent for a moment now and then.  logcat is not
assumed to end.

Deadlock is checked for the lock, the settings, the conversion and the
installation.  The phone in Recovery may stop for good in its main system or at
the menu, a menu and an interpreter without a request may wait for ever, and
main may be killed or wait for logcat, so those runs do not check it.

## 4. Proofs

All for every value of the constants: any requests, any number of mishaps,
power losses and boots, threads, keys and values, volumes and types, packages and
scripts, inputs, any size of menu and of the table of descriptors.  Each property is
proved from an inductive invariant that was first checked by TLC; the invariants are
defined at the top of the proof modules, each next to the property it is for.

**RecoveryProofs**
- `TypeCorrect`: `Spec => []TypeOK`.
- `FirmwareHandover`: `Spec => []FirmwareSafe`.  Not inductive as it stands: the
  message is written in one boot and the image in another.  The strengthening
  (`FirmwareInv`, on top of the types) says that while the message says "update"
  the bootloader has the machine, that flashing happens only under such a message,
  and that the image is complete when pc is at "arm".  A lemma (`HarmlessMessage`)
  says that no other write of the message, failed or torn, can make it say "update".

Those about a run that is interrupted and begun again share `RestartInv`:
what is on flash while nobody works (`Steady`), what the erase queue can look like
(`Shape`), and that as long as nobody was at the menu and the message was not lost,
it says at each pc how to begin again (`ToldInv`).
- `Restartable`: `[]NoHalfDone`.  `HalfInv`: where something is half done the
  request is still in the message, or in argv of the run that is on its way to it,
  and that run cannot get to finish_recovery() before it has been done again.
- `CacheBack`: `[]CacheRepaired`.  `CacheInv`: with an unusable cache a run is
  still to erase it, or ends at the menu.
- `IntentReaches`: `[]IntentDelivered`.  `IntentInv`: `send_intent` is in the
  message or in argv until INTENT_FILE is written.
- `WipedOnce`: `[]WipeOnce`.  `WipeInv` has a half for runs without a power loss
  and one for `--wipe_data` alone, where the cache, and COMMAND_FILE with it, is
  erased after the data.
- `FlashedAfterInstall`: `FirmwareAfterInstall`, an action property.  `AbortInv`:
  after a failed installation main() goes nowhere but to the menu.

**ConfLockProofs**: `MutualExclusion` and `WritersPreferred`.  The inductive
invariant ties each mutex to the set of threads that are at places where it is held,
and `numreaders` and `numwriters` to the cardinalities of the sets of threads that
are counted.  gWrite is held for the readers as a group or by one writer, gRead for
the writers as a group or by one entering reader.

**ConfigProofs** uses that invariant as it stands: under the mapping `lockpc`, which
takes saving and printing for writing, every step of Config but a restart is a step
of ConfLock or leaves the lock alone (`LockStep`), and a restart begins the lock
anew.  `ConfInv` adds that keys are unique, that a walk has not met its key yet, and
that an element without a value is the last one, not the only one, and before the
writer that hooked it on (`Walk`, `Fresh`).
- `TypeCorrect`: `[]TypeOK`; `FileSaved`: `[]Saved`, which rests on a lemma about
  init_conf() (`InitConf`): it keeps the first line of every key, so a walk over its
  list finds what a walk over the file would.
- `Atomicity`: `Spec => Atomic`, the refinement of ConfigStore, step by step.
  get_conf() takes effect where its walk ends, set_conf() where the value is copied or
  the element unlinked; hooking on an empty element, locking and saving stutter.

**FsConvertProofs**
- `TypeCorrect`, `TypesNoted`: `[]TypeOK`, `[]TypeNoted`.  `Placed` says which
  volume each loop may not have mounted yet; `Noted`, that the settings of a volume
  that is not torn give its type or none, except while it is being formatted, and that
  one that is mounted is mounted as they say.
- `FilesKept`: `[]DataKept`.  `OnceInv`: a request is cleared before anything is done
  about it, so there is one conversion only, and a power loss in the middle of it is
  not followed by another that would overwrite the backup.  `DataInv` says, loop by
  loop, which volumes still have their files and which have a complete image.
- `ConvertedAsAsked`, `MountedForMain`: `[]Converted`, `[]MountedAgain`, from an
  invariant of the runs without a mishap (`CleanInv`).

**SteamInstallProofs**
- `TypeCorrect`: `[]TypeOK`.
- `FilesKept`: `[]SystemKept`.  `KeptInv`: /system is whole up to the backup,
  save.tar from there to the end of the restore.  `SettingsSurvive`:
  `[]SettingsKept`.  `MineInv`: the settings are where the main system's files are,
  and a steam.conf of another version is the user's.
- `Installed`: `[]InstallNotSkipped` (`BurntInv`).
- `Uninstalled`: `[]UninstallSafe`.  `SystemInv`: stage 4 notes the type of /system;
  `NotedInv`: every settings file that is, or will be, steam.conf is right about the
  other volumes or silent, but for those in `unnoted` and the one being formatted;
  `UninstallInv`: after do_steam_uninstall() nothing is left that could start a
  conversion.

**ScriptProofs**
- `TypeCorrect`: `[]TypeOK`; `OwnPackage`: `[]PackageOwn`.  The invariant says that
  a command at work belongs to the innermost script and, if it reads the package, has
  one; and that the package root is the innermost script's, or nobody's.
- `DoneOnSuccess`: `[]SuccessMeansDone`; `ReasonForError`: `[]ErrorExplained`; both
  from `DoneInv`.  A script and the packages it installs are a row of sites, one for
  each line.  What a site does is to determine some items of some roots, whatever they
  were before (`SiteTouches`).  While a request is served the scripts are at one site,
  and earlier attempts may have come to a further one.  `Tracks` says that up to the
  furthest the script can succeed, and that the roots hold what it says of the present
  site, except for items that one of the sites in between is going to determine again;
  so at the end, where nothing is in between, they hold what it means.  It takes a
  set of roots that are left out of account, those where a failure went unreported:
  what is on them decides nothing but whether a command succeeds, and when such a
  failure hides that the script means to fail there is nothing to be said
  (`Pointless`).  `Unpacks` says when an image is being unpacked.  `Reached` and
  `Begun` add that without a power loss or the death of recovery no attempt has come
  further, and then a command that fails of itself is one that the script means to
  fail; otherwise it met an item that a later site left.  A power loss leaves the
  roots and goes back to the first site.  `Nested`, `Lost` and `Halfway` say which
  scripts are in execution, which of them has lost its package, and what the command
  at work has left to do.  The recursive functions behind `Meaning` are shown to
  satisfy their equations (`Chain`, `RunSteps`, `RunAllSteps`), and inductions over
  the lines go through the least line that is not in a set (`Induction`, from the
  minimum principle for well-founded relations), which takes no operator as a
  parameter.

**MenuProofs**
- `ValidSelection`: `[]SelectionValid`.  The invariant says where in the code a menu
  exists, that list and count agree then (also while an ext menu is being built, when
  touches may already select), and that the locals of the main thread stay within the
  menu.  Two lemmas say where ui_menu_select() lands, for touches when its walk ends
  well, and that the walk of the main thread always does.
- `TypeCorrect`: `[]TypeOK`; among others that ui_wait_key() sleeps on an empty queue
  only, because whatever is queued wakes it up.
- `KeysFollowed`: `[]AsTyped`.  `KeysInv`: unless something interfered (a touch, a full
  queue), there is a number d of keys that the main thread has taken, the queue holds the
  rest of `typed` in its order, and by where the main thread is, `menu_sel` is what the
  first d keys make of it, or what all but the last of them do and that one is in hand.
  Keys are counted as sets of positions; lemmas on cardinality say what one more adds.

**ProcessesProofs**: `DescriptorsOwned` (`[]OwnDescriptors`) and `NothingLeaks`
(`[]NothingLeft`).  `Good`, which holds until `stray`, gives every open descriptor
one owner: the thread that, by where it is, still has to close it (`Ownership`); it
says what a thread's descriptors lead to (`Piped`, by how many of its pipes are made, `MainHas`, `LogcatHas`, `FileHas`)
and that every child, a zombie included, has a thread that is going to wait for it
(`Awaiting`).  A thread touches only its own descriptors and free ones, so the others
keep theirs (`MainAlone`, `LogcatAlone`); a waitpid() for any child that takes logcat
from its reader leaves it a waitpid() that finds none.  The one step without this
property is pclose3()'s second close() of sin (`PCloseGood` takes `~stray'`).

Assumptions: the named ASSUMEs of the modules.  Threads are finitely many; there
is a key; the file of settings has lines of keys and values, and neither NULL
nor an element's uninitialised value is a value; requests have known options;
what mounts under a type includes the type itself and, with a loop image, its base;
the settings files steam may find are such files; the backup has images of
volumes only; scripts have known commands
with arguments of the kind each takes (a volume, a package, a truth value),
BOOT: is only written as an image, the extendedcommand is not a package, a
package installed from within a script installs no other (a bound), and None is
neither a package nor what the roots hold; menus have at least one item; a
descriptor that is not open leads to nothing a child can hold; the bounds are
naturals.

Only model-checked: liveness (RecoveryEnds, Progress, RequestsServed,
InstallationEnds, DialogueEnds, UiDoneEnds, MenuReturns), which the prover does not do
under fairness.  Every invariant and action property of a passing run has a theorem.

## 5. Not modelled

- Stages 1 and 2 of steam_init_main(), the copy of /efs, postinit, graphsh.
- Lengths: arguments cut off at the 768 bytes of the message, long settings
  lines, long menus.  A line of the settings is written whole or not at all.
- A base that stays mounted at /res/.orig_* after a losetup that failed, and an image
  file that is made but not formatted: both count as a base without its image.
- The SDEXT and .android_secure erases, the log copy, boot and EFS images.
- The words the update binary says on its pipe; the afterburner's commands other
  than setconf; the values of an amend script's functions, except
  file_contains(), which depends on the disk.
- Console and secret screen, progress bar, drawing; more than one finger.
- verify_file(): a pure function of bytes, most of it the RSA check of a library.
- The tweak, light and root menus and the file manager, which call tools on what
  the user picks and keep nothing.
- Tools, device tables, texts and test programs.

## 6. Plan

Done: the recovery run, the settings, both conversions, steam's installation,
scripts, processes and menus, and the proofs of all their safety properties.  What
could be added: packages nested more than one deep, the afterburner's other commands
and the SDEXT erases.
