------------------------------- MODULE Script -------------------------------
(***************************************************************************)
(* Update scripts: install_package() (install.c), handle_update_script()   *)
(* (legacy.c), the extendedcommand script (extendedcommands.c) and every   *)
(* command register_update_commands() offers them (commands.c), on the     *)
(* volumes of roots.c.                                                     *)
(*                                                                         *)
(* A script is a sequence of commands.  "install_zip" installs another     *)
(* package from within, so scripts nest; g_package, the static "binary" of *)
(* cmd_run_program() and script_assert_enabled are shared by all of them.  *)
(* Operations may fail and power may be lost between any two steps.        *)
(***************************************************************************)
EXTENDS Naturals, Sequences, SequencesExt

CONSTANTS
  None,         \* no package root
  Packages,     \* the packages on the SD card, and the extendedcommand script
  Kind,         \* what is in each: see Kinds
  Content,      \* their scripts: sequences of commands [op, arg, item]
  Saved,        \* the volumes that the nandroid backup has an image of
  Needs,        \* bound: the packages main() and the user ask for
  MaxRequests,  \* bound: installations asked for
  MaxMishaps    \* bound: power losses and failing operations

Volumes == {"SYSTEM", "DATA", "DATADATA", "CACHE"}
Roots == Volumes \cup {"BOOT"}

\* What a root holds: the files it came with, a program among them, a link, set
\* permissions, a nandroid backup's files and a package's, all of these or some.
Items == {"old", "tool", "link", "perm", "saved"} \cup Packages
File(i) == <<i>>
Part(i) == <<i, "part">>
Held == {File(i) : i \in Items} \cup {Part(i) : i \in Items}

\* A command with one argument that matters: a root, an item of a root, a package ...
Ops == {"refused", "assert", "file_contains", "format", "delete", "copy_dir",
        "run_tool", "run_program", "set_perm", "symlink", "write_raw_image",
        "write_firmware_image", "backup_rom", "restore_rom", "print",
        "install_zip"}
Excluded == {"nosystem", "nodata", "nocache", "nosd-ext"}
\* What each command takes; BOOT: has no file system, scripts only write it whole.
Arguments(op) ==
  CASE op \in {"format", "delete", "copy_dir", "set_perm", "symlink", "file_contains"} -> Volumes
    [] op = "install_zip" -> {p \in Packages : Kind[p] # "extended"}
    [] op = "assert" -> BOOLEAN
    [] op = "restore_rom" -> SUBSET Excluded
    [] OTHER -> Roots

\* An update script, an update binary, a script with a syntax error, a zip file with
\* neither, and the extendedcommand script, which has no package.
Kinds == {"script", "binary", "syntax", "empty", "extended"}

Uses(p, ops) == \E i \in DOMAIN Content[p] : Content[p][i].op \in ops
Installs(p, q) ==
  \E i \in DOMAIN Content[p] : Content[p][i].op = "install_zip" /\ Content[p][i].arg = q

\* A package installed from within a script installs no other: a bound.
ASSUME ScriptAssumption ==
  /\ None \notin Packages \cup [Roots -> SUBSET Held]
  /\ Packages \cap (Roots \cup {"old", "tool", "link", "perm", "saved"}) = {}
  /\ Kind \in [Packages -> Kinds]
  /\ \A p \in Packages :
       /\ DOMAIN Content[p] = 1..Len(Content[p]) /\ Len(Content[p]) \in Nat
       /\ \A i \in DOMAIN Content[p] :
            LET c == Content[p][i] IN c.op \in Ops /\ c.arg \in Arguments(c.op) /\ c.item \in Items
  /\ \A p, q \in Packages : Installs(p, q) => ~Uses(q, {"install_zip"})
  /\ Saved \subseteq Volumes
  /\ Needs \subseteq Packages
  /\ MaxRequests \in Nat /\ MaxMishaps \in Nat

VARIABLES
  vol,       \* what each root holds
  mounted,   \* the mounted volumes
  stack,     \* the scripts in execution, with the line each is at; innermost last
  todo,      \* the roots the command at work still writes; <<>> between commands
  unpacking, \* the first of them is being unpacked from its image
  g_package, \* the registered package root
  binary,    \* cmd_run_program()'s static: "tmp", or the program run by its path
  script_assert_enabled,
  outcome,   \* of the last request
  origin,    \* who asked: "command", "extended" or "menu"
  request,   \* history: what for ...
  base,      \* ... and the roots' contents at that time
  checked,   \* ... and script_assert_enabled
  ignored,   \* history: roots where a failure went unreported since the request
  failed, losses,      \* failing operations and power losses since the request
  requests, mishaps    \* bounded counters

disk == <<vol, mounted>>
ram == <<stack, todo, unpacking, g_package, binary, script_assert_enabled>>
asked == <<origin, request, base, checked>>
faults == <<failed, losses, mishaps>>
vars == <<disk, ram, outcome, asked, ignored, faults, requests>>

Init ==
  /\ vol = [r \in Roots |-> IF r = "SYSTEM" THEN {File("old"), File("tool")} ELSE {File("old")}]
  /\ mounted \in {Volumes, {"CACHE"}}
  /\ stack = <<>> /\ todo = <<>> /\ unpacking = FALSE /\ g_package = None /\ binary = "tmp"
  /\ script_assert_enabled = TRUE
  /\ outcome = "idle" /\ origin = "menu" /\ request = None /\ base = vol /\ checked = TRUE
  /\ ignored = {} /\ failed = 0 /\ losses = 0 /\ requests = 0 /\ mishaps = 0

-----------------------------------------------------------------------------
Depth == Len(stack)
Top == stack[Depth]
In(kinds) == stack # <<>> /\ Kind[Top.pkg] \in kinds
InScript == In({"script", "extended"})
AtEnd == Top.at > Len(Content[Top.pkg])
Cmd == Content[Top.pkg][Top.at]
At(op) == InScript /\ ~AtEnd /\ todo = <<>> /\ Cmd.op = op
Working(op) == InScript /\ todo # <<>> /\ Cmd.op = op
Root == Cmd.arg

NoFault == UNCHANGED faults
Fault == /\ mishaps < MaxMishaps /\ mishaps' = mishaps + 1
         /\ failed' = failed + 1 /\ UNCHANGED losses

\* A command returns 0: the script goes on ...
Passed == /\ stack' = [stack EXCEPT ![Depth].at = @ + 1]
          /\ UNCHANGED <<g_package, outcome>>
\* ... or anything else: the script fails, and so does the command of the script
\* that installed its package; handle_update_package() unregisters the root.
\* Mutant: the script that installed it stays in execution.
FailedInner == stack' = SubSeq(stack, 1, Depth - 1) /\ outcome' = "error" /\ g_package' = None
Failed == stack' = <<>> /\ outcome' = "error" /\ g_package' = None

\* All of a package's or a backup's files are there, in place of some.
Put(v, r, i) == [v EXCEPT ![r] = (@ \ {Part(i)}) \cup {File(i)}]
\* None of them is.
Without(v, r, i) == [v EXCEPT ![r] = @ \ {File(i), Part(i)}]

Keep == UNCHANGED <<asked, requests>>
KeepRam == UNCHANGED <<binary, script_assert_enabled>>
Quiet == todo' = <<>> /\ unpacking' = FALSE /\ KeepRam /\ Keep

\* ensure_root_path_mounted()
Mounts(r) == mounted' = mounted \cup {r}
MountFails(r) == r \notin mounted /\ UNCHANGED mounted /\ Fault

-----------------------------------------------------------------------------
(***************************************************************************)
(* install_package(), which recovery's main(), the menu and the command    *)
(* "install_zip" call on a package; run_script() for the extendedcommand.  *)
(***************************************************************************)
\* The package is opened: handle_update_package() registers the root for a script.
Opened(s, p) ==
  /\ stack' = Append(s, [pkg |-> p, at |-> 1])
  /\ g_package' = IF Kind[p] = "script" THEN p ELSE g_package

\* main() serves --update_package, or an extendedcommand script with the asserts
\* turned off, or the user, for whom they are off too at first, chooses a package.
Asserts(o) == o = "command" \/ (o = "menu" /\ outcome # "idle" /\ script_assert_enabled)

Start(o, p) ==
  /\ stack = <<>> /\ requests < MaxRequests /\ requests' = requests + 1
  /\ o = "extended" <=> Kind[p] = "extended"
  /\ o # "menu" => outcome = "idle"
  /\ script_assert_enabled' = Asserts(o)
  /\ origin' = o /\ request' = p /\ base' = vol /\ checked' = Asserts(o)
  /\ Opened(<<>>, p) /\ outcome' = "running"
  /\ ignored' = {} /\ failed' = 0 /\ losses' = 0
  /\ UNCHANGED <<disk, todo, unpacking, binary, mishaps>>

\* toggle_script_asserts()
ToggleAsserts ==
  /\ stack = <<>> /\ outcome # "idle" /\ requests < MaxRequests
  /\ script_assert_enabled' = ~script_assert_enabled
  /\ UNCHANGED <<disk, stack, todo, unpacking, g_package, binary, outcome, asked, ignored, faults,
                 requests>>

\* Unless the package cannot be mounted, verified or opened.
cmd_install_zip ==
  /\ At("install_zip")
  /\ \/ Opened(stack, Cmd.arg) /\ NoFault /\ UNCHANGED outcome
     \/ Failed /\ Fault
  /\ Quiet /\ UNCHANGED <<disk, ignored>>

SyntaxError ==
  /\ In({"syntax"})
  /\ Failed
  /\ Quiet /\ NoFault /\ UNCHANGED <<disk, ignored>>

\* handle_update_package() returns: the package root is unregistered, also when it is
\* the one of the package whose script goes on.
\* Mutant: it is left for the caller.
ReturnedOnly ==
  /\ UNCHANGED g_package
  /\ IF Depth = 1 THEN stack' = <<>> /\ outcome' = "success"
     ELSE /\ stack' = [SubSeq(stack, 1, Depth - 1) EXCEPT ![Depth - 1].at = @ + 1]
          /\ UNCHANGED outcome
Returned ==
  /\ g_package' = None
  /\ IF Depth = 1 THEN stack' = <<>> /\ outcome' = "success"
     ELSE /\ stack' = [SubSeq(stack, 1, Depth - 1) EXCEPT ![Depth - 1].at = @ + 1]
          /\ UNCHANGED outcome

Return ==
  /\ InScript /\ AtEnd
  /\ Returned
  /\ Quiet /\ NoFault /\ UNCHANGED <<disk, ignored>>

\* try_update_binary(): what the binary writes is its own business; its exit status
\* decides, whatever it said on the pipe.
UpdateBinary ==
  /\ In({"binary"})
  /\ \/ /\ todo = <<>> /\ todo' = <<"SYSTEM">>
        /\ vol' = [vol EXCEPT !["SYSTEM"] = @ \cup {Part(Top.pkg)}]
        /\ NoFault /\ UNCHANGED <<stack, g_package, outcome>>
     \/ /\ todo # <<>> /\ todo' = <<>>
        /\ vol' = Put(vol, "SYSTEM", Top.pkg)
        /\ Returned /\ NoFault
     \/ todo' = <<>> /\ Failed /\ Fault /\ UNCHANGED vol
  /\ KeepRam /\ Keep /\ UNCHANGED <<mounted, unpacking, ignored>>

-----------------------------------------------------------------------------
(***************************************************************************)
(* The commands.                                                           *)
(***************************************************************************)
\* Wrong or too few arguments; mark and done, which are not written yet.
Refused ==
  /\ At("refused")
  /\ Failed
  /\ Quiet /\ NoFault /\ UNCHANGED <<disk, ignored>>

\* The functions but file_contains() are constants of the script.
cmd_assert ==
  /\ At("assert")
  /\ IF Cmd.arg \/ ~script_assert_enabled THEN Passed ELSE Failed
  /\ Quiet /\ NoFault /\ UNCHANGED <<disk, ignored>>

\* "assert file_contains(root, item)": the argument is evaluated in any case.
fn_file_contains ==
  /\ At("file_contains")
  /\ \/ /\ Mounts(Root) /\ NoFault
        /\ IF File(Cmd.item) \in vol[Root] \/ ~script_assert_enabled THEN Passed ELSE Failed
     \/ MountFails(Root) /\ Failed
  /\ Quiet /\ UNCHANGED <<vol, ignored>>

\* show_progress, sleep and print change no root.
QuietCommand ==
  /\ At("print")
  /\ Passed
  /\ Quiet /\ NoFault /\ UNCHANGED <<disk, ignored>>

\* nandroid_backup() reads the volumes one after the other, and unmounts all but CACHE:.
cmd_backup_rom ==
  /\ At("backup_rom")
  /\ \/ Passed /\ NoFault /\ mounted' = {"CACHE"}
     \/ /\ Failed /\ Fault
        /\ \/ \E read \in {{}, {"SYSTEM"}, {"SYSTEM", "DATA"}, Volumes \ {"CACHE"}} :
                mounted' = mounted \ read
           \/ mounted' = {"CACHE"}
  /\ Quiet /\ UNCHANGED <<vol, ignored>>

\* format_root_device() of a volume: "rm -rf", whose status nobody asks for, and unmount;
\* DATA: takes DATADATA: with it.  A volume that does not mount is skipped, and 0 returned.
FormatsOf(r) == IF r = "DATA" THEN <<"DATA", "DATADATA">> ELSE <<r>>
Rest(roots) == IF Len(roots) = 1 THEN Passed ELSE UNCHANGED <<stack, g_package, outcome>>
NextRoot == todo' = Tail(todo) /\ unpacking' = FALSE /\ Rest(todo) /\ KeepRam /\ Keep
Silently(r) == ignored' = ignored \cup {r}

cmd_format ==
  /\ At("format")
  /\ todo' = FormatsOf(Root)
  /\ NoFault /\ KeepRam /\ Keep /\ UNCHANGED <<disk, stack, unpacking, g_package, outcome, ignored>>

Formatting == Working("format")
\* nandroid_restore_partition_extended() found the image and empties the volume.
Emptying == Working("restore_rom") /\ Head(todo) \in Saved /\ ~unpacking

FormatSome ==
  /\ Formatting \/ Emptying
  /\ Mounts(Head(todo))
  /\ \E left \in SUBSET vol[Head(todo)] :
       left # vol[Head(todo)] /\ vol' = [vol EXCEPT ![Head(todo)] = left]
  /\ NoFault /\ Keep /\ UNCHANGED <<ram, outcome, ignored>>

FormatDone ==
  /\ Formatting
  /\ vol[Head(todo)] = {} /\ mounted' = mounted \ {Head(todo)}
  /\ NextRoot
  /\ NoFault /\ UNCHANGED <<vol, ignored>>

FormatLeaves ==
  /\ Formatting
  /\ vol[Head(todo)] # {} /\ mounted' = mounted \ {Head(todo)}
  /\ Silently(Head(todo))
  /\ NextRoot
  /\ Fault /\ UNCHANGED vol

FormatSkipped ==
  /\ Formatting
  /\ MountFails(Head(todo))
  /\ Silently(Head(todo))
  /\ NextRoot
  /\ UNCHANGED vol

\* Errors are counted and forgotten ("TODO: add a way to fail"); a recursive delete may
\* give up halfway.
Trees == Items \ {"tool", "link", "perm"}
DeleteFails ==
  /\ {File(Cmd.item), Part(Cmd.item)} \cap vol[Root] # {}
  /\ Mounts(Root) /\ Fault
  /\ \/ UNCHANGED vol
     \/ /\ Cmd.item \in Trees
        /\ vol' = [vol EXCEPT ![Root] = (@ \ {File(Cmd.item)}) \cup {Part(Cmd.item)}]

\* Mutant: a file that is not there is an error.
cmd_delete_strict ==
  /\ At("delete")
  /\ Mounts(Root) /\ vol' = Without(vol, Root, Cmd.item) /\ NoFault /\ UNCHANGED ignored
  /\ IF File(Cmd.item) \in vol[Root] THEN Passed ELSE Failed
  /\ Quiet
cmd_delete ==
  /\ At("delete")
  /\ \/ Mounts(Root) /\ vol' = Without(vol, Root, Cmd.item) /\ NoFault /\ UNCHANGED ignored
     \/ DeleteFails /\ Silently(Root)
     \/ MountFails(Root) /\ Silently(Root) /\ UNCHANGED vol
  /\ Passed
  /\ Quiet

cmd_set_perm ==
  /\ At("set_perm")
  /\ \/ /\ Mounts(Root) /\ NoFault
        /\ IF File(Cmd.item) \in vol[Root]
             THEN vol' = [vol EXCEPT ![Root] = @ \cup {File("perm")}] /\ Passed
             ELSE UNCHANGED vol /\ Failed
     \/ MountFails(Root) /\ UNCHANGED vol /\ Failed
  /\ Quiet /\ UNCHANGED ignored

cmd_symlink ==
  /\ At("symlink")
  /\ \/ /\ Mounts(Root) /\ NoFault
        /\ IF File("link") \notin vol[Root]
             THEN vol' = [vol EXCEPT ![Root] = @ \cup {File("link")}] /\ Passed
             ELSE UNCHANGED vol /\ Failed
     \/ MountFails(Root) /\ UNCHANGED vol /\ Failed
  /\ Quiet /\ UNCHANGED ignored

\* The commands that read the package.  copy_dir mounts its root first ...
cmd_copy_dir ==
  /\ At("copy_dir")
  /\ \/ /\ g_package # None
        /\ Mounts(Root) /\ vol' = [vol EXCEPT ![Root] = @ \cup {Part(g_package)}]
        /\ todo' = <<Root>> /\ NoFault /\ UNCHANGED <<stack, g_package, outcome>>
     \/ MountFails(Root) /\ Failed /\ UNCHANGED <<vol, todo>>
  /\ KeepRam /\ Keep /\ UNCHANGED <<unpacking, ignored>>

\* ... write_raw_image unmounts it, and then finds out that it is not on MTD ...
cmd_write_raw_image ==
  /\ At("write_raw_image") /\ g_package # None
  /\ mounted' = mounted \ {Root}
  /\ IF Root = "BOOT"
       THEN /\ vol' = [vol EXCEPT ![Root] = {Part(g_package)}]
            /\ todo' = <<Root>> /\ UNCHANGED <<stack, g_package, outcome>>
       ELSE Failed /\ UNCHANGED <<vol, todo>>
  /\ NoFault /\ KeepRam /\ Keep /\ UNCHANGED <<unpacking, ignored>>

Writing == Working("copy_dir") \/ Working("write_raw_image")

WriteEnd ==
  /\ Writing
  /\ vol' = Put(vol, Root, g_package)
  /\ Passed
  /\ Quiet /\ NoFault /\ UNCHANGED <<mounted, ignored>>

\* Mutant: the failure is logged only.
WriteFailsOn ==
  /\ Writing
  /\ Passed
  /\ Quiet /\ Fault /\ UNCHANGED <<disk, ignored>>
WriteFails ==
  /\ Writing
  /\ Failed
  /\ Quiet /\ Fault /\ UNCHANGED <<disk, ignored>>

\* ... and write_firmware_image loads an image that a board without a misc partition
\* has no use for.
cmd_write_firmware_image ==
  /\ At("write_firmware_image")
  /\ g_package # None
  /\ \/ Passed /\ NoFault
     \/ Failed /\ Fault
  /\ Quiet /\ UNCHANGED <<disk, ignored>>

\* A program that ends with another status than 0 fails, unless asserts are off.
Ran == \/ Passed /\ NoFault
       \/ Fault /\ (IF script_assert_enabled THEN Failed ELSE Passed)

\* run_program with a path: the static "binary" is that path from now on.  A program
\* that is not there cannot be run; another one may have taken its place.
RunTool ==
  /\ At("run_tool")
  /\ binary' = "tool"
  /\ IF {File("tool"), Part("tool")} \cap vol["SYSTEM"] # {} /\ "SYSTEM" \in mounted THEN Ran
     ELSE /\ IF script_assert_enabled THEN Failed ELSE Passed
          /\ failed' = failed + 1 /\ UNCHANGED <<losses, mishaps>>
  /\ Keep /\ UNCHANGED <<disk, todo, unpacking, script_assert_enabled, ignored>>

\* run_program with a file of the package: whatever "binary" names is unlinked and
\* made anew from that file, where that can be done, and run.
cmd_run_program ==
  /\ At("run_program") /\ g_package # None
  /\ CASE binary = "tmp" -> (Ran \/ (Failed /\ Fault)) /\ UNCHANGED <<vol, ignored>>
       [] binary = "tool" /\ "SYSTEM" \in mounted ->
            /\ Silently("SYSTEM")
            /\ \/ /\ vol' = [vol EXCEPT !["SYSTEM"] = (@ \ {File("tool")}) \cup {Part("tool")}]
                  /\ Ran
               \/ vol' = Without(vol, "SYSTEM", "tool") /\ Failed /\ Fault
       [] OTHER ->
            /\ Failed /\ failed' = failed + 1
            /\ UNCHANGED <<vol, ignored, losses, mishaps>>
  /\ Quiet /\ UNCHANGED mounted

\* nandroid_restore() of the roots that are not excluded; "nosd-ext" excludes CACHE:.
Restores(no) ==
  (IF "nosystem" \in no THEN <<>> ELSE <<"SYSTEM">>)
  \o (IF "nodata" \in no THEN <<>> ELSE <<"DATA", "DATADATA">>)
  \o (IF {"nocache", "nosd-ext"} \cap no # {} THEN <<>> ELSE <<"CACHE">>)

\* The card does not mount, or the sums do not match; otherwise the roots follow, ...
cmd_restore_rom ==
  /\ At("restore_rom")
  /\ \/ /\ todo' = Restores(Cmd.arg) /\ NoFault
        /\ IF todo' = <<>> THEN Passed ELSE UNCHANGED <<stack, g_package, outcome>>
     \/ UNCHANGED todo /\ Failed /\ Fault
  /\ KeepRam /\ Keep /\ UNCHANGED <<disk, unpacking, ignored>>

\* ... but not one without an image, for which 0 is returned ...
RestoreSkipped ==
  /\ Working("restore_rom") /\ Head(todo) \notin Saved
  /\ Silently(Head(todo))
  /\ NextRoot
  /\ NoFault /\ UNCHANGED disk

\* ... and an image is unpacked whatever "rm -rf" left.
RestoreBegin ==
  /\ Emptying
  /\ IF vol[Head(todo)] = {} THEN NoFault /\ UNCHANGED ignored ELSE Fault /\ Silently(Head(todo))
  /\ Mounts(Head(todo)) /\ vol' = [vol EXCEPT ![Head(todo)] = @ \cup {Part("saved")}]
  /\ unpacking' = TRUE
  /\ KeepRam /\ Keep /\ UNCHANGED <<stack, todo, g_package, outcome>>

RestoreEnd ==
  /\ Working("restore_rom") /\ unpacking
  /\ vol' = Put(vol, Head(todo), "saved") /\ mounted' = mounted \ {Head(todo)}
  /\ NextRoot
  /\ NoFault /\ UNCHANGED ignored

RestoreFails ==
  /\ Working("restore_rom")
  /\ Failed
  /\ Quiet /\ Fault /\ UNCHANGED <<disk, ignored>>

-----------------------------------------------------------------------------
(***************************************************************************)
(* Recovery starts anew: --update_package is still in the command file, an *)
(* extendedcommand has been removed, and the menu forgets.                 *)
(***************************************************************************)
\* Mutant: the extendedcommand is removed when it has run.
KeptInFile == origin \in {"command", "extended"}
StillAsked == origin = "command"

Again ==
  /\ todo' = <<>> /\ unpacking' = FALSE /\ binary' = "tmp" /\ script_assert_enabled' = (origin = "command")
  /\ IF StillAsked
       THEN /\ stack' = <<[pkg |-> request, at |-> 1]>> /\ UNCHANGED outcome
            /\ g_package' = IF Kind[request] = "script" THEN request ELSE None
       ELSE stack' = <<>> /\ g_package' = None /\ outcome' = "dropped"

\* A command reads the package and there is no package root: translate_package_root_path()
\* hands out a NULL archive; so does find_update_script() with a NULL entry.  Recovery
\* dies and init starts it again.
ReadsPackage == {"copy_dir", "write_raw_image", "write_firmware_image", "run_program"}
Die ==
  /\ \/ In({"empty"}) /\ UNCHANGED mounted
     \/ /\ \E op \in ReadsPackage : At(op)
        /\ g_package = None
        /\ mounted' = IF Cmd.op = "copy_dir" THEN mounted \cup {Root} ELSE mounted
  /\ Again
  /\ NoFault /\ Keep /\ UNCHANGED <<vol, ignored>>

PowerLoss ==
  /\ stack # <<>>
  /\ mishaps < MaxMishaps /\ mishaps' = mishaps + 1 /\ losses' = losses + 1 /\ UNCHANGED failed
  /\ mounted' = Volumes
  /\ Again
  /\ Keep /\ UNCHANGED <<vol, ignored>>

Step ==
  \/ cmd_install_zip \/ SyntaxError \/ Return \/ UpdateBinary
  \/ Refused \/ cmd_assert \/ fn_file_contains \/ QuietCommand
  \/ cmd_format \/ FormatSome \/ FormatDone \/ FormatLeaves \/ FormatSkipped
  \/ cmd_delete \/ cmd_set_perm \/ cmd_symlink
  \/ cmd_copy_dir \/ cmd_write_raw_image \/ WriteEnd \/ WriteFails
  \/ cmd_write_firmware_image \/ RunTool \/ cmd_run_program
  \/ cmd_backup_rom \/ cmd_restore_rom \/ RestoreSkipped \/ RestoreBegin \/ RestoreEnd
  \/ RestoreFails \/ Die

Next ==
  \/ \E p \in Needs, o \in {"command", "extended", "menu"} : Start(o, p)
  \/ ToggleAsserts
  \/ Step
  \/ PowerLoss

Spec == Init /\ [][Next]_vars

\* A script in execution goes on.
FairSpec == Spec /\ WF_vars(Step)

-----------------------------------------------------------------------------
(***************************************************************************)
(* Reference: what a script means, on roots that hold v, when nothing      *)
(* fails, None where it cannot succeed.  Asserts count when strict.        *)
(***************************************************************************)
If(holds, v, strict) == IF holds \/ ~strict THEN v ELSE None

Effect(p, v, c, strict) ==
  CASE c.op = "refused" -> None
    [] c.op = "assert" -> If(c.arg, v, strict)
    [] c.op = "file_contains" -> If(File(c.item) \in v[c.arg], v, strict)
    [] c.op = "format" -> [r \in Roots |-> IF Contains(FormatsOf(c.arg), r) THEN {} ELSE v[r]]
    [] c.op = "delete" -> Without(v, c.arg, c.item)
    [] c.op = "copy_dir" -> Put(v, c.arg, p)
    [] c.op = "write_raw_image" -> IF c.arg = "BOOT" THEN [v EXCEPT !["BOOT"] = {File(p)}] ELSE None
    [] c.op = "set_perm" -> IF File(c.item) \in v[c.arg] THEN Put(v, c.arg, "perm") ELSE None
    [] c.op = "symlink" -> IF File("link") \in v[c.arg] THEN None ELSE Put(v, c.arg, "link")
    [] c.op = "restore_rom" ->
         [r \in Roots |-> IF Contains(Restores(c.arg), r) THEN {File("saved")} ELSE v[r]]
    [] OTHER -> v

\* A package's lines; one without a script is one line.
Lines(p) == IF Kind[p] \in {"script", "extended"} THEN Len(Content[p]) ELSE 1
Line(p, v, i, strict) ==
  CASE Kind[p] \in {"syntax", "empty"} -> None
    [] Kind[p] = "binary" -> Put(v, "SYSTEM", p)
    [] OTHER -> Effect(p, v, Content[p][i], strict)

\* The roots after each line of a package that installs no other, ...
Run(p, v, strict) ==
  LET after[i \in 0..Lines(p)] ==
        IF i = 0 THEN v
        ELSE IF after[i - 1] = None THEN None ELSE Line(p, after[i - 1], i, strict)
  IN after

\* ... and of one that may.
Calls(p, i) == Kind[p] \in {"script", "extended"} /\ Content[p][i].op = "install_zip"
Inner(p, v, strict) == Run(p, v, strict)[Lines(p)]
Outer(p, v, i, strict) ==
  IF Calls(p, i) THEN Inner(Content[p][i].arg, v, strict) ELSE Line(p, v, i, strict)
RunAll(p, v, strict) ==
  LET after[i \in 0..Lines(p)] ==
        IF i = 0 THEN v
        ELSE IF after[i - 1] = None THEN None ELSE Outer(p, after[i - 1], i, strict)
  IN after

Meaning(p, v, strict) == RunAll(p, v, strict)[Lines(p)]

\* The script goes on to read its package after an install_zip, or one of the packages
\* has no script at all.
Deadly(p) ==
  \/ Kind[p] = "empty"
  \/ \E i \in DOMAIN Content[p] :
       /\ Content[p][i].op = "install_zip"
       /\ \/ Kind[Content[p][i].arg] = "empty"
          \/ \E j \in DOMAIN Content[p] : j > i /\ Content[p][j].op \in ReadsPackage

Frames == [pkg : Packages, at : Nat \ {0}]

\* Type invariant of the interpreter.
TypeOK ==
  /\ vol \in [Roots -> SUBSET Held] /\ mounted \subseteq Volumes
  /\ \A i \in DOMAIN stack : stack[i] \in Frames
  /\ \A i \in DOMAIN todo : todo[i] \in Roots
  /\ unpacking \in BOOLEAN /\ (unpacking => todo # <<>>) /\ ignored \subseteq Roots
  /\ g_package \in Packages \cup {None} /\ binary \in {"tmp", "tool"}
  /\ outcome \in {"idle", "running", "success", "error", "dropped"}
  /\ stack # <<>> <=> outcome = "running"

\* INSTALL_SUCCESS, after however many power losses and restarts, through packages in
\* packages: the roots hold what the script says.  cmd_format(), cmd_delete(),
\* cmd_restore_rom() and cmd_run_program() pass over failures in silence; then the other
\* roots do, or the script could have succeeded on no account (the failure hid the reason).
SuccessMeansDone ==
  outcome = "success" =>
    LET w == Meaning(request, base, checked)
    IN  IF ignored = {} THEN vol = w
        ELSE w = None \/ \A r \in Roots \ ignored : vol[r] = w[r]

\* INSTALL_ERROR has a reason: the script cannot succeed, an operation failed, or power
\* was lost or recovery died and a command met what the first attempt had left: a link
\* that is there already, or files that are not there any more.
ErrorExplained ==
  outcome = "error" =>
    \/ Meaning(request, base, checked) = None
    \/ failed > 0 \/ ignored # {}
    \/ /\ losses > 0 \/ Deadly(request)
       /\ \E p \in Packages : /\ p = request \/ Installs(request, p)
                             /\ Uses(p, {"symlink", "file_contains", "set_perm"})

\* A script reads no package but its own: PKG: is the package the command belongs to,
\* or nothing, also around the packages it installs.
PackageOwn == InScript => g_package \in {None, Top.pkg}

\* Every installation ends.  One that kills recovery is tried again for ever when
\* main() was given it with --update_package; an extendedcommand, removed before it
\* runs, and a package chosen in the menu are not.
InstallationEnds ==
  outcome = "running" ~> (outcome # "running" \/ (origin = "command" /\ Deadly(request)))
=============================================================================
