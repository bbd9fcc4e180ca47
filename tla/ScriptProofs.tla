---------------------------- MODULE ScriptProofs ----------------------------
(***************************************************************************)
(* Proofs about Script: the interpreter keeps its types, a script reads no *)
(* package but its own, success means that the roots hold what the script  *)
(* says, and an error has a reason; for any packages and any scripts in    *)
(* them, any number of requests, failures and power losses.                *)
(***************************************************************************)
EXTENDS Script, SequenceTheorems, WellFoundedInduction, TLAPS

Outcomes == {"idle", "running", "success", "error", "dropped"}

\* What is on the disk, and where the command at work and run_program() will write.
Disk ==
  /\ vol \in [Roots -> SUBSET Held] /\ mounted \in SUBSET Volumes
  /\ todo \in Seq(Roots) /\ binary \in {"tmp", "tool"}

\* The scripts in execution; as long as there is one, it is known what was asked for.
Control ==
  /\ stack \in Seq(Frames)
  /\ g_package \in Packages \cup {None} /\ outcome \in Outcomes
  /\ stack # <<>> <=> outcome = "running"
  /\ stack # <<>> => request \in Packages

\* A command that is at work belongs to the innermost script.  What it formats or restores
\* are volumes, and what it copies or writes comes from a package.
Busy ==
  todo # <<>> =>
    /\ stack # <<>>
    /\ InScript => /\ ~AtEnd
                   /\ Cmd.op \in {"format", "restore_rom"} => todo \in Seq(Volumes)
                   /\ Cmd.op \in {"copy_dir", "write_raw_image"} => g_package # None

\* The package root is the innermost script's, and there is none without a script.
Own ==
  /\ stack = <<>> => g_package = None
  /\ InScript => g_package \in {None, Top.pkg}

\* The inductive invariant of the interpreter.
ScriptInv == Disk /\ Control /\ Busy /\ Own

\* An image is unpacked only while a backup is restored, and failures go unreported on roots.
Unpacks ==
  /\ ignored \in SUBSET Roots
  /\ unpacking \in BOOLEAN /\ (unpacking => Working("restore_rom"))

-----------------------------------------------------------------------------
\* A script in execution has a frame of its own.
LEMMA TopFrame ==
  ASSUME Control, stack # <<>>
  PROVE  Depth \in Nat \ {0} /\ Depth \in 1..Len(stack) /\ Top \in Frames /\ stack \in Seq(Frames)
<1>1. Depth \in Nat \ {0} /\ Depth \in 1..Len(stack)
  BY EmptySeq, LenProperties DEF Control, Depth
<1> QED
  BY <1>1, ElementOfSeq DEF Control, Top

\* The command at its line is one of the script's, with an argument that fits.
LEMMA CmdTyped ==
  ASSUME Control, InScript, ~AtEnd
  PROVE  Cmd.op \in Ops /\ Cmd.arg \in Arguments(Cmd.op) /\ Cmd.item \in Items
<1>1. Top \in Frames
  BY TopFrame DEF InScript, In
<1>2. Top.at \in DOMAIN Content[Top.pkg]
  BY <1>1, ScriptAssumption DEF Frames, AtEnd
<1> QED
  BY <1>1, <1>2, ScriptAssumption DEF Frames, Cmd

\* A root that a command names is a root.
LEMMA RootTyped ==
  ASSUME Control, InScript, ~AtEnd
  PROVE  /\ Cmd.op \in {"format", "delete", "copy_dir", "set_perm", "symlink", "file_contains"}
              => Root \in Volumes
         /\ Cmd.op = "write_raw_image" => Root \in Roots
         /\ Cmd.op = "install_zip" => Root \in Packages /\ Kind[Root] # "extended"
<1>1. Cmd.arg \in Arguments(Cmd.op)
  BY CmdTyped
<1> HIDE DEF Cmd
<1> QED
  BY <1>1 DEF Arguments, Root

\* A command returned 0: the same script goes on.
LEMMA PassedKeeps ==
  ASSUME Control, Own, InScript, Passed, request' = request
  PROVE  Control' /\ Own'
<1>1. Depth \in 1..Len(stack) /\ Top \in Frames /\ stack \in Seq(Frames) /\ Depth = Len(stack)
      /\ stack # <<>>
  BY TopFrame DEF InScript, In, Depth
<1> DEFINE f == [Top EXCEPT !.at = @ + 1]
<1>2. f \in Frames /\ f.pkg = Top.pkg
  BY <1>1 DEF Frames
<1>3. stack' = [stack EXCEPT ![Depth] = f]
  BY DEF Passed, Top
<1> HIDE DEF f
<1>4. stack' \in Seq(Frames) /\ Len(stack') = Len(stack) /\ stack'[Depth] = f
  BY <1>1, <1>2, <1>3, ExceptSeq
<1>5. stack' # <<>> /\ Top' = f
  <2>1. Len(stack) # 0
    BY <1>1
  <2>2. Len(stack') # 0
    BY <1>4, <2>1
  <2>3. stack' # <<>>
    BY <2>2, EmptySeq
  <2>4. Depth' = Depth
    BY <1>1, <1>4 DEF Depth
  <2> QED
    BY <1>4, <2>3, <2>4 DEF Top
<1>6. UNCHANGED <<g_package, outcome>>
  BY DEF Passed
<1>7. Control'
  BY <1>1, <1>4, <1>5, <1>6 DEF Control
<1>8. Own'
  BY <1>2, <1>5, <1>6 DEF Own, InScript, In
<1> QED
  BY <1>7, <1>8

\* It returned something else: no script is left.
LEMMA FailedKeeps ==
  ASSUME Failed
  PROVE  Control' /\ Own'
<1>1. stack' = <<>> /\ outcome' = "error" /\ g_package' = None
  BY DEF Failed
<1> QED
  BY <1>1, EmptySeq DEF Control, Own, InScript, In, Outcomes

\* The command is still at work.
LEMMA StaysKeeps ==
  ASSUME Control, Own, UNCHANGED <<stack, g_package, outcome, request>>
  PROVE  Control' /\ Own'
BY DEF Control, Own, InScript, In, Top, Depth

\* handle_update_package() returned: the script that installed the package goes on,
\* without a package root.
LEMMA ReturnedKeeps ==
  ASSUME Control, stack # <<>>, Returned, request' = request
  PROVE  Control' /\ Own'
<1>1. Depth \in Nat \ {0} /\ Depth = Len(stack) /\ stack \in Seq(Frames) /\ g_package' = None
  BY TopFrame DEF Depth, Returned
<1>2. CASE Depth = 1
  <2>1. stack' = <<>> /\ outcome' = "success"
    BY <1>2 DEF Returned
  <2> QED
    BY <1>1, <2>1, EmptySeq DEF Control, Own, InScript, In, Outcomes
<1>3. CASE Depth # 1
  <2> DEFINE s == SubSeq(stack, 1, Depth - 1)
  <2>1. s \in Seq(Frames) /\ Len(s) = Depth - 1
    <3>1. \A i \in 1..(Depth - 1) : stack[i] \in Frames
      BY <1>1, ElementOfSeq
    <3> QED
      BY <1>1, <3>1, SubSeqProperties
  <2>2. stack' = [s EXCEPT ![Depth - 1].at = @ + 1] /\ outcome' = outcome
    BY <1>3 DEF Returned
  <2> HIDE DEF s
  <2>3. s[Depth - 1] \in Frames /\ Depth - 1 \in 1..Len(s)
    BY <1>1, <1>3, <2>1, ElementOfSeq
  <2>4. [s[Depth - 1] EXCEPT !.at = @ + 1] \in Frames
    BY <2>3 DEF Frames
  <2>5. stack' \in Seq(Frames) /\ Len(stack') = Depth - 1
    BY <2>1, <2>2, <2>3, <2>4, ExceptSeq
  <2>6. stack' # <<>>
    BY <1>1, <1>3, <2>5, EmptySeq
  <2> QED
    BY <1>1, <2>2, <2>5, <2>6 DEF Control, Own
<1> QED
  BY <1>2, <1>3

\* A package is opened: its script is the innermost one now, and has its own root.
LEMMA OpenedKeeps ==
  ASSUME NEW s \in Seq(Frames), NEW p \in Packages, Opened(s, p),
         g_package \in Packages \cup {None}, Kind[p] = "extended" => g_package = None,
         outcome' = "running", request' \in Packages
  PROVE  Control' /\ Own'
<1> DEFINE f == [pkg |-> p, at |-> 1]
<1>1. f \in Frames /\ stack' = Append(s, f) /\ g_package' = IF Kind[p] = "script" THEN p ELSE g_package
  BY DEF Frames, Opened
<1> HIDE DEF f
<1>2. stack' \in Seq(Frames) /\ Len(stack') = Len(s) + 1 /\ stack'[Len(s) + 1] = f /\ Len(s) \in Nat
  BY <1>1, AppendProperties, LenProperties
<1>3. stack' # <<>> /\ Top' = f
  BY <1>2, EmptySeq DEF Top, Depth
<1>4. f.pkg = p
  BY DEF f
<1>5. g_package' \in Packages \cup {None}
  BY <1>1
<1>6. Control'
  BY <1>2, <1>3, <1>5 DEF Control, Outcomes
<1>7. Own'
  BY <1>1, <1>3, <1>4 DEF Own, InScript, In
<1> QED
  BY <1>6, <1>7

\* Recovery starts anew.
LEMMA AgainKeeps ==
  ASSUME Control, stack # <<>>, Again, request' = request
  PROVE  Control' /\ Own' /\ todo' = <<>> /\ binary' = "tmp"
<1>1. todo' = <<>> /\ binary' = "tmp" /\ request \in Packages /\ outcome = "running"
  BY DEF Again, Control
<1>2. CASE StillAsked
  <2> DEFINE f == [pkg |-> request, at |-> 1]
  <2>1. /\ stack' = <<f>> /\ outcome' = outcome
        /\ g_package' = IF Kind[request] = "script" THEN request ELSE None
    BY <1>2 DEF Again
  <2>2. f \in Frames /\ f.pkg = request
    BY <1>1 DEF Frames
  <2> HIDE DEF f
  <2>3. stack' \in Seq(Frames) /\ stack' # <<>> /\ Top' = f
    BY <2>1, <2>2 DEF Top, Depth
  <2>4. Control'
    BY <1>1, <2>1, <2>3 DEF Control
  <2>5. Own'
    BY <2>1, <2>2, <2>3 DEF Own, InScript, In
  <2> QED
    BY <1>1, <2>4, <2>5
<1>3. CASE ~StillAsked
  <2>1. stack' = <<>> /\ g_package' = None /\ outcome' = "dropped"
    BY <1>3 DEF Again
  <2> QED
    BY <1>1, <2>1, EmptySeq DEF Control, Own, InScript, In, Outcomes
<1> QED
  BY <1>2, <1>3

\* What the helpers make of a root's items are items again.
LEMMA DiskTyped ==
  ASSUME NEW v \in [Roots -> SUBSET Held], NEW r \in Roots, NEW i \in Items
  PROVE  /\ File(i) \in Held /\ Part(i) \in Held
         /\ Put(v, r, i) \in [Roots -> SUBSET Held] /\ Without(v, r, i) \in [Roots -> SUBSET Held]
<1>1. File(i) \in Held /\ Part(i) \in Held
  BY DEF Held
<1> QED
  BY <1>1 DEF Put, Without

\* Between two commands nobody is at work.
LEMMA QuietKeeps ==
  ASSUME Disk, todo' = <<>>, binary' \in {"tmp", "tool"},
         vol' \in [Roots -> SUBSET Held], mounted' \in SUBSET Volumes
  PROVE  Disk' /\ Busy'
BY EmptySeq DEF Disk, Busy

-----------------------------------------------------------------------------
\* A request is served, or the user turns the asserts on or off.
LEMMA RequestKeeps ==
  ASSUME ScriptInv, ToggleAsserts \/ \E p \in Needs, o \in {"command", "extended", "menu"} : Start(o, p)
  PROVE  ScriptInv'
<1>1. CASE ToggleAsserts
  <2>1. UNCHANGED <<vol, mounted, stack, todo, g_package, binary, outcome, request>>
    BY <1>1 DEF ToggleAsserts, disk, asked
  <2> QED
    BY <2>1 DEF ScriptInv, Disk, Control, Busy, Own, InScript, In, AtEnd, Cmd, Top, Depth
<1>2. ASSUME NEW p \in Needs, NEW o \in {"command", "extended", "menu"}, Start(o, p) PROVE ScriptInv'
  <2>1. /\ Opened(<<>>, p) /\ outcome' = "running" /\ request' = p /\ stack = <<>>
        /\ UNCHANGED <<vol, mounted, todo, binary>>
    BY <1>2 DEF Start, disk
  <2>2. p \in Packages /\ g_package = None
    BY <2>1, ScriptAssumption DEF ScriptInv, Own
  <2>3. Control' /\ Own'
    BY <2>1, <2>2, OpenedKeeps, EmptySeq
  <2>4. todo' = <<>>
    BY <2>1 DEF ScriptInv, Busy
  <2> QED
    BY <2>1, <2>3, <2>4 DEF ScriptInv, Disk, Busy
<1> QED
  BY <1>1, <1>2

\* install_package() from within a script, and its ends.
LEMMA PackageKeeps ==
  ASSUME ScriptInv, cmd_install_zip \/ SyntaxError \/ Return \/ UpdateBinary
  PROVE  ScriptInv'
<1> USE DEF ScriptInv
<1>1. request' = request /\ binary' = binary
  BY DEF cmd_install_zip, SyntaxError, Return, UpdateBinary, Quiet, Keep, KeepRam, asked
<1>2. CASE cmd_install_zip
  <2>1. Disk' /\ Busy'
    BY <1>1, <1>2, QuietKeeps DEF cmd_install_zip, Quiet, disk, Disk
  <2>2. InScript /\ ~AtEnd /\ Cmd.op = "install_zip" /\ stack # <<>>
    BY <1>2 DEF cmd_install_zip, At, InScript, In
  <2>3. Cmd.arg \in Packages /\ Kind[Cmd.arg] # "extended"
    BY <2>2, RootTyped DEF Root
  <2>4. CASE Opened(stack, Cmd.arg) /\ outcome' = outcome
    BY <1>1, <2>2, <2>3, <2>4, OpenedKeeps, <2>1 DEF Control
  <2> QED
    BY <1>2, <2>1, <2>4, FailedKeeps DEF cmd_install_zip
<1>3. CASE SyntaxError
  <2>1. Disk' /\ Busy'
    BY <1>1, <1>3, QuietKeeps DEF SyntaxError, Quiet, disk, Disk
  <2> QED
    BY <1>3, <2>1, FailedKeeps DEF SyntaxError
<1>4. CASE Return
  <2>1. Disk' /\ Busy'
    BY <1>1, <1>4, QuietKeeps DEF Return, Quiet, disk, Disk
  <2>2. stack # <<>> /\ Returned
    BY <1>4 DEF Return, InScript, In
  <2> QED
    BY <1>1, <2>1, <2>2, ReturnedKeeps
<1>5. CASE UpdateBinary
  <2>1. stack # <<>> /\ Kind[Top.pkg] = "binary" /\ mounted' = mounted
    BY <1>5 DEF UpdateBinary, In
  <2>2. Top.pkg \in Items /\ "SYSTEM" \in Roots
    BY <2>1, TopFrame DEF Frames, Items, Roots, Volumes
  <2>3. CASE todo' = <<"SYSTEM">> /\ UNCHANGED <<stack, g_package, outcome>>
             /\ vol' = [vol EXCEPT !["SYSTEM"] = @ \cup {Part(Top.pkg)}]
    <3>1. Control' /\ Own'
      BY <1>1, <2>3, StaysKeeps
    <3>2. vol' \in [Roots -> SUBSET Held] /\ todo' \in Seq(Roots)
      BY <2>2, <2>3, DiskTyped DEF Disk
    <3>3. stack' # <<>> /\ ~InScript'
      BY <2>1, <2>3 DEF InScript, In, Top, Depth
    <3> QED
      BY <1>1, <2>1, <3>1, <3>2, <3>3 DEF Disk, Busy
  <2>4. CASE todo' = <<>> /\ vol' = Put(vol, "SYSTEM", Top.pkg) /\ Returned
    <3>1. Disk' /\ Busy'
      BY <1>1, <2>1, <2>2, <2>4, DiskTyped, QuietKeeps DEF Disk
    <3> QED
      BY <1>1, <2>1, <2>4, <3>1, ReturnedKeeps
  <2>5. CASE todo' = <<>> /\ Failed /\ vol' = vol
    <3>1. Disk' /\ Busy'
      BY <1>1, <2>1, <2>5, QuietKeeps DEF Disk
    <3> QED
      BY <2>5, <3>1, FailedKeeps
  <2> QED
    BY <1>5, <2>3, <2>4, <2>5 DEF UpdateBinary
<1> QED
  BY <1>2, <1>3, <1>4, <1>5

\* Commands that end in the step in which they begin.
LEMMA CommandKeeps ==
  ASSUME ScriptInv,
         \/ Refused \/ cmd_assert \/ fn_file_contains \/ QuietCommand \/ cmd_backup_rom
         \/ cmd_delete \/ cmd_set_perm \/ cmd_symlink \/ cmd_write_firmware_image
         \/ RunTool \/ cmd_run_program
  PROVE  ScriptInv'
<1> USE DEF ScriptInv
<1>1. InScript /\ ~AtEnd /\ todo = <<>> /\ Cmd.item \in Items
      /\ \E op \in {"refused", "assert", "file_contains", "print", "backup_rom", "delete", "set_perm",
                    "symlink", "write_firmware_image", "run_tool", "run_program"} : Cmd.op = op
  BY CmdTyped DEF Refused, cmd_assert, fn_file_contains, QuietCommand, cmd_backup_rom, cmd_delete,
                  cmd_set_perm, cmd_symlink, cmd_write_firmware_image, RunTool, cmd_run_program, At
<1>2. request' = request /\ todo' = <<>> /\ binary' \in {binary, "tool"}
  BY <1>1 DEF Refused, cmd_assert, fn_file_contains, QuietCommand, cmd_backup_rom, cmd_delete,
              cmd_set_perm, cmd_symlink, cmd_write_firmware_image, RunTool, cmd_run_program,
              Quiet, Keep, KeepRam, asked
<1>3. Passed \/ Failed
  BY DEF Refused, cmd_assert, fn_file_contains, QuietCommand, cmd_backup_rom, cmd_delete,
         cmd_set_perm, cmd_symlink, cmd_write_firmware_image, RunTool, cmd_run_program, Ran
<1>4. Control' /\ Own'
  BY <1>1, <1>2, <1>3, PassedKeeps, FailedKeeps
<1>5. mounted' \in SUBSET Volumes
  <2>1. CASE fn_file_contains \/ cmd_delete \/ cmd_set_perm \/ cmd_symlink
    <3>1. Cmd.op \in {"file_contains", "delete", "set_perm", "symlink"}
      BY <2>1 DEF fn_file_contains, cmd_delete, cmd_set_perm, cmd_symlink, At
    <3>2. Root \in Volumes
      BY <1>1, <3>1, RootTyped
    <3>3. mounted' = mounted \/ mounted' = mounted \cup {Root}
      BY <2>1 DEF fn_file_contains, cmd_delete, DeleteFails, cmd_set_perm, cmd_symlink, Mounts, MountFails
    <3> QED
      BY <3>2, <3>3 DEF Disk
  <2>2. CASE Refused \/ cmd_assert \/ QuietCommand \/ cmd_write_firmware_image \/ RunTool
             \/ cmd_run_program \/ cmd_backup_rom
    <3>1. mounted' \subseteq mounted \cup {"CACHE"} /\ "CACHE" \in Volumes
      BY <2>2 DEF Volumes, Refused, cmd_assert, QuietCommand, cmd_write_firmware_image, RunTool,
                  cmd_run_program, cmd_backup_rom, disk
    <3> QED
      BY <3>1 DEF Disk
  <2> QED
    BY <2>1, <2>2
<1>6. vol' \in [Roots -> SUBSET Held]
  <2>1. "SYSTEM" \in Roots /\ Volumes \subseteq Roots /\ {"tool", "link", "perm"} \subseteq Items
    BY DEF Roots, Volumes, Items
  <2>2. CASE cmd_delete
    <3>1. Root \in Roots
      BY <1>1, <2>1, <2>2, RootTyped DEF cmd_delete, At
    <3>2. \/ vol' = vol \/ vol' = Without(vol, Root, Cmd.item)
          \/ vol' = [vol EXCEPT ![Root] = (@ \ {File(Cmd.item)}) \cup {Part(Cmd.item)}]
      BY <2>2 DEF cmd_delete, DeleteFails
    <3>3. Part(Cmd.item) \in Held /\ Without(vol, Root, Cmd.item) \in [Roots -> SUBSET Held]
      BY <1>1, <3>1, DiskTyped DEF Disk
    <3>4. [vol EXCEPT ![Root] = (@ \ {File(Cmd.item)}) \cup {Part(Cmd.item)}] \in [Roots -> SUBSET Held]
      BY <3>1, <3>3 DEF Disk
    <3> QED
      BY <3>2, <3>3, <3>4 DEF Disk
  <2>3. CASE cmd_set_perm \/ cmd_symlink
    <3>1. Root \in Roots
      BY <1>1, <2>1, <2>3, RootTyped DEF cmd_set_perm, cmd_symlink, At
    <3>2. vol' = vol \/ \E i \in {"perm", "link"} : vol' = [vol EXCEPT ![Root] = @ \cup {File(i)}]
      BY <2>3 DEF cmd_set_perm, cmd_symlink
    <3>3. \A i \in {"perm", "link"} : File(i) \in Held
      BY <2>1 DEF Held
    <3> QED
      BY <3>1, <3>2, <3>3 DEF Disk
  <2>4. CASE cmd_run_program
    <3>1. \/ vol' = vol
          \/ vol' = [vol EXCEPT !["SYSTEM"] = (@ \ {File("tool")}) \cup {Part("tool")}]
          \/ vol' = Without(vol, "SYSTEM", "tool")
      BY <2>4 DEF cmd_run_program
    <3>2. Part("tool") \in Held
      BY <2>1 DEF Held
    <3>3. Without(vol, "SYSTEM", "tool") \in [Roots -> SUBSET Held]
      BY <2>1, DiskTyped DEF Disk
    <3>4. [vol EXCEPT !["SYSTEM"] = (@ \ {File("tool")}) \cup {Part("tool")}] \in [Roots -> SUBSET Held]
      BY <2>1, <3>2 DEF Disk
    <3> QED
      BY <3>1, <3>3, <3>4 DEF Disk
  <2>5. CASE Refused \/ cmd_assert \/ fn_file_contains \/ QuietCommand \/ cmd_backup_rom
             \/ cmd_write_firmware_image \/ RunTool
    BY <2>5 DEF Refused, cmd_assert, fn_file_contains, QuietCommand, cmd_backup_rom,
                cmd_write_firmware_image, RunTool, disk, Disk
  <2> QED
    BY <2>2, <2>3, <2>4, <2>5
<1>7. binary' \in {"tmp", "tool"}
  BY <1>2 DEF Disk
<1> QED
  BY <1>2, <1>4, <1>5, <1>6, <1>7, QuietKeeps

\* The root at work is done with: the next one, or the next command.
LEMMA RestKeeps ==
  ASSUME Control, Own, Busy, InScript, todo \in Seq(Volumes), todo # <<>>,
         todo' = Tail(todo), Rest(todo), request' = request
  PROVE  Control' /\ Own' /\ Busy' /\ todo' \in Seq(Roots) /\ Head(todo) \in Volumes
<1>1. Head(todo) \in Volumes /\ todo' \in Seq(Volumes) /\ (Len(todo) = 1 => todo' = <<>>)
  BY HeadTailProperties, EmptySeq
<1>2. todo' \in Seq(Roots)
  BY <1>1, SeqMonotonic DEF Roots
<1>3. CASE Len(todo) = 1
  BY <1>1, <1>2, <1>3, PassedKeeps DEF Rest, Busy
<1>4. CASE Len(todo) # 1
  <2>1. UNCHANGED <<stack, g_package, outcome>>
    BY <1>4 DEF Rest
  <2>2. Busy'
    BY <1>1, <2>1 DEF Busy, InScript, In, AtEnd, Cmd, Top, Depth
  <2> QED
    BY <1>1, <1>2, <2>1, <2>2, StaysKeeps
<1> QED
  BY <1>3, <1>4

\* Formatting and restoring, one volume after the other.
LEMMA VolumesKeep ==
  ASSUME ScriptInv,
         \/ cmd_format \/ FormatSome \/ FormatDone \/ FormatLeaves \/ FormatSkipped
         \/ cmd_restore_rom \/ RestoreSkipped \/ RestoreBegin \/ RestoreEnd \/ RestoreFails
  PROVE  ScriptInv'
<1> USE DEF ScriptInv
<1>1. request' = request /\ binary' = binary /\ InScript
  BY DEF cmd_format, FormatSome, FormatDone, FormatLeaves, FormatSkipped, cmd_restore_rom,
         RestoreSkipped, RestoreBegin, RestoreEnd, RestoreFails, Formatting, Emptying, NextRoot, At,
         Working, Quiet, Keep, KeepRam, asked, ram
<1>2. CASE cmd_format \/ cmd_restore_rom
  <2>1. InScript /\ ~AtEnd /\ todo = <<>> /\ Cmd.op \in {"format", "restore_rom"}
    BY <1>2 DEF cmd_format, cmd_restore_rom, At
  <2>2. /\ todo' \in Seq(Volumes) /\ mounted' = mounted /\ vol' = vol
        /\ (Failed => todo' = <<>>)
    <3>1. CASE cmd_format
      <4>1. Root \in Volumes
        BY <2>1, <3>1, RootTyped DEF cmd_format, At
      <4>2. FormatsOf(Root) \in Seq(Volumes)
        <5>1. <<"DATA", "DATADATA">> \in Seq(Volumes)
          BY DEF Volumes
        <5>2. <<Root>> \in Seq(Volumes)
          BY <4>1
        <5> QED
          BY <5>1, <5>2 DEF FormatsOf
      <4> QED
        BY <1>1, <3>1, <4>2 DEF cmd_format, disk, Failed, InScript, In
    <3>2. CASE cmd_restore_rom
      <4>1. \A no : Restores(no) \in Seq(Volumes)
        <5>1. /\ <<>> \in Seq(Volumes) /\ <<"SYSTEM">> \in Seq(Volumes)
              /\ <<"DATA", "DATADATA">> \in Seq(Volumes) /\ <<"CACHE">> \in Seq(Volumes)
          BY DEF Volumes
        <5> QED
          BY <5>1, ConcatProperties DEF Restores
      <4> QED
        <5>1. CASE UNCHANGED todo
          BY <2>1, <3>2, <5>1 DEF cmd_restore_rom, disk
        <5>2. CASE ~UNCHANGED todo
          <6>1. /\ todo' = Restores(Cmd.arg) /\ vol' = vol /\ mounted' = mounted
                /\ todo' = <<>> \/ UNCHANGED stack
            BY <3>2, <5>2 DEF cmd_restore_rom, disk
          <6>2. Failed => ~UNCHANGED stack
            BY <1>1 DEF Failed, InScript, In
          <6> QED
            BY <4>1, <6>1, <6>2
        <5> QED
          BY <5>1, <5>2
    <3> QED
      BY <1>2, <3>1, <3>2
  <2>3. todo' \in Seq(Roots)
    BY <2>2, SeqMonotonic DEF Roots
  <2>4. CASE UNCHANGED <<stack, g_package, outcome>>
    <3>1. Busy'
      BY <2>1, <2>2, <2>4 DEF Busy, InScript, In, AtEnd, Cmd, Top, Depth
    <3> QED
      BY <1>1, <2>2, <2>3, <2>4, <3>1, StaysKeeps DEF Disk
  <2>5. CASE todo' = <<>> /\ Passed
    BY <1>1, <2>1, <2>2, <2>3, <2>5, PassedKeeps DEF Disk, Busy
  <2>6. CASE Failed
    BY <1>1, <2>2, <2>3, <2>6, FailedKeeps DEF Disk, Busy
  <2> QED
    BY <1>2, <2>4, <2>5, <2>6 DEF cmd_format, cmd_restore_rom
<1>3. CASE \/ FormatSome \/ FormatDone \/ FormatLeaves \/ FormatSkipped
           \/ RestoreSkipped \/ RestoreBegin \/ RestoreEnd
  <2>1. todo # <<>> /\ Cmd.op \in {"format", "restore_rom"}
    BY <1>3 DEF FormatSome, FormatDone, FormatLeaves, FormatSkipped, RestoreSkipped, RestoreBegin,
                RestoreEnd, Formatting, Emptying, Working
  <2>2. todo \in Seq(Volumes)
    BY <1>1, <2>1 DEF Busy
  <2>3. Head(todo) \in Volumes /\ Head(todo) \in Roots
    BY <2>1, <2>2, HeadTailProperties DEF Roots
  <2>4. mounted' \in SUBSET Volumes
    <3>1. mounted' \in {mounted, mounted \cup {Head(todo)}, mounted \ {Head(todo)}}
      BY <1>3 DEF FormatSome, FormatDone, FormatLeaves, FormatSkipped, RestoreSkipped, RestoreBegin,
                  RestoreEnd, Mounts, MountFails, disk
    <3> QED
      BY <2>3, <3>1 DEF Disk
  <2>5. vol' \in [Roots -> SUBSET Held]
    <3>1. vol' = vol \/ \E left \in SUBSET Held : vol' = [vol EXCEPT ![Head(todo)] = left]
      <4>1. File("saved") \in Held /\ Part("saved") \in Held
        BY DEF Held, Items
      <4>2. vol[Head(todo)] \subseteq Held
        BY <2>3 DEF Disk
      <4>3. CASE FormatSome
        BY <4>2, <4>3 DEF FormatSome
      <4>4. CASE RestoreBegin \/ RestoreEnd
        BY <4>1, <4>2, <4>4 DEF RestoreBegin, RestoreEnd, Put
      <4>5. CASE FormatDone \/ FormatLeaves \/ FormatSkipped \/ RestoreSkipped
        BY <4>5 DEF FormatDone, FormatLeaves, FormatSkipped, RestoreSkipped, disk
      <4> QED
        BY <1>3, <4>3, <4>4, <4>5
    <3> QED
      BY <2>3, <3>1 DEF Disk
  <2>6. CASE UNCHANGED <<stack, todo, g_package, outcome>>
    <3>1. Busy'
      BY <2>6 DEF Busy, InScript, In, AtEnd, Cmd, Top, Depth
    <3> QED
      BY <1>1, <2>4, <2>5, <2>6, <3>1, StaysKeeps DEF Disk
  <2>7. CASE todo' = Tail(todo) /\ Rest(todo)
    BY <1>1, <2>1, <2>2, <2>4, <2>5, <2>7, RestKeeps DEF Disk
  <2> QED
    BY <1>3, <2>6, <2>7 DEF FormatSome, FormatDone, FormatLeaves, FormatSkipped, RestoreSkipped,
                            RestoreBegin, RestoreEnd, NextRoot, ram
<1>4. CASE RestoreFails
  <2>1. Disk' /\ Busy'
    BY <1>1, <1>4, QuietKeeps DEF RestoreFails, Quiet, disk, Disk
  <2> QED
    BY <1>4, <2>1, FailedKeeps DEF RestoreFails
<1> QED
  BY <1>2, <1>3, <1>4

\* Copying from the package and writing an image: what is written is there in part first.
LEMMA WritesKeep ==
  ASSUME ScriptInv, cmd_copy_dir \/ cmd_write_raw_image \/ WriteEnd \/ WriteFails
  PROVE  ScriptInv'
<1> USE DEF ScriptInv
<1>1. request' = request /\ binary' = binary /\ InScript
  BY DEF cmd_copy_dir, cmd_write_raw_image, WriteEnd, WriteFails, Writing, At, Working, Quiet, Keep,
         KeepRam, asked
<1>2. ~AtEnd /\ Cmd.op \in {"copy_dir", "write_raw_image"}
  BY <1>1 DEF cmd_copy_dir, cmd_write_raw_image, WriteEnd, WriteFails, Writing, At, Working, Busy
<1>3. Root \in Roots /\ (Cmd.op = "copy_dir" => Root \in Volumes)
  BY <1>1, <1>2, RootTyped DEF Roots
<1>4. CASE cmd_copy_dir \/ cmd_write_raw_image
  <2>1. todo = <<>>
    BY <1>4 DEF cmd_copy_dir, cmd_write_raw_image, At
  <2>2. mounted' \in SUBSET Volumes
    <3>1. \/ Cmd.op = "copy_dir" /\ mounted' \in {mounted, mounted \cup {Root}}
          \/ mounted' = mounted \ {Root}
      BY <1>4 DEF cmd_copy_dir, cmd_write_raw_image, Mounts, MountFails, At
    <3> QED
      BY <1>3, <3>1 DEF Disk
  <2>3. CASE Failed /\ UNCHANGED <<vol, todo>>
    <3>1. Disk' /\ Busy'
      BY <1>1, <2>1, <2>2, <2>3, QuietKeeps DEF Disk
    <3> QED
      BY <2>3, <3>1, FailedKeeps
  <2>4. CASE /\ g_package # None /\ todo' = <<Root>> /\ UNCHANGED <<stack, g_package, outcome>>
             /\ \/ vol' = [vol EXCEPT ![Root] = @ \cup {Part(g_package)}]
                \/ vol' = [vol EXCEPT ![Root] = {Part(g_package)}]
    <3>1. Part(g_package) \in Held
      BY <2>4 DEF Control, Held, Items
    <3>2. vol' \in [Roots -> SUBSET Held]
      BY <1>3, <2>4, <3>1 DEF Disk
    <3>3. Control' /\ Own'
      BY <1>1, <2>4, StaysKeeps
    <3>4. todo' \in Seq(Roots)
      BY <1>3, <2>4
    <3>5. stack # <<>>
      BY <1>1 DEF InScript, In
    <3>6. Busy'
      BY <1>2, <2>4, <3>5 DEF Busy, InScript, In, AtEnd, Cmd, Top, Depth
    <3> QED
      BY <1>1, <2>2, <3>2, <3>3, <3>4, <3>6 DEF Disk
  <2> QED
    BY <1>4, <2>3, <2>4 DEF cmd_copy_dir, cmd_write_raw_image
<1>5. CASE WriteEnd
  <2>1. todo # <<>> /\ vol' = Put(vol, Root, g_package) /\ Passed /\ todo' = <<>> /\ mounted' = mounted
    BY <1>5 DEF WriteEnd, Writing, Working, Quiet
  <2>2. g_package \in Items
    BY <1>1, <1>2, <2>1 DEF Busy, Control, Items
  <2>3. Disk' /\ Busy'
    BY <1>1, <1>3, <2>1, <2>2, DiskTyped, QuietKeeps DEF Disk
  <2> QED
    BY <1>1, <2>1, <2>3, PassedKeeps
<1>6. CASE WriteFails
  <2>1. Disk' /\ Busy'
    BY <1>1, <1>6, QuietKeeps DEF WriteFails, Quiet, disk, Disk
  <2> QED
    BY <1>6, <2>1, FailedKeeps DEF WriteFails
<1> QED
  BY <1>4, <1>5, <1>6

\* Recovery dies or power is lost.
LEMMA RestartKeeps ==
  ASSUME ScriptInv, Die \/ PowerLoss
  PROVE  ScriptInv'
<1> USE DEF ScriptInv
<1>1. Again /\ request' = request /\ stack # <<>> /\ vol' = vol
  BY DEF Die, PowerLoss, In, At, InScript, Keep, asked
<1>2. Control' /\ Own' /\ todo' = <<>> /\ binary' = "tmp"
  BY <1>1, AgainKeeps
<1>3. mounted' \in SUBSET Volumes
  <2>1. CASE PowerLoss
    BY <2>1 DEF PowerLoss
  <2>2. CASE Die
    <3>1. \/ mounted' = mounted
          \/ InScript /\ ~AtEnd /\ Cmd.op = "copy_dir" /\ mounted' = mounted \cup {Root}
      BY <2>2 DEF Die, At
    <3> QED
      BY <3>1, RootTyped DEF Disk
  <2> QED
    BY <2>1, <2>2
<1> QED
  BY <1>1, <1>2, <1>3, QuietKeeps DEF Disk

\* The invariant holds at the start ...
LEMMA ScriptInit == Init => ScriptInv
<1> SUFFICES ASSUME Init PROVE ScriptInv
  OBVIOUS
<1>1. /\ stack = <<>> /\ todo = <<>> /\ g_package = None /\ binary = "tmp" /\ outcome = "idle"
      /\ mounted \in SUBSET Volumes
  BY DEF Init, Volumes
<1>2. vol \in [Roots -> SUBSET Held]
  <2>1. File("old") \in Held /\ File("tool") \in Held
    BY DEF Held, Items
  <2> QED
    BY <2>1 DEF Init
<1> QED
  BY <1>1, <1>2, EmptySeq DEF ScriptInv, Disk, Control, Busy, Own, InScript, In, Outcomes

\* ... and every step keeps it.
LEMMA ScriptNext == ScriptInv /\ [Next]_vars => ScriptInv'
<1> SUFFICES ASSUME ScriptInv, [Next]_vars PROVE ScriptInv'
  OBVIOUS
<1>1. CASE Step
  BY <1>1, PackageKeeps, CommandKeeps, VolumesKeep, WritesKeep, RestartKeeps DEF Step
<1>2. CASE UNCHANGED vars
  <2>1. UNCHANGED <<vol, mounted, stack, todo, g_package, binary, outcome, request>>
    BY <1>2 DEF vars, disk, ram, asked
  <2> QED
    BY <2>1 DEF ScriptInv, Disk, Control, Busy, Own, InScript, In, AtEnd, Cmd, Top, Depth
<1> QED
  BY <1>1, <1>2, RequestKeeps, RestartKeeps DEF Next

\* The same of unpacking and of the roots with unreported failures.
LEMMA UnpacksInit == Init => Unpacks
BY DEF Init, Unpacks

LEMMA UnpacksNext == ScriptInv /\ Unpacks /\ [Next]_vars => Unpacks'
<1> SUFFICES ASSUME ScriptInv, Unpacks, [Next]_vars PROVE Unpacks'
  OBVIOUS
<1>1. /\ ignored \in SUBSET Roots /\ unpacking \in BOOLEAN
      /\ unpacking => InScript /\ todo # <<>> /\ stack # <<>>
  BY DEF Unpacks, Working, InScript, In
<1>2. CASE UNCHANGED vars \/ ToggleAsserts \/ FormatSome
  <2>1. UNCHANGED <<unpacking, ignored, stack, todo>>
    BY <1>2 DEF vars, ram, ToggleAsserts, FormatSome
  <2> QED
    BY <2>1 DEF Unpacks, Working, InScript, In, Cmd, Top, Depth
<1>3. CASE \/ cmd_install_zip \/ SyntaxError \/ Return \/ Refused \/ cmd_assert \/ fn_file_contains
           \/ QuietCommand \/ cmd_backup_rom \/ cmd_set_perm \/ cmd_symlink \/ WriteEnd \/ WriteFails
           \/ cmd_write_firmware_image \/ RestoreFails \/ FormatDone \/ RestoreEnd \/ Die \/ PowerLoss
  <2>1. unpacking' = FALSE /\ ignored' = ignored
    BY <1>3 DEF cmd_install_zip, SyntaxError, Return, Refused, cmd_assert, fn_file_contains,
                QuietCommand, cmd_backup_rom, cmd_set_perm, cmd_symlink, WriteEnd, WriteFails,
                cmd_write_firmware_image, RestoreFails, FormatDone, RestoreEnd, Die, PowerLoss,
                Quiet, NextRoot, Again
  <2> QED
    BY <1>1, <2>1 DEF Unpacks
<1>4. CASE UpdateBinary \/ cmd_format \/ cmd_copy_dir \/ cmd_write_raw_image \/ RunTool \/ cmd_restore_rom
  <2>1. UNCHANGED <<unpacking, ignored>> /\ (todo = <<>> \/ In({"binary"}))
    BY <1>4 DEF UpdateBinary, cmd_format, cmd_copy_dir, cmd_write_raw_image, RunTool, cmd_restore_rom, At
  <2>2. unpacking = FALSE
    BY <1>1, <2>1 DEF InScript, In
  <2> QED
    BY <1>1, <2>1, <2>2 DEF Unpacks
<1>5. CASE FormatLeaves \/ FormatSkipped \/ RestoreSkipped \/ cmd_delete \/ cmd_run_program
  <2>1. unpacking' = FALSE
    BY <1>5 DEF FormatLeaves, FormatSkipped, RestoreSkipped, cmd_delete, cmd_run_program, NextRoot, Quiet
  <2>2. CASE FormatLeaves \/ FormatSkipped \/ RestoreSkipped
    <3>1. todo # <<>> /\ todo \in Seq(Roots) /\ ignored' = ignored \cup {Head(todo)}
      BY <2>2 DEF FormatLeaves, FormatSkipped, RestoreSkipped, Formatting, Working, Silently,
                  ScriptInv, Disk
    <3>2. Head(todo) \in Roots
      BY <3>1, HeadTailProperties
    <3> QED
      BY <1>1, <2>1, <3>1, <3>2 DEF Unpacks
  <2>3. CASE cmd_delete
    <3>1. InScript /\ ~AtEnd /\ Cmd.op = "delete" /\ ignored' \in {ignored, ignored \cup {Root}}
      BY <2>3 DEF cmd_delete, At, Silently
    <3>2. Root \in Roots
      BY <3>1, RootTyped DEF ScriptInv, Roots
    <3> QED
      BY <1>1, <2>1, <3>1, <3>2 DEF Unpacks
  <2>4. CASE cmd_run_program
    <3>1. ignored' \in {ignored, ignored \cup {"SYSTEM"}} /\ "SYSTEM" \in Roots
      BY <2>4 DEF cmd_run_program, Silently, Roots, Volumes
    <3> QED
      BY <1>1, <2>1, <3>1 DEF Unpacks
  <2> QED
    BY <1>5, <2>2, <2>3, <2>4
<1>6. CASE RestoreBegin
  <2>1. /\ Working("restore_rom") /\ unpacking' = TRUE /\ UNCHANGED <<stack, todo>>
        /\ ignored' \in {ignored, ignored \cup {Head(todo)}} /\ todo # <<>> /\ todo \in Seq(Roots)
    BY <1>6 DEF RestoreBegin, Emptying, Silently, Working, ScriptInv, Disk
  <2>2. Head(todo) \in Roots
    BY <2>1, HeadTailProperties
  <2>3. Working("restore_rom")'
    BY <2>1 DEF Working, InScript, In, Cmd, Top, Depth
  <2> QED
    BY <1>1, <2>1, <2>2, <2>3 DEF Unpacks
<1>7. ASSUME NEW p \in Needs, NEW o \in {"command", "extended", "menu"}, Start(o, p) PROVE Unpacks'
  <2>1. stack = <<>> /\ unpacking' = unpacking /\ ignored' = {}
    BY <1>7 DEF Start
  <2> QED
    BY <1>1, <2>1 DEF Unpacks
<1> QED
  BY <1>2, <1>3, <1>4, <1>5, <1>6, <1>7 DEF Next, Step

\* The interpreter's frames, roots and outcomes fit together: a script is in execution
\* exactly as long as the request is running, whichever commands fail and power losses come.
THEOREM TypeCorrect == Spec => []TypeOK
<1>1. ScriptInv /\ Unpacks => TypeOK
  <2> SUFFICES ASSUME ScriptInv, Unpacks PROVE TypeOK
    OBVIOUS
  <2>1. \A i \in DOMAIN stack : stack[i] \in Frames
    BY ElementOfSeq, LenProperties DEF ScriptInv, Control
  <2>2. \A i \in DOMAIN todo : todo[i] \in Roots
    BY ElementOfSeq, LenProperties DEF ScriptInv, Disk
  <2> QED
    BY <2>1, <2>2 DEF ScriptInv, Disk, Control, Outcomes, Unpacks, Working, TypeOK
<1> QED
  BY <1>1, ScriptInit, ScriptNext, UnpacksInit, UnpacksNext, PTL DEF Spec

\* A script reads no package but its own: PKG: is the package the command belongs to, or
\* nothing, however packages install packages (install_zip) and unregister the root.
THEOREM OwnPackage == Spec => []PackageOwn
<1>1. ScriptInv => PackageOwn
  BY DEF ScriptInv, Own, PackageOwn
<1> QED
  BY <1>1, ScriptInit, ScriptNext, PTL DEF Spec

-----------------------------------------------------------------------------
(***************************************************************************)
(* Success and failure.  Every command sets some items of some roots to    *)
(* fixed values or leaves them alone, and that is why a script that power  *)
(* losses made start again converges: what an earlier attempt left is made *)
(* good by a command still to come.                                        *)
(***************************************************************************)
Vols == [Roots -> SUBSET Held]

\* The items that a command of the package p determines, and which of them are there
\* when it has returned 0.
Touches(p, c, r, e) ==
  CASE c.op = "format" -> Contains(FormatsOf(c.arg), r)
    [] c.op = "delete" -> r = c.arg /\ e \in {File(c.item), Part(c.item)}
    [] c.op = "copy_dir" -> r = c.arg /\ e \in {File(p), Part(p)}
    [] c.op = "write_raw_image" -> r = "BOOT"
    [] c.op = "set_perm" -> r = c.arg /\ e \in {File("perm"), Part("perm")}
    [] c.op = "symlink" -> r = c.arg /\ e \in {File("link"), Part("link")}
    [] c.op = "restore_rom" -> Contains(Restores(c.arg), r)
    [] OTHER -> FALSE
Leaves(p, c, e) ==
  CASE c.op \in {"copy_dir", "write_raw_image"} -> e = File(p)
    [] c.op = "set_perm" -> e = File("perm")
    [] c.op = "symlink" -> e = File("link")
    [] c.op = "restore_rom" -> e = File("saved")
    [] OTHER -> FALSE

\* The same of a package's line, on the roots that are not in I.
LineTouches(p, i, r, e) ==
  CASE Kind[p] = "binary" -> r = "SYSTEM" /\ e \in {File(p), Part(p)}
    [] Kind[p] \in {"script", "extended"} -> Touches(p, Content[p][i], r, e)
    [] OTHER -> FALSE
LineLeaves(p, i, e) ==
  IF Kind[p] = "binary" THEN e = File(p) ELSE Leaves(p, Content[p][i], e)
LineDone(I, p, i, v, w) ==
  \A r \in Roots \ I, e \in Held :
    IF LineTouches(p, i, r, e) THEN e \in w[r] <=> LineLeaves(p, i, e) ELSE e \in w[r] <=> e \in v[r]

\* A site is a line of the package q, <<k, 0>>, or of a package that it installs,
\* <<k, i>>; the ends of the scripts are sites, too.
Callee(q, k) == Content[q][k].arg
Site(q, k, i) ==
  /\ k \in 1..(Lines(q) + 1)
  /\ i = 0 \/ (k <= Lines(q) /\ Calls(q, k) /\ i \in 1..(Lines(Callee(q, k)) + 1))
SiteTouches(q, k, i, r, e) ==
  /\ k \in 1..Lines(q)
  /\ IF i = 0 THEN ~Calls(q, k) /\ LineTouches(q, k, r, e)
     ELSE Calls(q, k) /\ i \in 1..Lines(Callee(q, k)) /\ LineTouches(Callee(q, k), i, r, e)

Earlier(k, i, x, y) == k < x \/ (k = x /\ i < y)
NextTo(q, k, i, x, y) ==
  \/ i = 0 /\ k <= Lines(q) /\ ~Calls(q, k) /\ x = k + 1 /\ y = 0
  \/ i = 0 /\ k <= Lines(q) /\ Calls(q, k) /\ x = k /\ y = 1
  \/ i >= 1 /\ i <= Lines(Callee(q, k)) /\ x = k /\ y = i + 1
  \/ i >= 1 /\ i = Lines(Callee(q, k)) + 1 /\ x = k + 1 /\ y = 0

\* What the script makes of the roots b until it comes to a site.
Before(q, b, a, k, i) ==
  IF i = 0 THEN RunAll(q, b, a)[k - 1] ELSE Run(Callee(q, k), RunAll(q, b, a)[k - 1], a)[i - 1]

\* The script is at <<k, i>>, the roots hold v, and attempts have begun every site before
\* <<x, y>>.  Up to there the script can succeed.  The roots but those in I hold what it
\* says, but for items that a site still to come determines; and what they held at first,
\* but for items that a site begun determines.
Tracks(q, b, a, I, v, k, i, x, y) ==
  /\ Site(q, k, i) /\ Site(q, x, y) /\ ~Earlier(x, y, k, i)
  /\ \A m, j \in Nat : Site(q, m, j) /\ ~Earlier(x, y, m, j) => Before(q, b, a, m, j) \in Vols
  /\ \A r \in Roots \ I, e \in Held :
       \/ e \in v[r] <=> e \in Before(q, b, a, k, i)[r]
       \/ \E m, j \in Nat : /\ ~Earlier(m, j, k, i) /\ Earlier(m, j, x, y)
                            /\ SiteTouches(q, m, j, r, e)
  /\ \A r \in Roots \ I, e \in Held :
       \/ e \in v[r] <=> e \in b[r]
       \/ \E m, j \in Nat : Earlier(m, j, x, y) /\ SiteTouches(q, m, j, r, e)

\* Attempts have come to <<k, i>>, and further only if they may be late ones ...
Reached(q, b, a, I, v, k, i, late) ==
  \E x, y \in Nat : Tracks(q, b, a, I, v, k, i, x, y) /\ (late \/ (x = k /\ y = i))
\* ... or one is at work there.
Begun(q, b, a, I, v, k, i, late) ==
  \E x, y \in Nat : /\ Tracks(q, b, a, I, v, k, i, x, y) /\ Earlier(k, i, x, y)
                    /\ late \/ NextTo(q, k, i, x, y)

\* Where the scripts in execution are.
AtLine == stack[1].at
AtInner == IF Depth = 1 THEN 0 ELSE stack[2].at

\* A package that is installed from within is the one that the script names.
Nested ==
  /\ Depth <= 2
  /\ stack[1].pkg = request
  /\ Depth = 2 => /\ AtLine <= Lines(request) /\ Calls(request, AtLine)
                  /\ stack[2].pkg = Callee(request, AtLine)
  /\ ~InScript => Top.at = 1
  /\ script_assert_enabled = checked

\* Only a script that goes on after an install_zip has lost its package.
Lost ==
  InScript /\ g_package = None =>
    \/ Kind[Top.pkg] = "extended"
    \/ Depth = 1 /\ \E j \in DOMAIN Content[request] : j < Top.at /\ Content[request][j].op = "install_zip"

\* A command at work writes the roots it should, and has done with the others of them, but
\* for failures that went unreported.
Halfway ==
  /\ Working("format") =>
       \A r \in Roots : /\ Contains(todo, r) => Contains(FormatsOf(Root), r)
                        /\ Contains(FormatsOf(Root), r) => Contains(todo, r) \/ vol[r] = {} \/ r \in ignored
  /\ Working("restore_rom") =>
       \A r \in Roots : /\ Contains(todo, r) => Contains(Restores(Cmd.arg), r)
                        /\ Contains(Restores(Cmd.arg), r) =>
                             Contains(todo, r) \/ vol[r] = {File("saved")} \/ r \in ignored
  /\ Working("restore_rom") /\ unpacking =>
       vol[Head(todo)] = {Part("saved")} \/ Head(todo) \in ignored
  /\ Working("write_raw_image") => Root = "BOOT" /\ vol["BOOT"] = {Part(g_package)}
  /\ todo # <<>> => \/ In({"binary"})
                    \/ InScript /\ Cmd.op \in {"format", "restore_rom", "copy_dir", "write_raw_image"}

\* A script in execution is a late attempt only if power was lost or recovery died.  One
\* that could not succeed may go on where an unreported failure hid the reason.
Late == losses > 0 \/ Deadly(request)
Pointless == ignored # {} /\ Meaning(request, base, checked) = None
Tracked ==
  \/ Pointless
  \/ IF todo = <<>> THEN Reached(request, base, checked, ignored, vol, AtLine, AtInner, Late)
                    ELSE Begun(request, base, checked, ignored, vol, AtLine, AtInner, Late)

\* Links and permissions are never there in part.
Whole == \A r \in Roots : Part("perm") \notin vol[r] /\ Part("link") \notin vol[r]

\* The inductive invariant of what a request achieves: while it is served, ...
Going ==
  /\ base \in Vols /\ checked \in BOOLEAN
  /\ origin = "command" => checked = TRUE /\ Kind[request] # "extended"
  /\ Nested /\ Lost
  /\ Halfway /\ Tracked
\* ... and then.
DoneInv ==
  /\ Whole
  /\ losses \in Nat /\ failed \in Nat
  /\ stack # <<>> => Going
  /\ SuccessMeansDone /\ ErrorExplained

-----------------------------------------------------------------------------
(***************************************************************************)
(* What the lines of a package make of the roots.                          *)
(***************************************************************************)

\* What holds at the start and after one line more holds after all of them.
LEMMA Induction ==
  ASSUME NEW T, NEW n \in Nat, 0 \in T, \A i \in 1..n : i - 1 \in T => i \in T
  PROVE  \A i \in 0..n : i \in T
<1> DEFINE U == (0..n) \ T
           R == {x \in Nat \X Nat : x[1] < x[2]}
<1>1. SUFFICES ASSUME U # {} PROVE FALSE
  OBVIOUS
<1>2. IsWellFoundedOn(R, Nat)
  BY NatLessThanWellFounded DEF OpToRel
<1>3. U \in SUBSET Nat
  OBVIOUS
<1> HIDE DEF R, U
<1>4. PICK m \in U : \A j \in U : ~(<<j, m>> \in R)
  BY <1>1, <1>2, <1>3, WFMin
<1>5. m \in 1..n /\ m \notin T
  <2>1. m \in 0..n /\ m \notin T
    BY DEF U
  <2>2. m # 0
    BY <2>1
  <2> QED
    BY <2>1, <2>2
<1>6. m - 1 \in 0..n /\ <<m - 1, m>> \in R
  BY <1>5 DEF R
<1>7. m - 1 \in T
  BY <1>4, <1>6 DEF U
<1> QED
  BY <1>5, <1>7

\* Steps can be taken one after the other, as often as there are steps.
HasChain(V, n, H, v) == \E f \in [0..n -> V] : f[0] = v /\ \A i \in 1..n : f[i] = H[i][f[i - 1]]
LEMMA Chain ==
  ASSUME NEW V, NEW n \in Nat, NEW H \in [1..n -> [V -> V]], NEW v \in V
  PROVE  HasChain(V, n, H, v)
<1> DEFINE Chained(m) == \E f \in [0..m -> V] : f[0] = v /\ \A i \in 1..m : f[i] = H[i][f[i - 1]]
           T == {m \in 0..n : Chained(m)}
<1>1. 0 \in T
  <2> DEFINE h == [i \in 0..0 |-> v]
  <2>1. h \in [0..0 -> V] /\ h[0] = v /\ 1..0 = {} /\ 0 \in 0..n
    OBVIOUS
  <2> HIDE DEF h
  <2>2. Chained(0)
    BY <2>1
  <2> QED
    BY <2>1, <2>2
<1>2. ASSUME NEW m \in 1..n, m - 1 \in T PROVE m \in T
  <2>1. PICK f \in [0..(m - 1) -> V] : f[0] = v /\ \A i \in 1..(m - 1) : f[i] = H[i][f[i - 1]]
    BY <1>2
  <2> DEFINE g == [i \in 0..m |-> IF i = m THEN H[m][f[m - 1]] ELSE f[i]]
  <2>2. m - 1 \in 0..(m - 1) /\ H[m][f[m - 1]] \in V
    OBVIOUS
  <2>3. g \in [0..m -> V]
    <3>1. \A i \in 0..m : i # m => i \in 0..(m - 1)
      OBVIOUS
    <3> QED
      BY <2>2, <3>1
  <2>4. g[0] = v
    BY <2>1
  <2>5. \A i \in 1..m : g[i] = H[i][g[i - 1]]
    <3> TAKE i \in 1..m
    <3>1. i - 1 \in 0..m /\ i - 1 # m /\ i \in 0..m /\ g[i - 1] = f[i - 1]
      OBVIOUS
    <3>2. CASE i = m
      BY <3>1, <3>2
    <3>3. CASE i # m
      <4>1. i \in 1..(m - 1) /\ g[i] = f[i]
        BY <3>1, <3>3
      <4> QED
        BY <2>1, <3>1, <4>1
    <3> QED
      BY <3>2, <3>3
  <2> HIDE DEF g
  <2>6. Chained(m)
    BY <2>3, <2>4, <2>5
  <2> HIDE DEF Chained
  <2> QED
    BY <2>6
<1> HIDE DEF T
<1>3. \A m \in 1..n : m - 1 \in T => m \in T
  BY <1>2
<1>4. n \in T
  <2>1. \A i \in 0..n : i \in T
    BY <1>1, <1>3, Induction
  <2> QED
    BY <2>1
<1> QED
  BY <1>4 DEF T, HasChain

\* What the helpers make of a root's items, by cases.
LEMMA EffectTyped ==
  ASSUME NEW p \in Packages, NEW w \in Vols, NEW c, c.op \in Ops, c.arg \in Arguments(c.op),
         c.item \in Items, NEW a
  PROVE  Effect(p, w, c, a) \in Vols \cup {None}
<1> DEFINE o == c.op
           x == c.arg
<1>1. x \in Arguments(o) /\ o \in Ops
  OBVIOUS
<1>2. o \in {"delete", "copy_dir", "set_perm", "symlink"} => x \in Roots
  <2> HIDE DEF o, x
  <2> QED
    BY <1>1 DEF Arguments, Roots
<1>3. {"perm", "link", "saved"} \subseteq Items /\ p \in Items /\ "BOOT" \in Roots
  BY DEF Items, Roots
<1>4. \A r \in Roots, i \in Items : Put(w, r, i) \in Vols /\ Without(w, r, i) \in Vols
  BY DiskTyped DEF Vols
<1>5. File(p) \in Held /\ File("saved") \in Held
  BY <1>3 DEF Held
<1>6. [w EXCEPT !["BOOT"] = {File(p)}] \in Vols
  BY <1>5 DEF Vols
<1>7. /\ [r \in Roots |-> IF Contains(FormatsOf(x), r) THEN {} ELSE w[r]] \in Vols
      /\ [r \in Roots |-> IF Contains(Restores(x), r) THEN {File("saved")} ELSE w[r]] \in Vols
  BY <1>5 DEF Vols
<1> QED
  BY <1>2, <1>3, <1>4, <1>6, <1>7, Zenon DEF Effect, If

LEMMA LineTyped ==
  ASSUME NEW p \in Packages, NEW w \in Vols, NEW i \in 1..Lines(p), NEW a
  PROVE  Line(p, w, i, a) \in Vols \cup {None}
<1>1. CASE Kind[p] = "binary"
  <2>1. p \in Items /\ "SYSTEM" \in Roots
    BY DEF Items, Roots, Volumes
  <2> QED
    BY <1>1, <2>1, DiskTyped DEF Line, Vols
<1>2. CASE Kind[p] \in {"syntax", "empty"}
  BY <1>2 DEF Line
<1>3. CASE Kind[p] \in {"script", "extended"}
  <2>1. i \in DOMAIN Content[p]
    BY <1>3, ScriptAssumption DEF Lines
  <2>2. LET c == Content[p][i] IN c.op \in Ops /\ c.arg \in Arguments(c.op) /\ c.item \in Items
    BY <2>1, ScriptAssumption
  <2>3. Line(p, w, i, a) = Effect(p, w, Content[p][i], a)
    BY <1>3 DEF Line
  <2> QED
    BY <2>2, <2>3, EffectTyped
<1> QED
  BY <1>1, <1>2, <1>3, ScriptAssumption DEF Kinds

LEMMA LinesNat == \A p \in Packages : Lines(p) \in Nat
BY ScriptAssumption DEF Lines

\* The roots after each line of a package that installs no other.
LEMMA RunSteps ==
  ASSUME NEW p \in Packages, NEW v \in Vols, NEW a
  PROVE  /\ Run(p, v, a)[0] = v
         /\ \A i \in 0..Lines(p) : Run(p, v, a)[i] \in Vols \cup {None}
         /\ \A i \in 1..Lines(p) :
              Run(p, v, a)[i] = IF Run(p, v, a)[i - 1] = None THEN None
                                ELSE Line(p, Run(p, v, a)[i - 1], i, a)
<1> DEFINE n == Lines(p)
           V == Vols \cup {None}
           H == [i \in 1..n |-> [w \in V |-> IF w = None THEN None ELSE Line(p, w, i, a)]]
           Is(f) == f = [i \in 0..n |-> IF i = 0 THEN v
                                        ELSE IF f[i - 1] = None THEN None ELSE Line(p, f[i - 1], i, a)]
<1>1. n \in Nat
  BY LinesNat
<1>2. \A i \in 1..n : \A w \in V : (IF w = None THEN None ELSE Line(p, w, i, a)) \in V
  BY LineTyped
<1>3. H \in [1..n -> [V -> V]]
  BY <1>2
<1> HIDE DEF H, V, n
<1>4. PICK f \in [0..n -> V] : f[0] = v /\ \A i \in 1..n : f[i] = H[i][f[i - 1]]
  <2>1. v \in V
    BY DEF V
  <2>2. HasChain(V, n, H, v)
    BY <1>1, <1>3, <2>1, Chain
  <2> QED
    BY <2>2 DEF HasChain
<1>5. \A i \in 1..n : f[i] = IF f[i - 1] = None THEN None ELSE Line(p, f[i - 1], i, a)
  <2> TAKE i \in 1..n
  <2>1. f[i - 1] \in V
    BY <1>1
  <2> QED
    BY <1>4, <2>1 DEF H
<1>6. Is(f)
  <2>1. \A i \in 0..n : i # 0 => i \in 1..n
    BY <1>1
  <2> QED
    BY <1>4, <1>5, <2>1
<1>7. Run(p, v, a) = CHOOSE g : Is(g)
  BY DEF Run, n
<1>8. Is(Run(p, v, a))
  <2> HIDE DEF Is
  <2> QED
    BY <1>6, <1>7, Zenon
<1> DEFINE g == Run(p, v, a)
<1>9. /\ \A i \in 0..n : g[i] = IF i = 0 THEN v
                               ELSE IF g[i - 1] = None THEN None ELSE Line(p, g[i - 1], i, a)
  BY <1>8
<1> HIDE DEF g
<1>10. /\ g[0] = v
       /\ \A i \in 1..n : g[i] = IF g[i - 1] = None THEN None ELSE Line(p, g[i - 1], i, a)
  <2>1. 0 \in 0..n /\ \A i \in 1..n : i # 0 /\ i \in 0..n
    BY <1>1
  <2> QED
    BY <1>9, <2>1
<1>11. \A i \in 0..n : g[i] \in V
  <2> DEFINE T == {i \in 0..n : g[i] \in V}
  <2>1. 0 \in T
    BY <1>1, <1>10 DEF V
  <2>2. \A i \in 1..n : i - 1 \in T => i \in T
    BY <1>2, <1>10 DEF V
  <2> HIDE DEF T
  <2>3. \A i \in 0..n : i \in T
    BY <1>1, <2>1, <2>2, Induction
  <2> QED
    BY <2>3 DEF T
<1> QED
  BY <1>10, <1>11 DEF n, g, V

\* A package that a script installs.
LEMMA CalleeTyped ==
  ASSUME NEW p \in Packages, NEW i \in 1..Lines(p), Calls(p, i)
  PROVE  Callee(p, i) \in Packages /\ Kind[Callee(p, i)] # "extended"
<1>1. i \in DOMAIN Content[p]
  BY ScriptAssumption DEF Calls, Lines
<1>2. Content[p][i].arg \in Arguments("install_zip")
  BY <1>1, ScriptAssumption DEF Calls
<1> QED
  BY <1>2 DEF Arguments, Callee

\* The roots after each line of a package that may install others.
LEMMA RunAllSteps ==
  ASSUME NEW p \in Packages, NEW v \in Vols, NEW a
  PROVE  /\ RunAll(p, v, a)[0] = v
         /\ \A i \in 0..Lines(p) : RunAll(p, v, a)[i] \in Vols \cup {None}
         /\ \A i \in 1..Lines(p) :
              RunAll(p, v, a)[i] = IF RunAll(p, v, a)[i - 1] = None THEN None
                                   ELSE Outer(p, RunAll(p, v, a)[i - 1], i, a)
<1> DEFINE n == Lines(p)
           V == Vols \cup {None}
           H == [i \in 1..n |-> [w \in V |-> IF w = None THEN None ELSE Outer(p, w, i, a)]]
           Is(f) == f = [i \in 0..n |-> IF i = 0 THEN v
                                        ELSE IF f[i - 1] = None THEN None ELSE Outer(p, f[i - 1], i, a)]
<1>1. n \in Nat
  BY LinesNat
<1>2. \A i \in 1..n : \A w \in V : (IF w = None THEN None ELSE Outer(p, w, i, a)) \in V
  <2> SUFFICES ASSUME NEW i \in 1..n, NEW w \in Vols PROVE Outer(p, w, i, a) \in V
    OBVIOUS
  <2>1. CASE Calls(p, i)
    <3>1. Callee(p, i) \in Packages
      BY <2>1, CalleeTyped
    <3>2. Lines(Callee(p, i)) \in 0..Lines(Callee(p, i))
      BY <3>1, LinesNat
    <3> QED
      BY <2>1, <3>1, <3>2, RunSteps DEF Outer, Inner, Callee
  <2>2. CASE ~Calls(p, i)
    BY <2>2, LineTyped DEF Outer
  <2> QED
    BY <2>1, <2>2
<1>3. H \in [1..n -> [V -> V]]
  BY <1>2
<1> HIDE DEF H, V, n
<1>4. PICK f \in [0..n -> V] : f[0] = v /\ \A i \in 1..n : f[i] = H[i][f[i - 1]]
  <2>1. v \in V
    BY DEF V
  <2>2. HasChain(V, n, H, v)
    BY <1>1, <1>3, <2>1, Chain
  <2> QED
    BY <2>2 DEF HasChain
<1>5. \A i \in 1..n : f[i] = IF f[i - 1] = None THEN None ELSE Outer(p, f[i - 1], i, a)
  <2> TAKE i \in 1..n
  <2>1. f[i - 1] \in V
    BY <1>1
  <2> QED
    BY <1>4, <2>1 DEF H
<1>6. Is(f)
  <2>1. \A i \in 0..n : i # 0 => i \in 1..n
    BY <1>1
  <2> QED
    BY <1>4, <1>5, <2>1
<1>7. RunAll(p, v, a) = CHOOSE g : Is(g)
  BY DEF RunAll, n
<1>8. Is(RunAll(p, v, a))
  <2> HIDE DEF Is
  <2> QED
    BY <1>6, <1>7, Zenon
<1> DEFINE g == RunAll(p, v, a)
<1>9. \A i \in 0..n : g[i] = IF i = 0 THEN v
                             ELSE IF g[i - 1] = None THEN None ELSE Outer(p, g[i - 1], i, a)
  BY <1>8
<1> HIDE DEF g
<1>10. /\ g[0] = v
       /\ \A i \in 1..n : g[i] = IF g[i - 1] = None THEN None ELSE Outer(p, g[i - 1], i, a)
  <2>1. 0 \in 0..n /\ \A i \in 1..n : i # 0 /\ i \in 0..n
    BY <1>1
  <2> QED
    BY <1>9, <2>1
<1>11. \A i \in 0..n : g[i] \in V
  <2> DEFINE T == {i \in 0..n : g[i] \in V}
  <2>1. 0 \in T
    BY <1>1, <1>10 DEF V
  <2>2. \A i \in 1..n : i - 1 \in T => i \in T
    BY <1>2, <1>10 DEF V
  <2> HIDE DEF T
  <2>3. \A i \in 0..n : i \in T
    BY <1>1, <2>1, <2>2, Induction
  <2> QED
    BY <2>3 DEF T
<1> QED
  BY <1>10, <1>11 DEF n, g, V

\* A script that cannot get beyond a line means nothing.
LEMMA NoneStays ==
  ASSUME NEW p \in Packages, NEW v \in Vols, NEW a, NEW k \in 0..Lines(p)
  PROVE  /\ Run(p, v, a)[k] = None => Inner(p, v, a) = None
         /\ RunAll(p, v, a)[k] = None => Meaning(p, v, a) = None
<1> DEFINE n == Lines(p)
           g == Run(p, v, a)
           h == RunAll(p, v, a)
<1>1. n \in Nat /\ k \in 0..n
  BY LinesNat
<1>2. /\ \A i \in 1..n : g[i - 1] = None => g[i] = None
      /\ \A i \in 1..n : h[i - 1] = None => h[i] = None
  BY RunSteps, RunAllSteps
<1> HIDE DEF g, h, n
<1>3. ASSUME NEW f, \A i \in 1..n : f[i - 1] = None => f[i] = None, f[k] = None
      PROVE  f[n] = None
  <2> DEFINE T == {i \in 0..n : i >= k => f[i] = None}
  <2>1. 0 \in T
    BY <1>1, <1>3
  <2>2. \A i \in 1..n : i - 1 \in T => i \in T
    <3> SUFFICES ASSUME NEW i \in 1..n, i - 1 \in T, i >= k PROVE f[i] = None
      BY <1>1
    <3>1. CASE i = k
      BY <1>3, <3>1
    <3>2. CASE i # k
      <4>1. i - 1 >= k
        BY <1>1, <3>2
      <4> QED
        BY <1>3, <4>1
    <3> QED
      BY <3>1, <3>2
  <2> HIDE DEF T
  <2>3. \A i \in 0..n : i \in T
    BY <1>1, <2>1, <2>2, Induction
  <2>4. n \in 0..n /\ n >= k
    BY <1>1
  <2> QED
    BY <2>3, <2>4 DEF T
<1>4. (g[k] = None => g[n] = None) /\ (h[k] = None => h[n] = None)
  BY <1>2, <1>3
<1> QED
  BY <1>4 DEF g, h, n, Inner, Meaning

-----------------------------------------------------------------------------
(***************************************************************************)
(* What a command determines.                                              *)
(***************************************************************************)
\* Files and parts of files are told apart.
LEMMA Apart ==
  /\ \A i, j : File(i) # Part(j)
  /\ \A i, j : (File(i) = File(j) <=> i = j) /\ (Part(i) = Part(j) <=> i = j)
BY DEF File, Part

\* A root that holds what a command left holds what its line says.
LEMMA LineMeans ==
  ASSUME NEW p \in Packages, NEW w \in Vols, NEW i \in 1..Lines(p), NEW a, Line(p, w, i, a) # None
  PROVE  Line(p, w, i, a) \in Vols /\ LineDone({}, p, i, w, Line(p, w, i, a))
<1>1. Line(p, w, i, a) \in Vols
  BY LineTyped
<1>2. CASE Kind[p] = "binary"
  <2>1. Line(p, w, i, a) = Put(w, "SYSTEM", p) /\ "SYSTEM" \in Roots
    BY <1>2 DEF Line, Roots, Volumes
  <2> QED
    BY <1>1, <1>2, <2>1, Apart DEF LineDone, LineTouches, LineLeaves, Put, Vols
<1>3. CASE Kind[p] \in {"script", "extended"}
  <2> DEFINE c == Content[p][i]
             x == c.arg
             u == Line(p, w, i, a)
  <2>1. i \in DOMAIN Content[p]
    BY <1>3, ScriptAssumption DEF Lines
  <2>2. c.op \in Ops /\ x \in Arguments(c.op) /\ c.item \in Items
    BY <2>1, ScriptAssumption
  <2>3. u = Effect(p, w, c, a) /\ u # None /\ u \in Vols
    BY <1>1, <1>3 DEF Line
  <2>4. /\ \A r, e : LineTouches(p, i, r, e) = Touches(p, c, r, e)
        /\ \A e : LineLeaves(p, i, e) = Leaves(p, c, e)
    BY <1>3 DEF LineTouches, LineLeaves
  <2> HIDE DEF c, u
  <2>5. c.op \in {"delete", "copy_dir", "set_perm", "symlink"} => x \in Roots
    BY <2>2 DEF Arguments, Roots
  <2> SUFFICES ASSUME NEW r \in Roots, NEW e \in Held
               PROVE  IF Touches(p, c, r, e) THEN e \in u[r] <=> Leaves(p, c, e)
                                             ELSE e \in u[r] <=> e \in w[r]
    BY <1>1, <2>4 DEF LineDone, u
  <2>6. CASE c.op \in {"format", "restore_rom"}
    BY <2>3, <2>6 DEF Effect, Touches, Leaves
  <2>7. CASE c.op = "delete"
    BY <2>3, <2>5, <2>7, Apart DEF Effect, Touches, Leaves, Without, Vols
  <2>8. CASE c.op = "copy_dir"
    BY <2>3, <2>5, <2>8, Apart DEF Effect, Touches, Leaves, Put, Vols
  <2>9. CASE c.op = "write_raw_image"
    BY <2>3, <2>9 DEF Effect, Touches, Leaves, Vols
  <2>10. CASE c.op \in {"set_perm", "symlink"}
    BY <2>3, <2>5, <2>10, Apart DEF Effect, Touches, Leaves, Put, Vols
  <2>11. CASE c.op \notin {"format", "restore_rom", "delete", "copy_dir", "write_raw_image", "set_perm",
                           "symlink"}
    <3>1. u = w
      BY <2>3, <2>11 DEF Effect, If
    <3> QED
      BY <2>11, <3>1 DEF Touches
  <2> QED
    BY <2>6, <2>7, <2>8, <2>9, <2>10, <2>11
<1>4. CASE Kind[p] \in {"syntax", "empty"}
  BY <1>4 DEF Line
<1> QED
  BY <1>2, <1>3, <1>4, ScriptAssumption DEF Kinds

-----------------------------------------------------------------------------
(***************************************************************************)
(* From site to site.                                                      *)
(***************************************************************************)
\* A site that a command stands at, its package and its line there.
Stands(q, k, i) == k <= Lines(q) /\ IF i = 0 THEN ~Calls(q, k) ELSE i <= Lines(Callee(q, k))
SitePkg(q, k, i) == IF i = 0 THEN q ELSE Callee(q, k)
SiteNo(k, i) == IF i = 0 THEN k ELSE i

\* There is nothing between a site and the next one.
LEMMA NextSite ==
  ASSUME NEW q \in Packages, NEW k \in Nat, NEW i \in Nat, NEW x, NEW y,
         Site(q, k, i), NextTo(q, k, i, x, y)
  PROVE  /\ x \in Nat /\ y \in Nat /\ Site(q, x, y) /\ Earlier(k, i, x, y)
         /\ \A m, j \in Nat : Site(q, m, j) /\ Earlier(k, i, m, j) => ~Earlier(m, j, x, y)
<1>1. Lines(q) \in Nat
  BY LinesNat
<1>2. k <= Lines(q) /\ Calls(q, k) => Lines(Callee(q, k)) \in Nat
  <2>1. k \in 1..(Lines(q) + 1)
    BY DEF Site
  <2> QED
    BY <1>1, <2>1, CalleeTyped, LinesNat
<1>3. k \in 1..(Lines(q) + 1) /\ (i = 0 \/ (k <= Lines(q) /\ Calls(q, k) /\ i \in 1..(Lines(Callee(q, k)) + 1)))
  BY DEF Site
<1>4. CASE i = 0 /\ k <= Lines(q) /\ ~Calls(q, k) /\ x = k + 1 /\ y = 0
  BY <1>1, <1>3, <1>4 DEF Site, Earlier
<1>5. CASE i = 0 /\ k <= Lines(q) /\ Calls(q, k) /\ x = k /\ y = 1
  BY <1>1, <1>2, <1>3, <1>5 DEF Site, Earlier
<1>6. CASE i >= 1 /\ i <= Lines(Callee(q, k)) /\ x = k /\ y = i + 1
  BY <1>1, <1>2, <1>3, <1>6 DEF Site, Earlier
<1>7. CASE i >= 1 /\ i = Lines(Callee(q, k)) + 1 /\ x = k + 1 /\ y = 0
  BY <1>1, <1>2, <1>3, <1>7 DEF Site, Earlier
<1> QED
  BY <1>4, <1>5, <1>6, <1>7 DEF NextTo

\* What the script makes of the roots from a site to the next one.
LEMMA NextBefore ==
  ASSUME NEW q \in Packages, NEW b \in Vols, NEW a, NEW k \in Nat, NEW i \in Nat, NEW x, NEW y,
         Site(q, k, i), NextTo(q, k, i, x, y),
         Before(q, b, a, k, 0) \in Vols, Before(q, b, a, k, i) \in Vols
  PROVE  /\ Before(q, b, a, x, y) =
              IF Stands(q, k, i) THEN Line(SitePkg(q, k, i), Before(q, b, a, k, i), SiteNo(k, i), a)
              ELSE Before(q, b, a, k, i)
         /\ Stands(q, k, i) =>
              /\ SitePkg(q, k, i) \in Packages /\ SiteNo(k, i) \in 1..Lines(SitePkg(q, k, i))
              /\ Before(q, b, a, x, y) # None =>
                   LineDone({}, SitePkg(q, k, i), SiteNo(k, i), Before(q, b, a, k, i), Before(q, b, a, x, y))
<1> DEFINE h == RunAll(q, b, a)
           u == h[k - 1]
           c == Callee(q, k)
           g == Run(c, u, a)
<1>1. Lines(q) \in Nat /\ k \in 1..(Lines(q) + 1) /\ u \in Vols /\ u # None
  BY LinesNat, ScriptAssumption DEF Site, Before, Vols
<1>2. k <= Lines(q) /\ Calls(q, k) => c \in Packages /\ Lines(c) \in Nat
  BY <1>1, CalleeTyped, LinesNat
<1>3. k <= Lines(q) => h[k] = Outer(q, u, k, a)
  BY <1>1, RunAllSteps
<1>4. k <= Lines(q) /\ Calls(q, k) =>
        g[0] = u /\ \A j \in 1..Lines(c) : g[j] = IF g[j - 1] = None THEN None ELSE Line(c, g[j - 1], j, a)
  BY <1>1, <1>2, RunSteps
<1>5. i = 0 \/ (k <= Lines(q) /\ Calls(q, k) /\ i \in 1..(Lines(c) + 1))
  BY DEF Site
<1>6. Before(q, b, a, k, i) # None
  BY ScriptAssumption DEF Vols
<1>7. Stands(q, k, i) => SitePkg(q, k, i) \in Packages /\ SiteNo(k, i) \in 1..Lines(SitePkg(q, k, i))
  BY <1>1, <1>2, <1>5 DEF Stands, SitePkg, SiteNo
<1>8. Before(q, b, a, x, y) =
        IF Stands(q, k, i) THEN Line(SitePkg(q, k, i), Before(q, b, a, k, i), SiteNo(k, i), a)
        ELSE Before(q, b, a, k, i)
  <2>1. CASE i = 0 /\ k <= Lines(q) /\ ~Calls(q, k) /\ x = k + 1 /\ y = 0
    <3>1. Before(q, b, a, x, y) = h[k] /\ Before(q, b, a, k, i) = u
      BY <1>1, <2>1 DEF Before
    <3> QED
      BY <1>3, <2>1, <3>1 DEF Stands, SitePkg, SiteNo, Outer
  <2>2. CASE i = 0 /\ k <= Lines(q) /\ Calls(q, k) /\ x = k /\ y = 1
    <3>1. Before(q, b, a, x, y) = g[0] /\ Before(q, b, a, k, i) = u
      BY <1>1, <2>2 DEF Before
    <3> QED
      BY <1>4, <2>2, <3>1 DEF Stands
  <2>3. CASE i >= 1 /\ i <= Lines(c) /\ x = k /\ y = i + 1
    <3>1. Before(q, b, a, x, y) = g[i] /\ Before(q, b, a, k, i) = g[i - 1]
      BY <1>1, <2>3 DEF Before
    <3>2. g[i] = Line(c, g[i - 1], i, a)
      BY <1>4, <1>5, <1>6, <2>3, <3>1
    <3> QED
      BY <1>5, <2>3, <3>1, <3>2 DEF Stands, SitePkg, SiteNo
  <2>4. CASE i >= 1 /\ i = Lines(c) + 1 /\ x = k + 1 /\ y = 0
    <3>1. Before(q, b, a, x, y) = h[k] /\ Before(q, b, a, k, i) = g[Lines(c)]
      BY <1>1, <1>2, <1>5, <2>4 DEF Before
    <3>2. h[k] = Inner(c, u, a)
      BY <1>3, <1>5, <2>4 DEF Outer, Callee
    <3>3. ~Stands(q, k, i)
      BY <1>2, <1>5, <2>4 DEF Stands
    <3> QED
      BY <3>1, <3>2, <3>3 DEF Inner
  <2> QED
    BY <2>1, <2>2, <2>3, <2>4 DEF NextTo
<1>9. Stands(q, k, i) /\ Before(q, b, a, x, y) # None =>
        LineDone({}, SitePkg(q, k, i), SiteNo(k, i), Before(q, b, a, k, i), Before(q, b, a, x, y))
  BY <1>7, <1>8, LineMeans
<1> QED
  BY <1>7, <1>8, <1>9

\* Only where a command stands is anything determined.
LEMMA SiteLine ==
  ASSUME NEW q \in Packages, NEW k \in Nat, NEW i \in Nat
  PROVE  /\ \A r, e : SiteTouches(q, k, i, r, e) => Site(q, k, i) /\ Stands(q, k, i)
         /\ Site(q, k, i) /\ Stands(q, k, i) =>
              \A r, e : SiteTouches(q, k, i, r, e) <=> LineTouches(SitePkg(q, k, i), SiteNo(k, i), r, e)
<1>1. Lines(q) \in Nat
  BY LinesNat
<1>2. k \in 1..Lines(q) /\ Calls(q, k) => Lines(Callee(q, k)) \in Nat
  BY CalleeTyped, LinesNat
<1> QED
  BY <1>1, <1>2 DEF SiteTouches, Site, Stands, SitePkg, SiteNo

-----------------------------------------------------------------------------
(***************************************************************************)
(* Keeping track.                                                          *)
(***************************************************************************)
\* A new attempt starts at the first line.
LEMMA TrackAgain ==
  ASSUME NEW q \in Packages, NEW b \in Vols, NEW a, NEW I, NEW v, NEW k \in Nat, NEW i \in Nat,
         NEW x \in Nat, NEW y \in Nat, Tracks(q, b, a, I, v, k, i, x, y)
  PROVE  Tracks(q, b, a, I, v, 1, 0, x, y)
<1>1. Lines(q) \in Nat
  BY LinesNat
<1>2. Site(q, 1, 0) /\ Site(q, x, y) /\ ~Earlier(x, y, 1, 0)
  BY <1>1 DEF Tracks, Site, Earlier
<1>3. Before(q, b, a, 1, 0) = b
  BY RunAllSteps DEF Before
<1>4. ASSUME NEW m \in Nat, NEW j \in Nat, NEW r, NEW e, SiteTouches(q, m, j, r, e)
      PROVE  ~Earlier(m, j, 1, 0)
  BY <1>1, <1>4 DEF SiteTouches, Earlier
<1> QED
  BY <1>2, <1>3, <1>4 DEF Tracks

\* An attempt starts for the first time.
LEMMA TrackFirst ==
  ASSUME NEW q \in Packages, NEW b \in Vols, NEW a, NEW I
  PROVE  Tracks(q, b, a, I, b, 1, 0, 1, 0)
<1>1. Lines(q) \in Nat
  BY LinesNat
<1>2. Site(q, 1, 0) /\ ~Earlier(1, 0, 1, 0)
  BY <1>1 DEF Site, Earlier
<1>3. Before(q, b, a, 1, 0) = b
  BY RunAllSteps DEF Before
<1>4. ASSUME NEW m \in Nat, NEW j \in Nat, Site(q, m, j), ~Earlier(1, 0, m, j)
      PROVE  m = 1 /\ j = 0
  BY <1>1, <1>4 DEF Site, Earlier
<1> QED
  BY <1>2, <1>3, <1>4 DEF Tracks

\* The command at work writes what it determines.
LEMMA TrackPart ==
  ASSUME NEW q \in Packages, NEW b \in Vols, NEW a, NEW I, NEW v, NEW w, NEW k \in Nat, NEW i \in Nat,
         NEW x \in Nat, NEW y \in Nat, Tracks(q, b, a, I, v, k, i, x, y), Earlier(k, i, x, y),
         \A r \in Roots \ I, e \in Held : SiteTouches(q, k, i, r, e) \/ (e \in w[r] <=> e \in v[r])
  PROVE  Tracks(q, b, a, I, w, k, i, x, y)
<1>1. ~Earlier(k, i, k, i)
  BY DEF Earlier
<1>2. ASSUME NEW r \in Roots \ I, NEW e \in Held
      PROVE  \/ e \in w[r] <=> e \in Before(q, b, a, k, i)[r]
             \/ \E m, j \in Nat : /\ ~Earlier(m, j, k, i) /\ Earlier(m, j, x, y)
                                  /\ SiteTouches(q, m, j, r, e)
  <2>1. CASE SiteTouches(q, k, i, r, e)
    BY <1>1, <2>1
  <2>2. CASE e \in w[r] <=> e \in v[r]
    BY <2>2 DEF Tracks
  <2> QED
    BY <2>1, <2>2
<1>3. ASSUME NEW r \in Roots \ I, NEW e \in Held
      PROVE  \/ e \in w[r] <=> e \in b[r]
             \/ \E m, j \in Nat : Earlier(m, j, x, y) /\ SiteTouches(q, m, j, r, e)
  <2>1. CASE SiteTouches(q, k, i, r, e)
    BY <2>1
  <2>2. CASE e \in w[r] <=> e \in v[r]
    BY <2>2 DEF Tracks
  <2> QED
    BY <2>1, <2>2
<1> QED
  BY <1>2, <1>3 DEF Tracks

\* The script begins a site that no attempt has begun before.
LEMMA TrackBegin ==
  ASSUME NEW q \in Packages, NEW b \in Vols, NEW a, NEW I, NEW v, NEW k \in Nat, NEW i \in Nat,
         NEW x \in Nat, NEW y \in Nat, Tracks(q, b, a, I, v, k, i, k, i), NextTo(q, k, i, x, y),
         Before(q, b, a, x, y) \in Vols
  PROVE  Tracks(q, b, a, I, v, k, i, x, y) /\ Earlier(k, i, x, y)
<1>1. Site(q, k, i) /\ Site(q, x, y) /\ Earlier(k, i, x, y)
  BY NextSite DEF Tracks
<1>2. ~Earlier(x, y, k, i)
  BY <1>1 DEF Earlier
<1>3. ASSUME NEW m \in Nat, NEW j \in Nat, Site(q, m, j), ~Earlier(x, y, m, j)
      PROVE  Before(q, b, a, m, j) \in Vols
  <2>1. CASE Earlier(k, i, m, j)
    <3>1. ~Earlier(m, j, x, y)
      BY <1>1, <1>3, <2>1, NextSite
    <3>2. m = x /\ j = y
      BY <1>3, <3>1 DEF Earlier
    <3> QED
      BY <3>2
  <2>2. CASE ~Earlier(k, i, m, j)
    BY <1>3, <2>2 DEF Tracks
  <2> QED
    BY <2>1, <2>2
<1>4. \A m, j \in Nat : Earlier(m, j, k, i) => Earlier(m, j, x, y)
  BY <1>1 DEF Earlier
<1> QED
  BY <1>1, <1>2, <1>3, <1>4 DEF Tracks

\* The script comes to the next site, with everything that the site determines as it should be.
LEMMA TrackMove ==
  ASSUME NEW q \in Packages, NEW b \in Vols, NEW a, NEW I, NEW v, NEW w, NEW k \in Nat, NEW i \in Nat,
         NEW x \in Nat, NEW y \in Nat, NEW s \in Nat, NEW t \in Nat,
         Tracks(q, b, a, I, v, k, i, x, y), Earlier(k, i, x, y), NextTo(q, k, i, s, t),
         \A r \in Roots \ I, e \in Held :
           IF SiteTouches(q, k, i, r, e) THEN e \in w[r] <=> e \in Before(q, b, a, s, t)[r]
           ELSE /\ e \in w[r] <=> e \in v[r]
                /\ e \in Before(q, b, a, s, t)[r] <=> e \in Before(q, b, a, k, i)[r]
  PROVE  Tracks(q, b, a, I, w, s, t, x, y)
<1>1. /\ Site(q, k, i) /\ Site(q, x, y) /\ Site(q, s, t) /\ Earlier(k, i, s, t)
      /\ ~Earlier(x, y, s, t)
  BY NextSite DEF Tracks
<1>2. ASSUME NEW m \in Nat, NEW j \in Nat, NEW r, NEW e, SiteTouches(q, m, j, r, e), ~Earlier(m, j, k, i),
             ~(m = k /\ j = i)
      PROVE  ~Earlier(m, j, s, t)
  <2>1. Site(q, m, j) /\ Earlier(k, i, m, j)
    BY <1>2, SiteLine DEF Earlier
  <2> QED
    BY <1>1, <2>1, NextSite
<1>3. ASSUME NEW r \in Roots \ I, NEW e \in Held
      PROVE  \/ e \in w[r] <=> e \in Before(q, b, a, s, t)[r]
             \/ \E m, j \in Nat : /\ ~Earlier(m, j, s, t) /\ Earlier(m, j, x, y)
                                  /\ SiteTouches(q, m, j, r, e)
  <2>1. CASE SiteTouches(q, k, i, r, e)
    BY <2>1
  <2>2. CASE ~SiteTouches(q, k, i, r, e)
    <3>1. (e \in w[r] <=> e \in v[r]) /\ (e \in Before(q, b, a, s, t)[r] <=> e \in Before(q, b, a, k, i)[r])
      BY <2>2
    <3>2. CASE e \in v[r] <=> e \in Before(q, b, a, k, i)[r]
      BY <3>1, <3>2
    <3>3. CASE \E m, j \in Nat : /\ ~Earlier(m, j, k, i) /\ Earlier(m, j, x, y)
                                 /\ SiteTouches(q, m, j, r, e)
      <4>1. PICK m, j \in Nat : ~Earlier(m, j, k, i) /\ Earlier(m, j, x, y) /\ SiteTouches(q, m, j, r, e)
        BY <3>3
      <4>2. ~(m = k /\ j = i)
        BY <2>2, <4>1
      <4>3. ~Earlier(m, j, s, t)
        BY <1>2, <4>1, <4>2
      <4> QED
        BY <4>1, <4>3
    <3> QED
      BY <3>2, <3>3 DEF Tracks
  <2> QED
    BY <2>1, <2>2
<1>4. ASSUME NEW r \in Roots \ I, NEW e \in Held
      PROVE  \/ e \in w[r] <=> e \in b[r]
             \/ \E m, j \in Nat : Earlier(m, j, x, y) /\ SiteTouches(q, m, j, r, e)
  <2>1. CASE SiteTouches(q, k, i, r, e)
    BY <2>1
  <2>2. CASE ~SiteTouches(q, k, i, r, e)
    BY <2>2 DEF Tracks
  <2> QED
    BY <2>1, <2>2
<1> QED
  BY <1>1, <1>3, <1>4 DEF Tracks

\* Where the first attempt comes to, the roots hold exactly what the script makes of them.
LEMMA TrackRoots ==
  ASSUME NEW q \in Packages, NEW b \in Vols, NEW a, NEW I, NEW v \in Vols, NEW k \in Nat, NEW i \in Nat,
         Tracks(q, b, a, I, v, k, i, k, i)
  PROVE  /\ Before(q, b, a, k, i) \in Vols /\ Before(q, b, a, k, 0) \in Vols /\ Site(q, k, i)
         /\ \A r \in Roots \ I : v[r] = Before(q, b, a, k, i)[r]
<1>1. Site(q, k, i) /\ ~Earlier(k, i, k, i)
  BY DEF Tracks, Earlier
<1>2. Before(q, b, a, k, i) \in Vols
  BY <1>1 DEF Tracks
<1>3. ASSUME NEW r \in Roots \ I, NEW e \in Held
      PROVE  e \in v[r] <=> e \in Before(q, b, a, k, i)[r]
  <2>1. ASSUME NEW m \in Nat, NEW j \in Nat, ~Earlier(m, j, k, i) PROVE ~Earlier(m, j, k, i)
    BY <2>1
  <2> QED
    BY <2>1 DEF Tracks
<1>4. \A r \in Roots \ I : v[r] = Before(q, b, a, k, i)[r]
  BY <1>2, <1>3 DEF Vols
<1>5. Site(q, k, 0) /\ ~Earlier(k, i, k, 0)
  BY <1>1 DEF Site, Earlier
<1> QED
  BY <1>1, <1>2, <1>4, <1>5 DEF Tracks

LEMMA TrackExact ==
  ASSUME NEW q \in Packages, NEW b \in Vols, NEW a, NEW v \in Vols, NEW k \in Nat, NEW i \in Nat,
         Tracks(q, b, a, {}, v, k, i, k, i)
  PROVE  v = Before(q, b, a, k, i)
<1> DEFINE u == Before(q, b, a, k, i)
           none == {}
<1>1. Tracks(q, b, a, none, v, k, i, k, i)
  OBVIOUS
<1> HIDE DEF none
<1>2. u \in Vols /\ \A r \in Roots \ none : v[r] = u[r]
  BY <1>1, TrackRoots
<1> HIDE DEF u
<1>3. u \in [Roots -> SUBSET Held] /\ v \in [Roots -> SUBSET Held] /\ \A r \in Roots : v[r] = u[r]
  BY <1>2 DEF Vols, none
<1>4. v = u
  BY <1>3
<1> QED
  BY <1>4 DEF u

\* A root more that is left out of account.
LEMMA TrackLess ==
  ASSUME NEW q, NEW b, NEW a, NEW I, NEW J, I \subseteq J, NEW v, NEW k, NEW i, NEW late
  PROVE  /\ Reached(q, b, a, I, v, k, i, late) => Reached(q, b, a, J, v, k, i, late)
         /\ Begun(q, b, a, I, v, k, i, late) => Begun(q, b, a, J, v, k, i, late)
<1>1. \A x, y : Tracks(q, b, a, I, v, k, i, x, y) => Tracks(q, b, a, J, v, k, i, x, y)
  BY DEF Tracks
<1> QED
  BY <1>1 DEF Reached, Begun

\* A site that is begun and the one it leads to have a meaning.
LEMMA TrackBoth ==
  ASSUME NEW q \in Packages, NEW b \in Vols, NEW a, NEW I, NEW v, NEW k \in Nat, NEW i \in Nat,
         NEW x \in Nat, NEW y \in Nat, NEW s, NEW t,
         Tracks(q, b, a, I, v, k, i, x, y), Earlier(k, i, x, y), NextTo(q, k, i, s, t)
  PROVE  /\ Before(q, b, a, k, 0) \in Vols /\ Before(q, b, a, k, i) \in Vols
         /\ Before(q, b, a, s, t) \in Vols
<1>1. Site(q, k, i) /\ Site(q, x, y) /\ ~Earlier(x, y, k, i)
  BY DEF Tracks
<1>2. s \in Nat /\ t \in Nat /\ Site(q, s, t) /\ ~Earlier(x, y, s, t)
  BY <1>1, NextSite
<1>3. Site(q, k, 0) /\ ~Earlier(x, y, k, 0)
  BY <1>1 DEF Site, Earlier
<1> QED
  BY <1>1, <1>2, <1>3 DEF Tracks

\* A script stops at a site that cannot be passed.
LEMMA Stops ==
  ASSUME NEW q \in Packages, NEW b \in Vols, NEW a, NEW k \in Nat, NEW i \in Nat, NEW s, NEW t,
         Site(q, k, i), Stands(q, k, i), NextTo(q, k, i, s, t), Before(q, b, a, k, 0) \in Vols,
         Before(q, b, a, s, t) = None
  PROVE  Meaning(q, b, a) = None
<1> DEFINE u == RunAll(q, b, a)[k - 1]
           c == Callee(q, k)
<1>1. u \in Vols /\ k \in 1..Lines(q) /\ Lines(q) \in Nat
  BY LinesNat DEF Before, Site, Stands
<1>2. RunAll(q, b, a)[k] = None
  <2>1. CASE i = 0
    BY <1>1, <2>1 DEF NextTo, Stands, Before
  <2>2. CASE i # 0
    <3>1. Calls(q, k) /\ c \in Packages /\ i \in 0..Lines(c) /\ s = k /\ t = i + 1
      <4>1. Calls(q, k) /\ i >= 1
        BY <2>2 DEF Site
      <4>2. c \in Packages /\ Lines(c) \in Nat
        BY <1>1, <4>1, CalleeTyped, LinesNat
      <4> QED
        BY <2>2, <4>1, <4>2 DEF NextTo, Stands
    <3>2. Run(c, u, a)[i] = None
      BY <3>1 DEF Before
    <3>3. Inner(c, u, a) = None
      BY <1>1, <3>1, <3>2, NoneStays
    <3>4. u # None
      BY <1>1, ScriptAssumption DEF Vols
    <3>5. RunAll(q, b, a)[k] = Outer(q, u, k, a)
      BY <1>1, <3>4, RunAllSteps
    <3> QED
      BY <3>1, <3>3, <3>5 DEF Outer, Callee
  <2> QED
    BY <2>1, <2>2
<1> QED
  BY <1>1, <1>2, NoneStays

\* A command that can succeed begins, unless the script cannot succeed and a root that is
\* left out of account hid it.
LEMMA Begins ==
  ASSUME NEW q \in Packages, NEW b \in Vols, NEW a, NEW I, NEW v \in Vols, NEW k \in Nat, NEW i \in Nat, NEW late,
         NEW s, NEW t, Reached(q, b, a, I, v, k, i, late), NextTo(q, k, i, s, t),
         I = {} /\ Stands(q, k, i) => Line(SitePkg(q, k, i), v, SiteNo(k, i), a) # None
  PROVE  Begun(q, b, a, I, v, k, i, late) \/ (I # {} /\ Meaning(q, b, a) = None)
<1>1. PICK x, y \in Nat : Tracks(q, b, a, I, v, k, i, x, y) /\ (late \/ (x = k /\ y = i))
  BY DEF Reached
<1>2. CASE Earlier(k, i, x, y)
  <2>1. late
    BY <1>1, <1>2 DEF Earlier
  <2> QED
    BY <1>1, <1>2, <2>1 DEF Begun
<1>3. CASE ~Earlier(k, i, x, y)
  <2>1. x = k /\ y = i
    BY <1>1, <1>3 DEF Tracks, Earlier
  <2>2. Tracks(q, b, a, I, v, k, i, k, i)
    BY <1>1, <2>1
  <2> DEFINE u == Before(q, b, a, k, i)
             z == Before(q, b, a, s, t)
  <2>3. /\ u \in Vols /\ (I = {} => v = u) /\ Before(q, b, a, k, 0) \in Vols
        /\ Site(q, k, i)
    <3>1. u \in Vols /\ Before(q, b, a, k, 0) \in Vols /\ Site(q, k, i)
      BY <2>2, TrackRoots
    <3>2. I = {} => v = u
      BY <2>2, TrackExact
    <3> QED
      BY <3>1, <3>2
  <2>4. s \in Nat /\ t \in Nat
    BY <2>3, NextSite
  <2>5. /\ z = IF Stands(q, k, i) THEN Line(SitePkg(q, k, i), u, SiteNo(k, i), a) ELSE u
        /\ Stands(q, k, i) => SitePkg(q, k, i) \in Packages /\ SiteNo(k, i) \in 1..Lines(SitePkg(q, k, i))
    BY <2>3, NextBefore
  <2> HIDE DEF u, z
  <2>6. z \in Vols \cup {None}
    <3>1. CASE Stands(q, k, i)
      BY <2>3, <2>5, <3>1, LineTyped
    <3> QED
      BY <2>3, <2>5, <3>1
  <2>7. CASE z = None
    <3>1. Stands(q, k, i)
      BY <2>3, <2>5, <2>7, ScriptAssumption DEF Vols
    <3>2. I # {}
      BY <2>3, <2>5, <2>7, <3>1
    <3> QED
      BY <2>3, <2>7, <3>1, <3>2, Stops DEF z
  <2>8. CASE z \in Vols
    <3>1. Tracks(q, b, a, I, v, k, i, s, t) /\ Earlier(k, i, s, t)
      BY <2>2, <2>4, <2>8, TrackBegin DEF z
    <3> QED
      BY <2>4, <3>1 DEF Begun
  <2> QED
    BY <2>6, <2>7, <2>8
<1> QED
  BY <1>2, <1>3

\* It writes.
LEMMA Works ==
  ASSUME NEW q \in Packages, NEW b \in Vols, NEW a, NEW I, NEW v, NEW w, NEW k \in Nat, NEW i \in Nat, NEW late,
         Begun(q, b, a, I, v, k, i, late), Stands(q, k, i),
         \A r \in Roots \ I, e \in Held :
           LineTouches(SitePkg(q, k, i), SiteNo(k, i), r, e) \/ (e \in w[r] <=> e \in v[r])
  PROVE  Begun(q, b, a, I, w, k, i, late)
<1>1. PICK x, y \in Nat : /\ Tracks(q, b, a, I, v, k, i, x, y) /\ Earlier(k, i, x, y)
                          /\ late \/ NextTo(q, k, i, x, y)
  BY DEF Begun
<1>2. Site(q, k, i)
  BY <1>1 DEF Tracks
<1>3. \A r \in Roots \ I, e \in Held : SiteTouches(q, k, i, r, e) \/ (e \in w[r] <=> e \in v[r])
  BY <1>2, SiteLine
<1>4. Tracks(q, b, a, I, w, k, i, x, y)
  BY <1>1, <1>3, TrackPart
<1> QED
  BY <1>1, <1>4 DEF Begun

\* It ends.
LEMMA Ends ==
  ASSUME NEW q \in Packages, NEW b \in Vols, NEW a, NEW I, NEW v, NEW w, NEW k \in Nat, NEW i \in Nat, NEW late,
         NEW s, NEW t, Begun(q, b, a, I, v, k, i, late), NextTo(q, k, i, s, t),
         IF Stands(q, k, i) THEN LineDone(I, SitePkg(q, k, i), SiteNo(k, i), v, w) ELSE w = v
  PROVE  Reached(q, b, a, I, w, s, t, late)
<1>1. PICK x, y \in Nat : /\ Tracks(q, b, a, I, v, k, i, x, y) /\ Earlier(k, i, x, y)
                          /\ late \/ NextTo(q, k, i, x, y)
  BY DEF Begun
<1>2. Site(q, k, i)
  BY <1>1 DEF Tracks
<1>3. s \in Nat /\ t \in Nat
  BY <1>2, NextSite
<1> DEFINE u == Before(q, b, a, k, i)
           z == Before(q, b, a, s, t)
<1>4. Before(q, b, a, k, 0) \in Vols /\ u \in Vols /\ z \in Vols
  BY <1>1, TrackBoth
<1>5. z # None
  BY <1>4, ScriptAssumption DEF Vols
<1>6. IF Stands(q, k, i) THEN LineDone({}, SitePkg(q, k, i), SiteNo(k, i), u, z) ELSE z = u
  BY <1>2, <1>4, <1>5, NextBefore
<1> HIDE DEF u, z
<1>7. \A r \in Roots \ I, e \in Held :
        IF SiteTouches(q, k, i, r, e) THEN e \in w[r] <=> e \in z[r]
        ELSE (e \in w[r] <=> e \in v[r]) /\ (e \in z[r] <=> e \in u[r])
  <2>1. CASE Stands(q, k, i)
    <3>1. \A r, e : SiteTouches(q, k, i, r, e) <=> LineTouches(SitePkg(q, k, i), SiteNo(k, i), r, e)
      BY <1>2, <2>1, SiteLine
    <3> QED
      BY <1>6, <2>1, <3>1 DEF LineDone
  <2>2. CASE ~Stands(q, k, i)
    <3>1. \A r, e : ~SiteTouches(q, k, i, r, e)
      BY <2>2, SiteLine
    <3> QED
      BY <1>6, <2>2, <3>1
  <2> QED
    BY <2>1, <2>2
<1>8. Tracks(q, b, a, I, w, s, t, x, y)
  BY <1>1, <1>3, <1>7, TrackMove DEF u, z
<1>9. late \/ (x = s /\ y = t)
  <2>1. i # 0 => Lines(Callee(q, k)) \in Nat
    <3>1. i # 0 => k \in 1..Lines(q) /\ Calls(q, k)
      BY <1>2, LinesNat DEF Site
    <3> QED
      BY <3>1, CalleeTyped, LinesNat
  <2>2. NextTo(q, k, i, x, y) => x = s /\ y = t
    BY <1>3, <2>1 DEF NextTo
  <2> QED
    BY <1>1, <2>2
<1> QED
  BY <1>8, <1>9 DEF Reached

\* It cannot succeed: the script means nothing, unless this is a late attempt and the command
\* would have succeeded on the roots of an earlier one.
LEMMA Stuck ==
  ASSUME NEW q \in Packages, NEW b \in Vols, NEW a, NEW v \in Vols, NEW k \in Nat, NEW i \in Nat, NEW late,
         Reached(q, b, a, {}, v, k, i, late), Stands(q, k, i),
         Line(SitePkg(q, k, i), v, SiteNo(k, i), a) = None
  PROVE  \/ Meaning(q, b, a) = None
         \/ late /\ \E w \in Vols : Line(SitePkg(q, k, i), w, SiteNo(k, i), a) # None
<1>1. PICK x, y \in Nat : Tracks(q, b, a, {}, v, k, i, x, y) /\ (late \/ (x = k /\ y = i))
  BY DEF Reached
<1>2. Site(q, k, i)
  BY <1>1 DEF Tracks
<1>3. PICK s, t : NextTo(q, k, i, s, t)
  <2>1. CASE i = 0
    <3>1. NextTo(q, k, i, k + 1, 0)
      BY <2>1 DEF NextTo, Stands
    <3> QED
      BY <3>1
  <2>2. CASE i # 0
    <3>1. NextTo(q, k, i, k, i + 1)
      BY <1>2, <2>2 DEF NextTo, Stands, Site
    <3> QED
      BY <3>1
  <2> QED
    BY <2>1, <2>2
<1>4. CASE Earlier(k, i, x, y)
  <2>1. late
    BY <1>1, <1>4 DEF Earlier
  <2>2. /\ Before(q, b, a, k, 0) \in Vols /\ Before(q, b, a, k, i) \in Vols
        /\ Before(q, b, a, s, t) \in Vols
    BY <1>1, <1>3, <1>4, TrackBoth
  <2>3. Before(q, b, a, s, t) = Line(SitePkg(q, k, i), Before(q, b, a, k, i), SiteNo(k, i), a)
    BY <1>2, <1>3, <2>2, NextBefore
  <2>4. Before(q, b, a, s, t) # None
    BY <2>2, ScriptAssumption DEF Vols
  <2> QED
    BY <2>1, <2>2, <2>3, <2>4
<1>5. CASE ~Earlier(k, i, x, y)
  <2>1. x = k /\ y = i
    BY <1>1, <1>5 DEF Tracks, Earlier
  <2>2. v = Before(q, b, a, k, i) /\ Before(q, b, a, k, 0) \in Vols
    <3>1. Tracks(q, b, a, {}, v, k, i, k, i)
      BY <1>1, <2>1
    <3> QED
      BY <3>1, TrackExact, TrackRoots
  <2>3. Before(q, b, a, s, t) = None
    BY <1>2, <1>3, <2>2, NextBefore
  <2> QED
    BY <1>2, <1>3, <2>2, <2>3, Stops
<1> QED
  BY <1>4, <1>5

\* It was the last one: the roots hold what the script means.
LEMMA Finished ==
  ASSUME NEW q \in Packages, NEW b \in Vols, NEW a, NEW I, NEW v \in Vols, NEW k \in Nat, NEW late,
         Reached(q, b, a, I, v, k, 0, late), k > Lines(q)
  PROVE  /\ I = {} => v = Meaning(q, b, a)
         /\ \A r \in Roots \ I : v[r] = Meaning(q, b, a)[r]
<1>1. PICK x, y \in Nat : Tracks(q, b, a, I, v, k, 0, x, y)
  BY DEF Reached
<1>2. x = k /\ y = 0 /\ k - 1 = Lines(q)
  BY <1>1, LinesNat DEF Tracks, Site, Earlier
<1>3. Before(q, b, a, k, 0) = Meaning(q, b, a)
  BY <1>2 DEF Before, Meaning
<1>4. Tracks(q, b, a, I, v, k, 0, k, 0) /\ 0 \in Nat
  BY <1>1, <1>2
<1>5. \A r \in Roots \ I : v[r] = Before(q, b, a, k, 0)[r]
  BY <1>4, TrackRoots
<1>6. I = {} => v = Before(q, b, a, k, 0)
  BY <1>4, TrackExact
<1> QED
  BY <1>3, <1>5, <1>6

-----------------------------------------------------------------------------
(***************************************************************************)
(* The scripts in execution stand at a site of the package asked for.      *)
(***************************************************************************)
LEMMA Position ==
  ASSUME Control, stack # <<>>, Nested
  PROVE  /\ request \in Packages /\ Top.pkg \in Packages /\ Top.at \in Nat \ {0} /\ Depth \in {1, 2}
         /\ AtLine \in Nat \ {0} /\ AtInner \in Nat /\ (Depth = 1 <=> AtInner = 0)
         /\ SitePkg(request, AtLine, AtInner) = Top.pkg /\ SiteNo(AtLine, AtInner) = Top.at
         /\ Depth = 1 => Top = stack[1]
         /\ Depth = 2 => Top = stack[2]
<1>1. Depth \in Nat \ {0} /\ Depth <= 2 /\ Top \in Frames /\ stack \in Seq(Frames) /\ Depth = Len(stack)
  BY TopFrame DEF Nested, Depth
<1>2. Depth \in {1, 2} /\ stack[1] \in Frames /\ (Depth = 2 => stack[2] \in Frames)
  BY <1>1, ElementOfSeq
<1>3. \A f \in Frames : f.pkg \in Packages /\ f.at \in Nat \ {0}
  BY DEF Frames
<1> QED
  BY <1>1, <1>2, <1>3 DEF Control, Nested, AtLine, AtInner, SitePkg, SiteNo, Top

\* The line of a script is the command at it.
LEMMA CommandLine ==
  ASSUME Control, InScript, Nested, ~AtEnd
  PROVE  /\ Top.at \in 1..Lines(Top.pkg) /\ Top.at \in DOMAIN Content[Top.pkg]
         /\ \A w, a : Line(Top.pkg, w, Top.at, a) = Effect(Top.pkg, w, Cmd, a)
         /\ \A r, e : LineTouches(Top.pkg, Top.at, r, e) <=> Touches(Top.pkg, Cmd, r, e)
         /\ \A e : LineLeaves(Top.pkg, Top.at, e) <=> Leaves(Top.pkg, Cmd, e)
         /\ Cmd.op # "install_zip" => Stands(request, AtLine, AtInner)
         /\ Cmd.op = "install_zip" => /\ AtInner = 0 /\ AtLine = Top.at /\ Top.pkg = request
                                      /\ AtLine <= Lines(request) /\ Calls(request, AtLine)
                                      /\ ~Stands(request, AtLine, AtInner)
                                      /\ Cmd.arg = Callee(request, AtLine)
<1>1. stack # <<>> /\ Kind[Top.pkg] \in {"script", "extended"}
  BY DEF InScript, In
<1>2. /\ request \in Packages /\ Top.pkg \in Packages /\ Top.at \in Nat \ {0} /\ Depth \in {1, 2}
      /\ AtLine \in Nat \ {0} /\ AtInner \in Nat /\ (Depth = 1 <=> AtInner = 0)
      /\ SitePkg(request, AtLine, AtInner) = Top.pkg /\ SiteNo(AtLine, AtInner) = Top.at
  BY <1>1, Position
<1>3. Top.at \in 1..Lines(Top.pkg) /\ Top.at \in DOMAIN Content[Top.pkg]
  BY <1>1, <1>2, ScriptAssumption DEF AtEnd, Lines
<1>4. \A w, a : Line(Top.pkg, w, Top.at, a) = Effect(Top.pkg, w, Cmd, a)
  BY <1>1 DEF Line, Cmd
<1>5. /\ \A r, e : LineTouches(Top.pkg, Top.at, r, e) <=> Touches(Top.pkg, Cmd, r, e)
      /\ \A e : LineLeaves(Top.pkg, Top.at, e) <=> Leaves(Top.pkg, Cmd, e)
  BY <1>1 DEF LineTouches, LineLeaves, Cmd
<1>6. CASE Depth = 1
  <2>1. AtInner = 0 /\ Top.pkg = request /\ AtLine = Top.at
    BY <1>2, <1>6 DEF SitePkg, SiteNo
  <2>2. Calls(request, AtLine) <=> Cmd.op = "install_zip"
    BY <1>1, <2>1 DEF Calls, Cmd
  <2>3. Cmd.arg = Callee(request, AtLine)
    BY <2>1 DEF Callee, Cmd
  <2> QED
    BY <1>3, <1>4, <1>5, <2>1, <2>2, <2>3 DEF Stands
<1>7. CASE Depth = 2
  <2>1. AtInner # 0 /\ Top.pkg = Callee(request, AtLine) /\ AtInner = Top.at
        /\ AtLine <= Lines(request) /\ Calls(request, AtLine)
    BY <1>2, <1>7 DEF SitePkg, SiteNo, Nested
  <2>2. Cmd.op # "install_zip"
    <3>1. AtLine \in DOMAIN Content[request]
      BY <1>2, <2>1, ScriptAssumption DEF Calls, Lines
    <3>2. Installs(request, Top.pkg)
      BY <2>1, <3>1 DEF Installs, Calls, Callee
    <3>3. ~Uses(Top.pkg, {"install_zip"})
      BY <1>2, <3>2, ScriptAssumption
    <3> QED
      BY <1>3, <3>3 DEF Uses, Cmd
  <2>3. Stands(request, AtLine, AtInner)
    BY <1>3, <2>1 DEF Stands
  <2> QED
    BY <1>3, <1>4, <1>5, <2>2, <2>3
<1> QED
  BY <1>2, <1>6, <1>7

\* A package without a script is one line.
LEMMA OtherLine ==
  ASSUME Control, stack # <<>>, ~InScript, Nested
  PROVE  /\ Top.at = 1 /\ Stands(request, AtLine, AtInner) /\ Lines(Top.pkg) = 1
         /\ Kind[Top.pkg] \in {"syntax", "empty", "binary"}
<1>1. /\ request \in Packages /\ Top.pkg \in Packages /\ Top.at \in Nat \ {0} /\ Depth \in {1, 2}
      /\ AtLine \in Nat \ {0} /\ AtInner \in Nat /\ (Depth = 1 <=> AtInner = 0)
      /\ SitePkg(request, AtLine, AtInner) = Top.pkg /\ SiteNo(AtLine, AtInner) = Top.at
  BY Position
<1>2. Top.at = 1 /\ Kind[Top.pkg] \in {"syntax", "empty", "binary"} /\ Lines(Top.pkg) = 1
  BY <1>1, ScriptAssumption DEF Nested, InScript, In, Kinds, Lines
<1>3. Stands(request, AtLine, AtInner)
  <2>1. CASE Depth = 1
    BY <1>1, <1>2, <2>1 DEF Stands, SitePkg, SiteNo, Calls
  <2>2. CASE Depth = 2
    BY <1>1, <1>2, <2>2 DEF Stands, SitePkg, SiteNo, Nested
  <2> QED
    BY <1>1, <2>1, <2>2
<1> QED
  BY <1>2, <1>3

\* A command returned 0: the next site.
LEMMA PassedMoves ==
  ASSUME Control, InScript, Nested, ~AtEnd, Cmd.op # "install_zip", Passed,
         UNCHANGED <<request, script_assert_enabled, checked>>
  PROVE  /\ NextTo(request, AtLine, AtInner, AtLine', AtInner') /\ Nested' /\ stack' # <<>>
         /\ InScript' /\ Depth' = Depth /\ Top'.pkg = Top.pkg /\ Top'.at = Top.at + 1
<1>1. stack # <<>> /\ stack \in Seq(Frames)
  BY DEF InScript, In, Control
<1>2. /\ request \in Packages /\ Top.pkg \in Packages /\ Top.at \in Nat \ {0} /\ Depth \in {1, 2}
      /\ AtLine \in Nat \ {0} /\ AtInner \in Nat /\ (Depth = 1 <=> AtInner = 0)
      /\ Depth = 1 => Top = stack[1]
      /\ Depth = 2 => Top = stack[2]
  BY <1>1, Position
<1>3. Top \in Frames /\ Depth \in 1..Len(stack) /\ Depth = Len(stack)
  BY <1>1, TopFrame DEF Depth
<1> DEFINE f == [Top EXCEPT !.at = @ + 1]
<1>4. f \in Frames /\ f.pkg = Top.pkg /\ f.at = Top.at + 1 /\ stack' = [stack EXCEPT ![Depth] = f]
  BY <1>3 DEF Frames, Passed, Top
<1> HIDE DEF f
<1>5. /\ stack' \in Seq(Frames) /\ Len(stack') = Len(stack) /\ stack'[Depth] = f
      /\ \A j \in 1..Len(stack) : j # Depth => stack'[j] = stack[j]
  BY <1>1, <1>3, <1>4, ExceptSeq
<1>6. Depth' = Depth /\ Top' = f /\ stack' # <<>>
  BY <1>2, <1>3, <1>5, EmptySeq DEF Depth, Top
<1>7. Stands(request, AtLine, AtInner)
  BY CommandLine
<1>8. InScript'
  BY <1>4, <1>6 DEF InScript, In
<1>9. CASE Depth = 1
  <2>1. AtLine' = AtLine + 1 /\ AtInner' = 0 /\ AtInner = 0 /\ stack'[1].pkg = stack[1].pkg
    BY <1>2, <1>4, <1>5, <1>6, <1>9 DEF AtLine, AtInner
  <2>2. Nested'
    BY <1>6, <1>8, <1>9, <2>1 DEF Nested
  <2>3. NextTo(request, AtLine, AtInner, AtLine', AtInner')
    BY <1>7, <2>1 DEF NextTo, Stands
  <2> QED
    BY <1>4, <1>6, <1>8, <2>2, <2>3
<1>10. CASE Depth = 2
  <2>1. stack'[1] = stack[1] /\ stack'[2] = f
    BY <1>3, <1>5, <1>10
  <2>2. AtLine' = AtLine /\ AtInner' = AtInner + 1 /\ AtInner # 0
    BY <1>2, <1>4, <1>6, <1>10, <2>1 DEF AtLine, AtInner
  <2>3. Nested'
    BY <1>2, <1>4, <1>6, <1>8, <1>10, <2>1, <2>2 DEF Nested
  <2>4. NextTo(request, AtLine, AtInner, AtLine', AtInner')
    BY <1>2, <1>7, <2>2 DEF NextTo, Stands
  <2> QED
    BY <1>4, <1>6, <1>8, <2>3, <2>4
<1> QED
  BY <1>2, <1>9, <1>10

\* A package is opened: its first line.
LEMMA OpenedMoves ==
  ASSUME Control, InScript, Nested, ~AtEnd, Cmd.op = "install_zip", Opened(stack, Cmd.arg),
         UNCHANGED <<request, script_assert_enabled, checked>>
  PROVE  /\ NextTo(request, AtLine, AtInner, AtLine', AtInner') /\ Nested' /\ stack' # <<>> /\ Lost'
<1>1. stack # <<>> /\ stack \in Seq(Frames)
  BY DEF InScript, In, Control
<1>2. request \in Packages /\ Depth \in {1, 2} /\ (Depth = 1 <=> AtInner = 0) /\ AtInner \in Nat
  BY <1>1, Position
<1>3. /\ AtInner = 0 /\ AtLine = Top.at /\ Top.pkg = request
      /\ AtLine <= Lines(request) /\ Calls(request, AtLine) /\ Cmd.arg = Callee(request, AtLine)
  BY CommandLine
<1>4. Callee(request, AtLine) \in Packages /\ Kind[Callee(request, AtLine)] # "extended"
  BY <1>1, <1>3, RootTyped DEF Root
<1> DEFINE f == [pkg |-> Callee(request, AtLine), at |-> 1]
<1>5. f \in Frames /\ f.pkg = Callee(request, AtLine) /\ f.at = 1
  BY <1>4 DEF Frames
<1>6. stack' = Append(stack, f) /\ g_package' = IF Kind[f.pkg] = "script" THEN f.pkg ELSE g_package
  BY <1>3 DEF Opened
<1> HIDE DEF f
<1>7. Len(stack) = 1
  BY <1>2, <1>3 DEF Depth
<1>8. Len(stack') = 2 /\ stack'[1] = stack[1] /\ stack'[2] = f
  BY <1>1, <1>5, <1>6, <1>7, AppendProperties
<1>9. Depth' = 2 /\ Top' = f /\ stack' # <<>> /\ AtLine' = AtLine /\ AtInner' = 1
  <2>1. Depth' = 2 /\ Top' = f /\ stack' # <<>>
    BY <1>8, EmptySeq DEF Depth, Top
  <2>2. AtLine' = AtLine
    BY <1>8 DEF AtLine
  <2>3. AtInner' = 1
    BY <1>5, <1>8, <2>1 DEF AtInner
  <2> QED
    BY <2>1, <2>2, <2>3
<1>10. Nested'
  BY <1>3, <1>5, <1>8, <1>9 DEF Nested
<1>11. NextTo(request, AtLine, AtInner, AtLine', AtInner')
  BY <1>3, <1>9 DEF NextTo
<1>12. Lost'
  <2>1. InScript' => g_package' = f.pkg
    BY <1>4, <1>5, <1>6, <1>9 DEF InScript, In
  <2> QED
    BY <1>4, <1>5, <2>1, ScriptAssumption DEF Lost
<1> QED
  BY <1>9, <1>10, <1>11, <1>12

\* handle_update_package() returns to the script that installed the package.
LEMMA ReturnedMoves ==
  ASSUME Control, stack # <<>>, Nested, Returned, Depth # 1,
         UNCHANGED <<request, script_assert_enabled, checked>>
  PROVE  /\ NextTo(request, AtLine, Lines(Top.pkg) + 1, AtLine', AtInner')
         /\ Nested' /\ stack' # <<>> /\ Lost' /\ outcome' = outcome
<1>1. stack \in Seq(Frames)
  BY DEF Control
<1>2. /\ request \in Packages /\ Depth \in {1, 2} /\ Top.pkg \in Packages /\ AtLine \in Nat \ {0}
      /\ (Depth = 2 => Top = stack[2])
  BY Position
<1>3. /\ Depth = 2 /\ AtLine <= Lines(request) /\ Calls(request, AtLine)
      /\ Top.pkg = Callee(request, AtLine) /\ stack[1].pkg = request
  BY <1>2 DEF Nested
<1> DEFINE s == SubSeq(stack, 1, Depth - 1)
<1>4. s \in Seq(Frames) /\ Len(s) = 1 /\ s[1] = stack[1]
  <2>1. \A i \in 1..(Depth - 1) : stack[i] \in Frames
    BY <1>1, <1>3, ElementOfSeq DEF Depth
  <2> QED
    BY <1>3, <2>1, SubSeqProperties
<1>5. stack' = [s EXCEPT ![1].at = @ + 1] /\ outcome' = outcome /\ g_package' = None
  BY <1>3 DEF Returned
<1> HIDE DEF s
<1> DEFINE f == [s[1] EXCEPT !.at = @ + 1]
<1>6. s[1] \in Frames /\ 1 \in 1..Len(s)
  BY <1>4, ElementOfSeq
<1>7. f \in Frames /\ f.pkg = request /\ f.at = AtLine + 1 /\ stack' = [s EXCEPT ![1] = f]
  BY <1>3, <1>4, <1>5, <1>6 DEF Frames, AtLine
<1> HIDE DEF f
<1>8. stack' \in Seq(Frames) /\ Len(stack') = 1 /\ stack'[1] = f
  BY <1>4, <1>6, <1>7, ExceptSeq
<1>9. Depth' = 1 /\ Top' = f /\ stack' # <<>> /\ AtLine' = AtLine + 1 /\ AtInner' = 0
  BY <1>7, <1>8, EmptySeq DEF Depth, Top, AtLine, AtInner
<1>10. InScript'
  BY <1>3, <1>7, <1>9 DEF InScript, In, Calls
<1>11. Nested'
  BY <1>7, <1>8, <1>9, <1>10 DEF Nested
<1>12. NextTo(request, AtLine, Lines(Top.pkg) + 1, AtLine', AtInner')
  BY <1>2, <1>3, <1>9, LinesNat DEF NextTo
<1>13. Lost'
  <2>1. AtLine \in DOMAIN Content[request] /\ Content[request][AtLine].op = "install_zip"
    BY <1>2, <1>3, ScriptAssumption DEF Calls, Lines
  <2> QED
    BY <1>2, <1>7, <1>9, <2>1 DEF Lost
<1> QED
  BY <1>5, <1>9, <1>11, <1>12, <1>13

-----------------------------------------------------------------------------
(***************************************************************************)
(* What the steps keep of that.                                            *)
(***************************************************************************)
\* What the command says has been done.
LEMMA ExactDone ==
  ASSUME Control, InScript, Nested, ~AtEnd, vol \in Vols, vol' \in Vols, NEW J,
         vol' = Effect(Top.pkg, vol, Cmd, checked)
  PROVE  LineDone(J, Top.pkg, Top.at, vol, vol') /\ Effect(Top.pkg, vol, Cmd, checked) # None
<1>1. Top.pkg \in Packages /\ Top.at \in 1..Lines(Top.pkg)
  BY Position, CommandLine DEF InScript, In
<1>2. vol' = Line(Top.pkg, vol, Top.at, checked) /\ vol' # None
  BY CommandLine, ScriptAssumption DEF Vols
<1>3. LineDone({}, Top.pkg, Top.at, vol, vol')
  BY <1>1, <1>2, LineMeans
<1> QED
  BY <1>2, <1>3 DEF LineDone

\* A command returned 0 and the roots hold what it says, but for unreported failures.
LEMMA PassedDone ==
  ASSUME ScriptInv, DoneInv, InScript, ~AtEnd, Cmd.op # "install_zip", Passed,
         UNCHANGED <<origin, request, base, checked, script_assert_enabled, losses>>, todo' = <<>>,
         Whole', vol' \in Vols, failed' \in Nat, ignored \subseteq ignored',
         LineDone(ignored', Top.pkg, Top.at, vol, vol'),
         ignored' = {} => Effect(Top.pkg, vol, Cmd, checked) # None
  PROVE  DoneInv'
<1>1. /\ Control /\ Going /\ Nested /\ Lost /\ stack # <<>> /\ vol \in Vols /\ base \in Vols
      /\ Tracked
  BY DEF ScriptInv, DoneInv, Going, InScript, In, Disk, Vols
<1>2. /\ NextTo(request, AtLine, AtInner, AtLine', AtInner') /\ Nested' /\ stack' # <<>>
      /\ InScript' /\ Depth' = Depth /\ Top'.pkg = Top.pkg /\ Top'.at = Top.at + 1
  BY <1>1, PassedMoves
<1>3. /\ request \in Packages /\ Top.pkg \in Packages /\ AtLine \in Nat /\ AtInner \in Nat
      /\ SitePkg(request, AtLine, AtInner) = Top.pkg /\ SiteNo(AtLine, AtInner) = Top.at
      /\ Top.at \in Nat
  BY <1>1, Position
<1>4. /\ Top.at \in 1..Lines(Top.pkg)
      /\ \A w, a : Line(Top.pkg, w, Top.at, a) = Effect(Top.pkg, w, Cmd, a)
      /\ Stands(request, AtLine, AtInner)
  BY <1>1, CommandLine
<1>5. g_package' = g_package /\ outcome' = outcome /\ outcome = "running"
  BY <1>1 DEF Passed, Control
<1>6. Lost'
  <2>1. \A j \in DOMAIN Content[request] : j < Top.at => j < Top.at + 1
    BY <1>3, ScriptAssumption
  <2> QED
    BY <1>1, <1>2, <1>5, <2>1 DEF Lost
<1>7. Tracked'
  <2> DEFINE J == ignored'
             nothing == Meaning(request, base, checked) = None
  <2>1. (ignored # {} /\ nothing) \/ Reached(request, base, checked, J, vol, AtLine, AtInner, Late)
        \/ Begun(request, base, checked, J, vol, AtLine, AtInner, Late)
    BY <1>1, TrackLess DEF Tracked, Pointless
  <2>2. ignored # {} => J # {}
    OBVIOUS
  <2>3. J = {} => Line(Top.pkg, vol, Top.at, checked) # None
    BY <1>4
  <2>4. LineDone(J, Top.pkg, Top.at, vol, vol')
    OBVIOUS
  <2> HIDE DEF J
  <2>5. (J # {} /\ nothing) \/ Begun(request, base, checked, J, vol, AtLine, AtInner, Late)
    <3>1. CASE Reached(request, base, checked, J, vol, AtLine, AtInner, Late)
      BY <1>1, <1>2, <1>3, <2>3, <3>1, Begins
    <3> QED
      BY <2>1, <2>2, <3>1
  <2>6. CASE Begun(request, base, checked, J, vol, AtLine, AtInner, Late)
    <3>1. Reached(request, base, checked, J, vol', AtLine', AtInner', Late)
      BY <1>1, <1>2, <1>3, <1>4, <2>4, <2>6, Ends
    <3> QED
      BY <3>1 DEF Tracked, Late, J
  <2> QED
    BY <2>5, <2>6 DEF Tracked, Pointless, J
<1>8. Halfway'
  BY DEF Halfway, Working
<1>9. Going'
  BY <1>1, <1>2, <1>6, <1>7, <1>8 DEF Going
<1> QED
  BY <1>5, <1>9 DEF DoneInv, SuccessMeansDone, ErrorExplained

\* A command or a package failed, and something that went wrong explains it or else the
\* roots as they are.
Fallible == {"symlink", "file_contains", "set_perm"}
LEMMA FailedDone ==
  ASSUME ScriptInv, DoneInv, stack # <<>>, Failed,
         UNCHANGED <<request, base, checked, losses>>, Whole', failed' \in Nat, ignored \subseteq ignored',
         \/ failed' > 0
         \/ ignored = {} => /\ todo = <<>> /\ Stands(request, AtLine, AtInner)
                            /\ Line(Top.pkg, vol, Top.at, checked) = None
                            /\ (\A w \in Vols : Line(Top.pkg, w, Top.at, checked) = None) \/ Uses(Top.pkg, Fallible)
  PROVE  DoneInv'
<1>1. Control /\ Going /\ Nested /\ vol \in Vols
  BY DEF ScriptInv, DoneInv, Going, Disk, Vols
<1>2. /\ request \in Packages /\ Top.pkg \in Packages /\ AtLine \in Nat /\ AtInner \in Nat
      /\ SitePkg(request, AtLine, AtInner) = Top.pkg /\ SiteNo(AtLine, AtInner) = Top.at
      /\ Depth \in {1, 2} /\ (Depth = 1 => Top = stack[1])
  BY <1>1, Position
<1>3. stack' = <<>> /\ outcome' = "error"
  BY DEF Failed
<1>4. Top.pkg = request \/ Installs(request, Top.pkg)
  <2>1. CASE Depth = 1
    BY <1>1, <1>2, <2>1 DEF Nested
  <2>2. CASE Depth = 2
    <3>1. Calls(request, AtLine) /\ AtLine <= Lines(request) /\ Top.pkg = Callee(request, AtLine) /\ AtLine >= 1
      BY <1>1, <1>2, <2>2, Position DEF Nested
    <3>2. AtLine \in DOMAIN Content[request]
      BY <1>2, <3>1, ScriptAssumption DEF Calls, Lines
    <3> QED
      BY <3>1, <3>2 DEF Installs, Calls, Callee
  <2> QED
    BY <1>2, <2>1, <2>2
<1>5. ASSUME ignored = {}, ~(failed' > 0)
      PROVE  Meaning(request, base, checked) = None \/ (Late /\ Uses(Top.pkg, Fallible))
  <2>1. Reached(request, base, checked, {}, vol, AtLine, AtInner, Late) /\ base \in Vols
    BY <1>1, <1>5 DEF Going, Tracked, Pointless
  <2> QED
    BY <1>1, <1>2, <1>5, <2>1, Stuck
<1>6. ErrorExplained'
  <2>1. CASE failed' > 0 \/ ignored' # {}
    BY <2>1 DEF ErrorExplained
  <2>2. CASE ~(failed' > 0) /\ ignored' = {}
    <3>1. Meaning(request, base, checked) = None \/ (Late /\ Uses(Top.pkg, Fallible))
      BY <1>5, <2>2
    <3> QED
      BY <1>2, <1>4, <3>1 DEF ErrorExplained, Late, Fallible
  <2> QED
    BY <2>1, <2>2
<1> QED
  BY <1>3, <1>6 DEF DoneInv, SuccessMeansDone

\* A command is at work.
LEMMA WorkingDone ==
  ASSUME ScriptInv, DoneInv, stack # <<>>, Stands(request, AtLine, AtInner),
         UNCHANGED <<stack, g_package, outcome, origin, request, base, checked, script_assert_enabled, losses>>,
         todo' # <<>>, Whole', failed' \in Nat, ignored \subseteq ignored', Halfway',
         ignored' = {} /\ todo = <<>> => Line(Top.pkg, vol, Top.at, checked) # None,
         \A r \in Roots \ ignored', e \in Held :
           LineTouches(Top.pkg, Top.at, r, e) \/ (e \in vol'[r] <=> e \in vol[r])
  PROVE  DoneInv'
<1>1. Control /\ Going /\ Nested /\ vol \in Vols /\ base \in Vols /\ Tracked
  BY DEF ScriptInv, DoneInv, Going, Disk, Vols
<1>2. /\ request \in Packages /\ AtLine \in Nat /\ AtInner \in Nat
      /\ SitePkg(request, AtLine, AtInner) = Top.pkg /\ SiteNo(AtLine, AtInner) = Top.at
  BY <1>1, Position
<1>3. outcome' = "running"
  BY DEF ScriptInv, Control
<1>4. Nested' /\ Lost' /\ AtLine' = AtLine /\ AtInner' = AtInner /\ Late' = Late
  BY <1>1 DEF Going, Nested, Lost, AtLine, AtInner, Depth, InScript, In, Top, Late
<1>5. Tracked'
  <2> DEFINE J == ignored'
             nothing == Meaning(request, base, checked) = None
  <2>1. \/ ignored # {} /\ nothing
        \/ todo = <<>> /\ Reached(request, base, checked, J, vol, AtLine, AtInner, Late)
        \/ Begun(request, base, checked, J, vol, AtLine, AtInner, Late)
    BY <1>1, TrackLess DEF Tracked, Pointless
  <2>2. ignored # {} => J # {}
    OBVIOUS
  <2>3. /\ J = {} /\ todo = <<>> => Line(Top.pkg, vol, Top.at, checked) # None
        /\ \A r \in Roots \ J, e \in Held :
             LineTouches(Top.pkg, Top.at, r, e) \/ (e \in vol'[r] <=> e \in vol[r])
    OBVIOUS
  <2> HIDE DEF J
  <2>4. PICK s, t : NextTo(request, AtLine, AtInner, s, t)
    <3>1. CASE AtInner = 0
      <4>1. NextTo(request, AtLine, AtInner, AtLine + 1, 0)
        BY <3>1 DEF NextTo, Stands
      <4> QED
        BY <4>1
    <3>2. CASE AtInner # 0
      <4>1. NextTo(request, AtLine, AtInner, AtLine, AtInner + 1)
        BY <1>2, <3>2 DEF NextTo, Stands
      <4> QED
        BY <4>1
    <3> QED
      BY <3>1, <3>2
  <2>5. (J # {} /\ nothing) \/ Begun(request, base, checked, J, vol, AtLine, AtInner, Late)
    <3>1. CASE todo = <<>> /\ Reached(request, base, checked, J, vol, AtLine, AtInner, Late)
      BY <1>1, <1>2, <2>3, <2>4, <3>1, Begins
    <3> QED
      BY <2>1, <2>2, <3>1
  <2>6. CASE Begun(request, base, checked, J, vol, AtLine, AtInner, Late)
    <3>1. Begun(request, base, checked, J, vol', AtLine, AtInner, Late)
      BY <1>1, <1>2, <2>3, <2>6, Works
    <3> QED
      BY <1>4, <3>1 DEF Tracked, J
  <2> QED
    BY <2>5, <2>6 DEF Tracked, Pointless, J
<1>6. Going'
  BY <1>1, <1>4, <1>5 DEF Going
<1> QED
  BY <1>3, <1>6 DEF DoneInv, SuccessMeansDone, ErrorExplained

\* A package has been installed: the request's, or one that it installs.
LEMMA ReturnedDone ==
  ASSUME ScriptInv, DoneInv, stack # <<>>, Returned,
         UNCHANGED <<origin, request, base, checked, script_assert_enabled, losses, failed, ignored>>,
         todo' = <<>>, Whole', vol' \in Vols,
         \/ Pointless
         \/ /\ Depth = 1 => \E k \in Nat : /\ k > Lines(request)
                                          /\ Reached(request, base, checked, ignored, vol', k, 0, Late)
            /\ Depth # 1 => Reached(request, base, checked, ignored, vol', AtLine, Lines(Top.pkg) + 1, Late)
  PROVE  DoneInv'
<1>1. Control /\ Going /\ Nested /\ losses' \in Nat /\ failed' \in Nat /\ base \in Vols
  BY DEF ScriptInv, DoneInv, Going
<1>2. request \in Packages /\ Top.pkg \in Packages /\ AtLine \in Nat \ {0} /\ Lines(Top.pkg) \in Nat
      /\ Depth \in {1, 2} /\ (Depth = 2 => Top = stack[2])
  BY <1>1, Position, LinesNat
<1>3. CASE Depth = 1
  <2>1. stack' = <<>> /\ outcome' = "success"
    BY <1>3 DEF Returned
  <2> DEFINE w == Meaning(request, base, checked)
  <2>2. \/ ignored # {} /\ w = None
        \/ (ignored = {} => vol' = w) /\ \A r \in Roots \ ignored : vol'[r] = w[r]
    BY <1>1, <1>2, <1>3, Finished DEF Pointless
  <2> HIDE DEF w
  <2>3. SuccessMeansDone'
    BY <2>2 DEF SuccessMeansDone, w
  <2> QED
    BY <1>1, <2>1, <2>3 DEF DoneInv, ErrorExplained
<1>4. CASE Depth # 1
  <2>1. /\ NextTo(request, AtLine, Lines(Top.pkg) + 1, AtLine', AtInner')
        /\ Nested' /\ stack' # <<>> /\ Lost' /\ outcome' = outcome
    BY <1>1, <1>4, ReturnedMoves
  <2>2. outcome = "running"
    BY <1>1 DEF Control
  <2>3. ~Stands(request, AtLine, Lines(Top.pkg) + 1)
    <3>1. Top.pkg = Callee(request, AtLine)
      BY <1>1, <1>2, <1>4 DEF Nested
    <3> QED
      BY <1>2, <3>1 DEF Stands
  <2>4. Tracked'
    <3> DEFINE i == Lines(Top.pkg) + 1
    <3>1. Pointless \/ Reached(request, base, checked, ignored, vol', AtLine, i, Late)
      BY <1>4
    <3>2. i \in Nat
      BY <1>2
    <3> HIDE DEF i
    <3>3. CASE Reached(request, base, checked, ignored, vol', AtLine, i, Late)
      <4>1. Begun(request, base, checked, ignored, vol', AtLine, i, Late) \/ Pointless
        BY <1>1, <1>2, <2>1, <2>3, <3>2, <3>3, Begins DEF i, Pointless
      <4>2. Begun(request, base, checked, ignored, vol', AtLine, i, Late) =>
              Reached(request, base, checked, ignored, vol', AtLine', AtInner', Late)
        BY <1>1, <1>2, <2>1, <2>3, <3>2, Ends DEF i
      <4> QED
        BY <4>1, <4>2 DEF Tracked, Pointless, Late
    <3> QED
      BY <3>1, <3>3 DEF Tracked, Pointless
  <2>5. Halfway'
    BY DEF Halfway, Working
  <2>6. Going'
    BY <1>1, <2>1, <2>4, <2>5 DEF Going
  <2> QED
    BY <1>1, <2>1, <2>2, <2>6 DEF DoneInv, SuccessMeansDone, ErrorExplained
<1> QED
  BY <1>3, <1>4

\* Nothing is ever written in part but a package's files, a backup's and the program's.
Written == {File(i) : i \in Items} \cup {Part(i) : i \in Packages \cup {"old", "saved", "tool"}}
LEMMA WholeKeeps ==
  ASSUME Whole, \A r \in Roots : vol'[r] \subseteq vol[r] \cup Written
  PROVE  Whole'
<1>1. Part("perm") \notin Written /\ Part("link") \notin Written
  BY Apart, ScriptAssumption DEF Written
<1> QED
  BY <1>1 DEF Whole

\* Commands that end in the step in which they begin: those that return 0 have done what
\* they say, unless that is known to be ignored; those that fail say why.
LEMMA CommandDone ==
  ASSUME ScriptInv, ScriptInv', DoneInv,
         \/ Refused \/ cmd_assert \/ fn_file_contains \/ QuietCommand \/ cmd_backup_rom
         \/ cmd_delete \/ cmd_set_perm \/ cmd_symlink \/ cmd_write_firmware_image
         \/ RunTool \/ cmd_run_program
  PROVE  DoneInv'
<1>1. InScript /\ ~AtEnd /\ todo = <<>> /\ todo' = <<>> /\ Cmd.op # "install_zip" /\ stack # <<>>
  BY DEF Refused, cmd_assert, fn_file_contains, QuietCommand, cmd_backup_rom, cmd_delete,
         cmd_set_perm, cmd_symlink, cmd_write_firmware_image, RunTool, cmd_run_program, At, Quiet, InScript, In
<1>2. UNCHANGED <<origin, request, base, checked, script_assert_enabled>>
  BY DEF Refused, cmd_assert, fn_file_contains, QuietCommand, cmd_backup_rom, cmd_delete,
         cmd_set_perm, cmd_symlink, cmd_write_firmware_image, RunTool, cmd_run_program,
         Quiet, Keep, KeepRam, asked
<1>3. losses' = losses /\ failed' \in {failed, failed + 1} /\ ignored \subseteq ignored'
  BY DEF Refused, cmd_assert, fn_file_contains, QuietCommand, cmd_backup_rom, cmd_delete,
         cmd_set_perm, cmd_symlink, cmd_write_firmware_image, RunTool, cmd_run_program,
         Quiet, Ran, Fault, NoFault, faults, MountFails, DeleteFails, Silently
<1>4. Passed \/ Failed
  BY DEF Refused, cmd_assert, fn_file_contains, QuietCommand, cmd_backup_rom, cmd_delete,
         cmd_set_perm, cmd_symlink, cmd_write_firmware_image, RunTool, cmd_run_program, Ran
<1>5. /\ Control /\ Nested /\ vol \in Vols /\ vol' \in Vols /\ failed \in Nat /\ failed' \in Nat
      /\ Whole /\ script_assert_enabled = checked
  BY <1>1, <1>3 DEF ScriptInv, Disk, DoneInv, Going, Nested, Vols
<1>6. /\ Cmd.op \in {"delete", "set_perm", "symlink", "file_contains"} => Root \in Volumes /\ Root \in Roots
      /\ Cmd.item \in Items
  BY <1>1, <1>5, RootTyped, CmdTyped DEF Roots
<1>7. {"perm", "link"} \subseteq Items
  BY DEF Items
<1>8. Whole'
  <2>1. CASE vol' = vol
    BY <1>5, <2>1 DEF Whole
  <2>2. CASE cmd_delete /\ vol' # vol
    <3>1. \/ vol' = Without(vol, Root, Cmd.item)
          \/ /\ Cmd.item \in Trees
             /\ vol' = [vol EXCEPT ![Root] = (@ \ {File(Cmd.item)}) \cup {Part(Cmd.item)}]
      BY <2>2 DEF cmd_delete, DeleteFails
    <3>2. Cmd.item \in Trees => Part(Cmd.item) \in Written
      BY DEF Trees, Items, Written
    <3>3. \A r \in Roots : vol'[r] \subseteq vol[r] \cup Written
      BY <1>5, <3>1, <3>2 DEF Without, Vols
    <3> QED
      BY <1>5, <3>3, WholeKeeps
  <2>3. CASE (cmd_set_perm \/ cmd_symlink) /\ vol' # vol
    <3>1. \E i \in {"perm", "link"} : vol' = [vol EXCEPT ![Root] = @ \cup {File(i)}]
      BY <2>3 DEF cmd_set_perm, cmd_symlink
    <3>2. \A i \in {"perm", "link"} : File(i) \in Written
      BY <1>7 DEF Written
    <3>3. \A r \in Roots : vol'[r] \subseteq vol[r] \cup Written
      BY <1>5, <3>1, <3>2 DEF Vols
    <3> QED
      BY <1>5, <3>3, WholeKeeps
  <2>4. CASE cmd_run_program /\ vol' # vol
    <3>1. \/ vol' = [vol EXCEPT !["SYSTEM"] = (@ \ {File("tool")}) \cup {Part("tool")}]
          \/ vol' = Without(vol, "SYSTEM", "tool")
      BY <2>4 DEF cmd_run_program
    <3>2. Part("tool") \in Written
      BY DEF Written
    <3>3. \A r \in Roots : vol'[r] \subseteq vol[r] \cup Written
      BY <1>5, <3>1, <3>2 DEF Vols, Without
    <3> QED
      BY <1>5, <3>3, WholeKeeps
  <2> QED
    BY <2>1, <2>2, <2>3, <2>4
    DEF Refused, cmd_assert, fn_file_contains, QuietCommand, cmd_backup_rom, cmd_delete,
        cmd_set_perm, cmd_symlink, cmd_write_firmware_image, RunTool, cmd_run_program, disk
<1>9. ASSUME Passed
      PROVE  /\ LineDone(ignored', Top.pkg, Top.at, vol, vol')
             /\ ignored' = {} => Effect(Top.pkg, vol, Cmd, checked) # None
  <2> DEFINE Exact == vol' = Effect(Top.pkg, vol, Cmd, checked)
  <2>1. ~Failed
    <3>1. stack' # <<>>
      BY <1>1, <1>2, <1>5, <1>9, PassedMoves
    <3> QED
      BY <3>1 DEF Failed
  <2>2. Exact => LineDone(ignored', Top.pkg, Top.at, vol, vol') /\ Effect(Top.pkg, vol, Cmd, checked) # None
    BY <1>1, <1>5, ExactDone
  <2>3. CASE cmd_assert
    BY <1>5, <2>1, <2>2, <2>3 DEF cmd_assert, At, Effect, If, disk
  <2>4. CASE fn_file_contains
    BY <1>5, <2>1, <2>2, <2>4 DEF fn_file_contains, At, Effect, If, Root
  <2>5. CASE cmd_set_perm \/ cmd_symlink
    <3>1. Root \in Roots
      BY <1>6, <2>5 DEF cmd_set_perm, cmd_symlink, At
    <3>2. \A i \in {"perm", "link"} : Put(vol, Root, i) = [vol EXCEPT ![Root] = @ \cup {File(i)}]
      <4>1. \A i \in {"perm", "link"} : vol[Root] \ {Part(i)} = vol[Root]
        BY <1>5, <3>1 DEF Whole
      <4> QED
        BY <4>1 DEF Put
    <3>3. CASE cmd_set_perm
      BY <2>1, <2>2, <3>2, <3>3 DEF cmd_set_perm, At, Effect, Root
    <3>4. CASE cmd_symlink
      BY <2>1, <2>2, <3>2, <3>4 DEF cmd_symlink, At, Effect, Root
    <3> QED
      BY <2>5, <3>3, <3>4
  <2>6. CASE QuietCommand \/ cmd_backup_rom \/ cmd_write_firmware_image \/ RunTool
    <3>1. vol' = vol /\ Cmd.op \in {"print", "backup_rom", "write_firmware_image", "run_tool"}
      BY <2>6 DEF QuietCommand, cmd_backup_rom, cmd_write_firmware_image, RunTool, At, disk
    <3>2. Exact
      BY <3>1 DEF Effect
    <3> QED
      BY <2>2, <3>2
  <2>7. ASSUME NEW x \in ignored', \A r \in Roots : r # x => vol'[r] = vol[r],
               \A r, e : Touches(Top.pkg, Cmd, r, e) => r = x
        PROVE  LineDone(ignored', Top.pkg, Top.at, vol, vol') /\ ignored' # {}
    <3>1. \A r, e : LineTouches(Top.pkg, Top.at, r, e) => r = x
      BY <1>1, <1>5, <2>7, CommandLine
    <3> QED
      BY <2>7, <3>1 DEF LineDone
  <2>8. CASE cmd_delete
    <3>1. Cmd.op = "delete" /\ Root \in Roots
      BY <1>6, <2>8 DEF cmd_delete, At
    <3>2. CASE vol' = Without(vol, Root, Cmd.item)
      <4>1. Exact
        BY <3>1, <3>2 DEF Effect, Root
      <4> QED
        BY <2>2, <4>1
    <3>3. CASE vol' # Without(vol, Root, Cmd.item)
      <4>1. Root \in ignored' /\ \A r \in Roots : r # Root => vol'[r] = vol[r]
        BY <1>5, <2>8, <3>1, <3>3 DEF cmd_delete, DeleteFails, Silently, Vols
      <4>2. \A r, e : Touches(Top.pkg, Cmd, r, e) => r = Root
        BY <3>1 DEF Touches, Root
      <4> QED
        BY <2>7, <4>1, <4>2
    <3> QED
      BY <3>2, <3>3
  <2>9. CASE cmd_run_program
    <3>1. Cmd.op = "run_program"
      BY <2>9 DEF cmd_run_program, At
    <3>2. CASE vol' = vol
      <4>1. Exact
        BY <3>1, <3>2 DEF Effect
      <4> QED
        BY <2>2, <4>1
    <3>3. CASE vol' # vol
      <4>1. "SYSTEM" \in ignored' /\ \A r \in Roots : r # "SYSTEM" => vol'[r] = vol[r]
        BY <1>5, <2>9, <3>3 DEF cmd_run_program, Silently, Without, Vols
      <4>2. \A r, e : ~Touches(Top.pkg, Cmd, r, e)
        BY <3>1 DEF Touches
      <4> QED
        BY <2>7, <4>1, <4>2
    <3> QED
      BY <3>2, <3>3
  <2>10. ~Refused
    BY <2>1 DEF Refused
  <2> QED
    BY <2>3, <2>4, <2>5, <2>6, <2>8, <2>9, <2>10
<1>10. ASSUME Failed, failed' # failed + 1
       PROVE  /\ Effect(Top.pkg, vol, Cmd, checked) = None
              /\ (\A w \in Vols : Effect(Top.pkg, w, Cmd, checked) = None) \/ Cmd.op \in Fallible
  <2>1. ~Passed
    <3>1. Passed => stack' # <<>>
      BY <1>1, <1>2, <1>5, PassedMoves
    <3> QED
      BY <1>10, <3>1 DEF Failed
  <2>2. ~Fault
    BY <1>10 DEF Fault
  <2>3. CASE Refused
    BY <2>3 DEF Refused, At, Effect
  <2>4. CASE cmd_assert
    BY <1>5, <2>1, <2>4 DEF cmd_assert, At, Effect, If
  <2>5. CASE fn_file_contains
    BY <1>5, <2>1, <2>2, <2>5 DEF fn_file_contains, At, Effect, If, Root, MountFails, Fallible
  <2>6. CASE cmd_set_perm
    BY <2>1, <2>2, <2>6 DEF cmd_set_perm, At, Effect, Root, MountFails, Fallible
  <2>7. CASE cmd_symlink
    BY <2>1, <2>2, <2>7 DEF cmd_symlink, At, Effect, Root, MountFails, Fallible
  <2>8. ~(QuietCommand \/ cmd_backup_rom \/ cmd_write_firmware_image \/ RunTool \/ cmd_delete)
    BY <1>10, <2>1, <2>2 DEF QuietCommand, cmd_backup_rom, cmd_write_firmware_image, RunTool, cmd_delete, Ran
  <2>9. ~cmd_run_program
    BY <1>10, <2>1, <2>2 DEF cmd_run_program, Ran
  <2> QED
    BY <2>3, <2>4, <2>5, <2>6, <2>7, <2>8, <2>9
<1>11. CASE Passed
  BY <1>1, <1>2, <1>3, <1>5, <1>8, <1>9, <1>11, PassedDone
<1>12. CASE Failed
  <2>1. CASE failed' = failed + 1
    <3>1. failed' > 0
      BY <1>5, <2>1
    <3> QED
      BY <1>1, <1>2, <1>3, <1>5, <1>8, <1>12, <3>1, FailedDone
  <2>2. CASE failed' # failed + 1
    <3>1. /\ Top.at \in DOMAIN Content[Top.pkg] /\ Stands(request, AtLine, AtInner)
          /\ \A w, a : Line(Top.pkg, w, Top.at, a) = Effect(Top.pkg, w, Cmd, a)
      BY <1>1, <1>5, CommandLine
    <3>2. Cmd.op \in Fallible => Uses(Top.pkg, Fallible)
      BY <3>1 DEF Uses, Cmd
    <3>3. /\ Line(Top.pkg, vol, Top.at, checked) = None
          /\ (\A w \in Vols : Line(Top.pkg, w, Top.at, checked) = None) \/ Uses(Top.pkg, Fallible)
      BY <1>10, <1>12, <2>2, <3>1, <3>2
    <3> QED
      BY <1>1, <1>2, <1>3, <1>5, <1>8, <1>12, <3>1, <3>3, FailedDone
  <2> QED
    BY <2>1, <2>2
<1> QED
  BY <1>4, <1>11, <1>12

\* The first of some roots, and the others.
LEMMA ContainsTail ==
  ASSUME NEW s \in Seq(Roots), s # <<>>
  PROVE  /\ Head(s) \in Roots /\ Contains(s, Head(s))
         /\ \A r : Contains(Tail(s), r) => Contains(s, r)
         /\ \A r : Contains(s, r) => r = Head(s) \/ Contains(Tail(s), r)
         /\ Len(s) = 1 => \A r : Contains(s, r) => r = Head(s)
         /\ Len(s) # 1 => Tail(s) # <<>>
<1>1. Len(s) \in Nat \ {0} /\ Head(s) = s[1] /\ Head(s) \in Roots
  BY EmptySeq, HeadTailProperties
<1>2. Tail(s) \in Seq(Roots) /\ Len(Tail(s)) = Len(s) - 1 /\ \A i \in 1..(Len(s) - 1) : Tail(s)[i] = s[i + 1]
  BY HeadTailProperties
<1>3. Contains(s, Head(s))
  BY <1>1 DEF Contains
<1>4. ASSUME NEW r, Contains(Tail(s), r) PROVE Contains(s, r)
  <2>1. PICK i \in 1..(Len(s) - 1) : Tail(s)[i] = r
    BY <1>2, <1>4 DEF Contains
  <2>2. i + 1 \in 1..Len(s) /\ s[i + 1] = r
    BY <1>1, <1>2, <2>1
  <2> QED
    BY <2>2 DEF Contains
<1>5. ASSUME NEW r, Contains(s, r), r # Head(s) PROVE Contains(Tail(s), r)
  <2>1. PICK i \in 1..Len(s) : s[i] = r
    BY <1>5 DEF Contains
  <2>2. i - 1 \in 1..(Len(s) - 1) /\ Tail(s)[i - 1] = s[(i - 1) + 1] /\ (i - 1) + 1 = i
    <3>1. i # 1
      BY <1>1, <1>5, <2>1
    <3>2. i - 1 \in 1..(Len(s) - 1) /\ (i - 1) + 1 = i
      BY <1>1, <3>1
    <3> QED
      BY <1>2, <3>2
  <2> QED
    BY <1>2, <2>1, <2>2 DEF Contains
<1>6. ASSUME Len(s) = 1, NEW r, Contains(s, r) PROVE r = Head(s)
  BY <1>1, <1>6 DEF Contains
<1>7. Len(s) # 1 => Tail(s) # <<>>
  BY <1>1, <1>2, EmptySeq
<1> QED
  BY <1>1, <1>3, <1>4, <1>5, <1>6, <1>7

\* Formatting, one volume after the other.
LEMMA FormatsDone ==
  ASSUME ScriptInv, ScriptInv', DoneInv,
         cmd_format \/ (Formatting /\ FormatSome) \/ FormatDone \/ FormatLeaves \/ FormatSkipped
  PROVE  DoneInv'
<1> DEFINE F == FormatsOf(Root)
<1>1. InScript /\ Cmd.op = "format" /\ stack # <<>> /\ Cmd.op # "install_zip"
  BY DEF cmd_format, FormatDone, FormatLeaves, FormatSkipped, Formatting, At, Working, InScript, In
<1>2. /\ UNCHANGED <<origin, request, base, checked, script_assert_enabled, losses>>
      /\ failed' \in {failed, failed + 1} /\ ignored \subseteq ignored'
  BY DEF cmd_format, FormatSome, FormatDone, FormatLeaves, FormatSkipped, NextRoot, Silently, KeepRam,
         Keep, asked, ram, NoFault, faults, MountFails, Fault
<1>3. /\ Control /\ Nested /\ vol \in Vols /\ vol' \in Vols /\ failed' \in Nat /\ ~AtEnd
      /\ Whole /\ Halfway
  BY <1>1, <1>2 DEF ScriptInv, Disk, DoneInv, Going, Vols, Busy, cmd_format, FormatDone, FormatLeaves,
                    FormatSkipped, Formatting, At, Working
<1>4. /\ \A w, a : Line(Top.pkg, w, Top.at, a) = Effect(Top.pkg, w, Cmd, a)
      /\ \A r, e : LineTouches(Top.pkg, Top.at, r, e) <=> Contains(F, r)
      /\ \A e : ~LineLeaves(Top.pkg, Top.at, e)
      /\ Stands(request, AtLine, AtInner)
  <2>1. /\ \A r, e : Touches(Top.pkg, Cmd, r, e) <=> Contains(F, r)
        /\ \A e : ~Leaves(Top.pkg, Cmd, e)
    BY <1>1 DEF Touches, Leaves, Root
  <2> QED
    BY <1>1, <1>3, <2>1, CommandLine
<1>5. Effect(Top.pkg, vol, Cmd, checked) # None
  <2>1. Effect(Top.pkg, vol, Cmd, checked) \in [Roots -> SUBSET Held]
    BY <1>1, <1>3 DEF Effect, Root, Vols
  <2> QED
    BY <2>1, ScriptAssumption
<1>6. UNCHANGED stack => Cmd' = Cmd /\ InScript' /\ Root' = Root
  BY <1>1 DEF Cmd, Root, InScript, In, Top, Depth
<1> HIDE DEF F
<1>7. CASE cmd_format
  <2>1. todo = <<>> /\ todo' = F /\ vol' = vol /\ UNCHANGED <<stack, g_package, outcome>>
    BY <1>7 DEF cmd_format, At, disk, F
  <2>2. todo' # <<>>
    BY <2>1 DEF FormatsOf, F
  <2>3. Whole'
    BY <1>3, <2>1 DEF Whole
  <2>4. Halfway'
    BY <1>1, <1>6, <2>1 DEF Halfway, Working, F
  <2> QED
    BY <1>1, <1>2, <1>3, <1>4, <1>5, <2>1, <2>2, <2>3, <2>4, WorkingDone
<1>8. CASE (Formatting /\ FormatSome) \/ FormatDone \/ FormatLeaves \/ FormatSkipped
  <2>1. todo # <<>> /\ todo \in Seq(Roots) /\ Working("format")
    BY <1>8 DEF FormatDone, FormatLeaves, FormatSkipped, Formatting, Working, ScriptInv, Disk
  <2> DEFINE h == Head(todo)
  <2>2. /\ h \in Roots /\ Contains(todo, h)
        /\ \A r : Contains(Tail(todo), r) => Contains(todo, r)
        /\ \A r : Contains(todo, r) => r = h \/ Contains(Tail(todo), r)
        /\ Len(todo) = 1 => \A r : Contains(todo, r) => r = h
        /\ Len(todo) # 1 => Tail(todo) # <<>>
    BY <2>1, ContainsTail
  <2>3. \A r \in Roots : /\ Contains(todo, r) => Contains(F, r)
                         /\ Contains(F, r) => Contains(todo, r) \/ vol[r] = {} \/ r \in ignored
    BY <1>3, <2>1 DEF Halfway, F
  <2> HIDE DEF h
  <2>4. \A r \in Roots : vol'[r] \subseteq vol[r]
    BY <1>3, <1>8, <2>2 DEF FormatSome, FormatDone, FormatLeaves, FormatSkipped, h, Vols
  <2>5. Whole'
    BY <1>3, <2>4 DEF Whole
  <2>6. CASE FormatSome
    <3>1. /\ UNCHANGED <<stack, todo, g_package, outcome, ignored>>
          /\ \A r \in Roots : r # h => vol'[r] = vol[r]
      BY <1>3, <2>6 DEF FormatSome, ram, h, Vols
    <3>2. Halfway'
      <4>1. \A r \in Roots : /\ Contains(todo', r) => Contains(F, r)
                             /\ Contains(F, r) => Contains(todo', r) \/ vol'[r] = {} \/ r \in ignored'
        BY <2>2, <2>3, <3>1
      <4> QED
        BY <1>1, <1>6, <3>1, <4>1 DEF Halfway, Working, F
    <3>3. \A r \in Roots \ ignored', e \in Held : Contains(F, r) \/ (e \in vol'[r] <=> e \in vol[r])
      BY <2>2, <2>3, <3>1
    <3> QED
      BY <1>1, <1>2, <1>3, <1>4, <1>5, <2>1, <2>5, <3>1, <3>2, <3>3, WorkingDone
  <2>7. CASE FormatDone \/ FormatLeaves \/ FormatSkipped
    <3>1. todo' = Tail(todo) /\ Rest(todo) /\ vol' = vol /\ (vol[h] = {} \/ h \in ignored')
      BY <2>7 DEF FormatDone, FormatLeaves, FormatSkipped, NextRoot, Silently, h
    <3>2. CASE Len(todo) = 1
      <4>1. Passed
        BY <3>1, <3>2 DEF Rest
      <4>2. todo' = <<>>
        BY <2>1, <3>1, <3>2, HeadTailProperties, EmptySeq
      <4>3. LineDone(ignored', Top.pkg, Top.at, vol, vol')
        <5>1. \A r \in Roots \ ignored' : Contains(F, r) => vol'[r] = {}
          BY <1>2, <2>2, <2>3, <3>1, <3>2
        <5> QED
          BY <1>4, <3>1, <5>1 DEF LineDone
      <4> QED
        BY <1>1, <1>2, <1>3, <1>5, <2>5, <4>1, <4>2, <4>3, PassedDone
    <3>3. CASE Len(todo) # 1
      <4>1. UNCHANGED <<stack, g_package, outcome>> /\ todo' # <<>>
        BY <2>2, <3>1, <3>3 DEF Rest
      <4>2. \A r \in Roots : /\ Contains(todo', r) => Contains(F, r)
                             /\ Contains(F, r) => Contains(todo', r) \/ vol'[r] = {} \/ r \in ignored'
        BY <1>2, <2>2, <2>3, <3>1
      <4>3. Halfway'
        BY <1>1, <1>6, <4>1, <4>2 DEF Halfway, Working, F
      <4> QED
        BY <1>1, <1>2, <1>3, <1>4, <1>5, <2>1, <2>5, <3>1, <4>1, <4>3, WorkingDone
    <3> QED
      BY <3>2, <3>3
  <2> QED
    BY <1>8, <2>6, <2>7
<1> QED
  BY <1>7, <1>8

\* Restoring, one volume after the other.
LEMMA RestoresDone ==
  ASSUME ScriptInv, ScriptInv', DoneInv, Unpacks,
         cmd_restore_rom \/ (Emptying /\ FormatSome) \/ RestoreSkipped \/ RestoreBegin \/ RestoreEnd
  PROVE  DoneInv'
<1>1. InScript /\ Cmd.op = "restore_rom" /\ stack # <<>> /\ Cmd.op # "install_zip"
  BY DEF cmd_restore_rom, RestoreSkipped, RestoreBegin, RestoreEnd, Emptying, At, Working, InScript, In
<1>2. /\ UNCHANGED <<origin, request, base, checked, script_assert_enabled, losses>>
      /\ failed' \in {failed, failed + 1} /\ ignored \subseteq ignored'
  BY DEF cmd_restore_rom, FormatSome, RestoreSkipped, RestoreBegin, RestoreEnd, NextRoot, Silently, KeepRam,
         Keep, asked, ram, NoFault, faults, Fault
<1>3. /\ Control /\ Nested /\ vol \in Vols /\ vol' \in Vols /\ failed \in Nat /\ failed' \in Nat /\ ~AtEnd
      /\ Whole /\ Halfway
  BY <1>1, <1>2 DEF ScriptInv, Disk, DoneInv, Going, Vols, Busy, cmd_restore_rom, RestoreSkipped,
                    RestoreBegin, RestoreEnd, Emptying, At, Working
<1> DEFINE z == Restores(Cmd.arg)
           all == {File("saved")}
<1>4. /\ \A w, a : Line(Top.pkg, w, Top.at, a) = Effect(Top.pkg, w, Cmd, a)
      /\ \A r, e : LineTouches(Top.pkg, Top.at, r, e) <=> Contains(z, r)
      /\ \A e : LineLeaves(Top.pkg, Top.at, e) <=> e \in all
      /\ Stands(request, AtLine, AtInner)
  <2>1. /\ \A r, e : Touches(Top.pkg, Cmd, r, e) <=> Contains(z, r)
        /\ \A e : Leaves(Top.pkg, Cmd, e) <=> e \in all
    BY <1>1 DEF Touches, Leaves
  <2> QED
    BY <1>1, <1>3, <2>1, CommandLine
<1>5. File("saved") \in Written /\ Part("saved") \in Written /\ File("saved") \in Held
  BY DEF Written, Held, Items
<1>6. Effect(Top.pkg, vol, Cmd, checked) # None
  <2>1. Effect(Top.pkg, vol, Cmd, checked) \in [Roots -> SUBSET Held]
    BY <1>1, <1>3, <1>5 DEF Effect, Vols
  <2> QED
    BY <2>1, ScriptAssumption
<1>7. UNCHANGED stack => Cmd' = Cmd /\ InScript'
  BY <1>1 DEF Cmd, InScript, In, Top, Depth
<1> HIDE DEF z, all
<1>8. ASSUME UNCHANGED stack, todo' # <<>>,
             \A r \in Roots : /\ Contains(todo', r) => Contains(z, r)
                              /\ Contains(z, r) => Contains(todo', r) \/ vol'[r] = all \/ r \in ignored',
             unpacking' => vol'[Head(todo')] = {Part("saved")} \/ Head(todo') \in ignored'
      PROVE  Halfway'
  BY <1>1, <1>7, <1>8 DEF Halfway, Working, z, all
<1>9. CASE cmd_restore_rom
  <2>1. todo = <<>> /\ vol' = vol /\ ~unpacking /\ unpacking' = unpacking
    BY <1>9 DEF cmd_restore_rom, At, disk, Unpacks, Working
  <2>2. Whole'
    BY <1>3, <2>1 DEF Whole
  <2>3. CASE Failed /\ Fault
    <3>1. failed' > 0
      BY <1>3, <2>3 DEF Fault
    <3> QED
      BY <1>1, <1>2, <1>3, <2>2, <2>3, <3>1, FailedDone
  <2>4. CASE todo' = z /\ z = <<>> /\ Passed
    <3>1. \A r : ~Contains(z, r)
      BY <2>4, EmptySeq DEF Contains
    <3>2. LineDone(ignored', Top.pkg, Top.at, vol, vol')
      BY <1>4, <2>1, <3>1 DEF LineDone
    <3> QED
      BY <1>1, <1>2, <1>3, <1>6, <2>2, <2>4, <3>2, PassedDone
  <2>5. CASE todo' = z /\ z # <<>> /\ UNCHANGED <<stack, g_package, outcome>>
    <3>1. Halfway'
      BY <1>8, <2>1, <2>5
    <3> QED
      BY <1>1, <1>2, <1>3, <1>4, <1>6, <2>1, <2>2, <2>5, <3>1, WorkingDone
  <2> QED
    BY <1>9, <2>3, <2>4, <2>5 DEF cmd_restore_rom, z
<1>10. CASE (Emptying /\ FormatSome) \/ RestoreSkipped \/ RestoreBegin \/ RestoreEnd
  <2>1. todo # <<>> /\ todo \in Seq(Roots) /\ Working("restore_rom")
    BY <1>10 DEF RestoreSkipped, RestoreBegin, RestoreEnd, Emptying, Working, ScriptInv, Disk
  <2> DEFINE h == Head(todo)
  <2>2. /\ h \in Roots /\ Contains(todo, h)
        /\ \A r : Contains(Tail(todo), r) => Contains(todo, r)
        /\ \A r : Contains(todo, r) => r = h \/ Contains(Tail(todo), r)
        /\ Len(todo) = 1 => \A r : Contains(todo, r) => r = h
        /\ Len(todo) # 1 => Tail(todo) # <<>>
    BY <2>1, ContainsTail
  <2>3. /\ \A r \in Roots : /\ Contains(todo, r) => Contains(z, r)
                            /\ Contains(z, r) => Contains(todo, r) \/ vol[r] = all \/ r \in ignored
        /\ unpacking => vol[h] = {Part("saved")} \/ h \in ignored
    BY <1>3, <2>1 DEF Halfway, z, all
  <2> HIDE DEF h
  <2>4. /\ \A r \in Roots : r # h => vol'[r] = vol[r]
        /\ vol'[h] \subseteq vol[h] \cup Written
    BY <1>3, <1>5, <1>10, <2>2 DEF FormatSome, RestoreSkipped, RestoreBegin, RestoreEnd, Put, disk, h, Vols
  <2>5. Whole'
    <3>1. \A r \in Roots : vol'[r] \subseteq vol[r] \cup Written
      BY <2>4
    <3> QED
      BY <1>3, <3>1, WholeKeeps
  <2>6. \A r \in Roots \ ignored', e \in Held : Contains(z, r) \/ (e \in vol'[r] <=> e \in vol[r])
    BY <2>2, <2>3, <2>4
  <2>7. CASE (Emptying /\ FormatSome) \/ RestoreBegin
    <3>1. UNCHANGED <<stack, todo, g_package, outcome>>
      BY <2>7 DEF FormatSome, RestoreBegin, ram
    <3>2. unpacking' => vol'[h] = {Part("saved")} \/ h \in ignored'
      <4>1. CASE Emptying /\ FormatSome
        BY <4>1 DEF Emptying, FormatSome, ram
      <4>2. CASE RestoreBegin
        BY <1>3, <2>2, <4>2 DEF RestoreBegin, Silently, h, Vols
      <4> QED
        BY <2>7, <4>1, <4>2
    <3>3. Halfway'
      BY <1>2, <1>8, <2>1, <2>2, <2>3, <2>4, <3>1, <3>2 DEF h
    <3> QED
      BY <1>1, <1>2, <1>3, <1>4, <2>1, <2>5, <2>6, <3>1, <3>3, WorkingDone
  <2>8. CASE RestoreSkipped \/ RestoreEnd
    <3>1. todo' = Tail(todo) /\ Rest(todo) /\ unpacking' = FALSE
      BY <2>8 DEF RestoreSkipped, RestoreEnd, NextRoot
    <3>2. vol'[h] = all \/ h \in ignored'
      <4>1. CASE RestoreSkipped
        BY <4>1 DEF RestoreSkipped, Silently, h
      <4>2. CASE RestoreEnd
        BY <1>2, <1>3, <2>2, <2>3, <4>2 DEF RestoreEnd, Put, h, all, Vols
      <4> QED
        BY <2>8, <4>1, <4>2
    <3>3. CASE Len(todo) = 1
      <4>1. Passed
        BY <3>1, <3>3 DEF Rest
      <4>2. todo' = <<>>
        BY <2>1, <3>1, <3>3, HeadTailProperties, EmptySeq
      <4>3. LineDone(ignored', Top.pkg, Top.at, vol, vol')
        <5>1. \A r \in Roots \ ignored' : vol'[r] = IF Contains(z, r) THEN all ELSE vol[r]
          BY <1>2, <2>2, <2>3, <2>4, <3>2, <3>3
        <5> QED
          BY <1>4, <5>1 DEF LineDone
      <4> QED
        BY <1>1, <1>2, <1>3, <1>6, <2>5, <4>1, <4>2, <4>3, PassedDone
    <3>4. CASE Len(todo) # 1
      <4>1. UNCHANGED <<stack, g_package, outcome>> /\ todo' # <<>>
        BY <2>2, <3>1, <3>4 DEF Rest
      <4>2. Halfway'
        BY <1>2, <1>8, <2>2, <2>3, <2>4, <3>1, <3>2, <4>1
      <4> QED
        BY <1>1, <1>2, <1>3, <1>4, <2>1, <2>5, <2>6, <4>1, <4>2, WorkingDone
    <3> QED
      BY <3>3, <3>4
  <2> QED
    BY <1>10, <2>7, <2>8
<1> QED
  BY <1>9, <1>10

\* Copying from the package and writing an image, and the failures of commands at work.
LEMMA WritesDone ==
  ASSUME ScriptInv, ScriptInv', DoneInv,
         cmd_copy_dir \/ cmd_write_raw_image \/ WriteEnd \/ WriteFails \/ RestoreFails
  PROVE  DoneInv'
<1>1. InScript /\ stack # <<>>
  BY DEF cmd_copy_dir, cmd_write_raw_image, WriteEnd, WriteFails, RestoreFails, Writing, At, Working, InScript, In
<1>2. /\ UNCHANGED <<origin, request, base, checked, script_assert_enabled, losses, ignored>>
      /\ failed' \in {failed, failed + 1}
  BY DEF cmd_copy_dir, cmd_write_raw_image, WriteEnd, WriteFails, RestoreFails, Quiet, KeepRam, Keep, asked,
         NoFault, faults, MountFails, Fault
<1>3. /\ Control /\ Nested /\ vol \in Vols /\ vol' \in Vols /\ failed \in Nat /\ failed' \in Nat /\ Own /\ Busy
      /\ Whole /\ Halfway
  BY <1>1, <1>2 DEF ScriptInv, Disk, DoneInv, Going, Vols
<1>4. ASSUME Failed, Fault, vol' = vol PROVE DoneInv'
  <2>1. failed' > 0 /\ Whole'
    BY <1>3, <1>4 DEF Fault, Whole
  <2> QED
    BY <1>1, <1>2, <1>3, <1>4, <2>1, FailedDone
<1>5. CASE WriteFails \/ RestoreFails
  BY <1>4, <1>5 DEF WriteFails, RestoreFails, disk
<1>6. CASE cmd_copy_dir \/ cmd_write_raw_image \/ WriteEnd
  <2>1. ~AtEnd /\ Cmd.op \in {"copy_dir", "write_raw_image"} /\ Cmd.op # "install_zip"
    BY <1>3, <1>6 DEF cmd_copy_dir, cmd_write_raw_image, WriteEnd, Writing, At, Working, Busy
  <2>2. /\ \A w, a : Line(Top.pkg, w, Top.at, a) = Effect(Top.pkg, w, Cmd, a)
        /\ \A r, e : LineTouches(Top.pkg, Top.at, r, e) <=> Touches(Top.pkg, Cmd, r, e)
        /\ Stands(request, AtLine, AtInner)
    BY <1>1, <1>3, <2>1, CommandLine
  <2>3. Root \in Roots
    BY <1>1, <1>3, <2>1, RootTyped DEF Roots
  <2>4. g_package # None => g_package = Top.pkg /\ Top.pkg \in Packages
    BY <1>1, <1>3 DEF Own, Control
  <2>5. Top.pkg \in Packages /\ Top.pkg \in Items
    BY <1>1, <1>3, Position DEF Items
  <2>6. File(Top.pkg) \in Written /\ Part(Top.pkg) \in Written /\ File(Top.pkg) \in Held
    BY <2>5 DEF Written, Held
  <2>7. UNCHANGED stack => Cmd' = Cmd
    BY DEF Cmd, Top, Depth
  <2>8. CASE cmd_copy_dir /\ ~Failed
    <3>1. /\ vol' = [vol EXCEPT ![Root] = @ \cup {Part(Top.pkg)}] /\ todo' = <<Root>> /\ todo = <<>>
          /\ UNCHANGED <<stack, g_package, outcome>> /\ Cmd.op = "copy_dir"
      BY <2>4, <2>8 DEF cmd_copy_dir, At
    <3>2. \A r \in Roots : vol'[r] \subseteq vol[r] \cup Written
      BY <1>3, <2>6, <3>1 DEF Vols
    <3>3. Whole'
      BY <1>3, <3>2, WholeKeeps
    <3>4. Halfway'
      BY <1>1, <2>7, <3>1 DEF Halfway, Working, InScript, In, Top, Depth
    <3>5. Line(Top.pkg, vol, Top.at, checked) # None
      <4>1. Effect(Top.pkg, vol, Cmd, checked) = Put(vol, Root, Top.pkg)
        BY <3>1 DEF Effect, Root
      <4>2. Put(vol, Root, Top.pkg) \in [Roots -> SUBSET Held]
        BY <1>3, <2>3, <2>5, DiskTyped DEF Vols
      <4> QED
        BY <2>2, <4>1, <4>2, ScriptAssumption
    <3>6. \A r \in Roots, e \in Held : Touches(Top.pkg, Cmd, r, e) \/ (e \in vol'[r] <=> e \in vol[r])
      BY <1>3, <2>3, <3>1 DEF Touches, Root, Vols
    <3> QED
      BY <1>1, <1>2, <1>3, <2>2, <3>1, <3>3, <3>4, <3>5, <3>6, WorkingDone
  <2>9. CASE cmd_copy_dir /\ Failed
    <3>1. Fault /\ vol' = vol
      <4>1. ~UNCHANGED stack
        BY <1>1, <2>9 DEF Failed
      <4> QED
        BY <2>9, <4>1 DEF cmd_copy_dir, MountFails
    <3> QED
      BY <1>4, <2>9, <3>1
  <2>10. CASE cmd_write_raw_image /\ Root = "BOOT"
    <3>1. /\ vol' = [vol EXCEPT !["BOOT"] = {Part(Top.pkg)}] /\ todo' = <<Root>> /\ todo = <<>>
          /\ UNCHANGED <<stack, g_package, outcome>> /\ Cmd.op = "write_raw_image" /\ g_package = Top.pkg
      BY <2>4, <2>10 DEF cmd_write_raw_image, At
    <3>2. \A r \in Roots : vol'[r] \subseteq vol[r] \cup Written
      BY <1>3, <2>6, <3>1 DEF Vols
    <3>3. Whole'
      BY <1>3, <3>2, WholeKeeps
    <3>4. Halfway'
      <4>1. Cmd' = Cmd /\ InScript' /\ Root' = "BOOT" /\ vol'["BOOT"] = {Part(g_package')}
        BY <1>1, <1>3, <2>3, <2>7, <2>10, <3>1 DEF Root, InScript, In, Top, Depth, Vols
      <4> QED
        BY <3>1, <4>1 DEF Halfway, Working
    <3>5. Line(Top.pkg, vol, Top.at, checked) # None
      <4>1. Effect(Top.pkg, vol, Cmd, checked) = [vol EXCEPT !["BOOT"] = {File(Top.pkg)}]
        BY <2>10, <3>1 DEF Effect, Root
      <4>2. [vol EXCEPT !["BOOT"] = {File(Top.pkg)}] \in [Roots -> SUBSET Held]
        BY <1>3, <2>6 DEF Vols
      <4> QED
        BY <2>2, <4>1, <4>2, ScriptAssumption
    <3>6. \A r \in Roots, e \in Held : Touches(Top.pkg, Cmd, r, e) \/ (e \in vol'[r] <=> e \in vol[r])
      BY <1>3, <3>1 DEF Touches, Vols
    <3> QED
      BY <1>1, <1>2, <1>3, <2>2, <3>1, <3>3, <3>4, <3>5, <3>6, WorkingDone
  <2>11. CASE cmd_write_raw_image /\ Root # "BOOT"
    <3>1. Failed /\ vol' = vol /\ todo = <<>> /\ Cmd.op = "write_raw_image"
      BY <2>11 DEF cmd_write_raw_image, At
    <3>2. \A w : Effect(Top.pkg, w, Cmd, checked) = None
      BY <2>11, <3>1 DEF Effect, Root
    <3>3. Whole'
      BY <1>3, <3>1 DEF Whole
    <3> QED
      BY <1>1, <1>2, <1>3, <2>2, <3>1, <3>2, <3>3, FailedDone
  <2>12. CASE WriteEnd
    <3>1. /\ vol' = Put(vol, Root, g_package) /\ Passed /\ todo' = <<>> /\ todo # <<>>
          /\ Working("copy_dir") \/ Working("write_raw_image")
      BY <2>12 DEF WriteEnd, Writing, Quiet, Working
    <3>2. g_package = Top.pkg
      BY <1>1, <1>3, <2>1, <2>4, <3>1 DEF Busy
    <3>3. \A r \in Roots : vol'[r] \subseteq vol[r] \cup Written
      BY <1>3, <2>6, <3>1, <3>2 DEF Vols, Put
    <3>4. Whole'
      BY <1>3, <3>3, WholeKeeps
    <3>5. vol' = Effect(Top.pkg, vol, Cmd, checked)
      <4>1. CASE Working("copy_dir")
        BY <3>1, <3>2, <4>1 DEF Working, Effect, Root
      <4>2. CASE Working("write_raw_image")
        <5>1. Root = "BOOT" /\ vol["BOOT"] = {Part(Top.pkg)}
          BY <1>3, <3>2, <4>2 DEF Halfway
        <5>2. Effect(Top.pkg, vol, Cmd, checked) = [vol EXCEPT !["BOOT"] = {File(Top.pkg)}]
          BY <4>2, <5>1 DEF Working, Effect, Root
        <5>3. vol' = [vol EXCEPT !["BOOT"] = {File(Top.pkg)}]
          BY <3>1, <3>2, <5>1 DEF Put
        <5> QED
          BY <5>2, <5>3
      <4> QED
        BY <3>1, <4>1, <4>2
    <3>6. LineDone(ignored', Top.pkg, Top.at, vol, vol') /\ Effect(Top.pkg, vol, Cmd, checked) # None
      BY <1>1, <1>3, <2>1, <3>5, ExactDone
    <3> QED
      BY <1>1, <1>2, <1>3, <2>1, <3>1, <3>4, <3>6, PassedDone
  <2> QED
    BY <1>6, <2>8, <2>9, <2>10, <2>11, <2>12
<1> QED
  BY <1>5, <1>6

\* install_package() from within a script, and its ends.
LEMMA PackageDone ==
  ASSUME ScriptInv, ScriptInv', DoneInv, cmd_install_zip \/ SyntaxError \/ Return \/ UpdateBinary
  PROVE  DoneInv'
<1>1. stack # <<>>
  BY DEF cmd_install_zip, SyntaxError, Return, UpdateBinary, At, InScript, In
<1>2. /\ UNCHANGED <<origin, request, base, checked, script_assert_enabled, losses, ignored>>
      /\ failed' \in {failed, failed + 1}
  BY DEF cmd_install_zip, SyntaxError, Return, UpdateBinary, Quiet, KeepRam, Keep, asked, NoFault, faults, Fault
<1>3. /\ Control /\ Going /\ Nested /\ vol \in Vols /\ vol' \in Vols /\ failed \in Nat /\ failed' \in Nat
      /\ losses \in Nat /\ Own /\ Busy /\ Whole /\ base \in Vols /\ Halfway /\ Tracked
  BY <1>1, <1>2 DEF ScriptInv, Disk, DoneInv, Going, Vols
<1>4. /\ request \in Packages /\ Top.pkg \in Packages /\ AtLine \in Nat \ {0} /\ AtInner \in Nat
      /\ SitePkg(request, AtLine, AtInner) = Top.pkg /\ SiteNo(AtLine, AtInner) = Top.at
      /\ Depth \in {1, 2} /\ (Depth = 1 <=> AtInner = 0) /\ Top.at \in Nat \ {0}
      /\ Lines(Top.pkg) \in Nat
  BY <1>1, <1>3, Position, LinesNat
<1>5. ASSUME Failed, Fault, vol' = vol PROVE DoneInv'
  <2>1. failed' > 0 /\ Whole'
    BY <1>3, <1>5 DEF Fault, Whole
  <2> QED
    BY <1>1, <1>2, <1>3, <1>5, <2>1, FailedDone
<1>6. CASE cmd_install_zip
  <2>1. InScript /\ ~AtEnd /\ Cmd.op = "install_zip" /\ todo = <<>> /\ todo' = <<>> /\ vol' = vol
    BY <1>6 DEF cmd_install_zip, At, Quiet, disk
  <2>2. CASE Opened(stack, Cmd.arg) /\ NoFault /\ UNCHANGED outcome
    <3>1. /\ NextTo(request, AtLine, AtInner, AtLine', AtInner') /\ Nested' /\ stack' # <<>> /\ Lost'
      BY <1>2, <1>3, <2>1, <2>2, OpenedMoves
    <3>2. ~Stands(request, AtLine, AtInner)
      BY <1>3, <2>1, CommandLine
    <3>3. outcome' = "running"
      BY <1>1, <1>3, <2>2 DEF Control
    <3>4. Tracked'
      <4>1. Pointless \/ Reached(request, base, checked, ignored, vol, AtLine, AtInner, Late)
        BY <1>3, <2>1 DEF Tracked
      <4>2. Pointless \/ Begun(request, base, checked, ignored, vol, AtLine, AtInner, Late)
        BY <1>3, <1>4, <3>1, <3>2, <4>1, Begins DEF Pointless
      <4>3. Pointless \/ Reached(request, base, checked, ignored, vol', AtLine', AtInner', Late)
        BY <1>3, <1>4, <2>1, <3>1, <3>2, <4>2, Ends
      <4> QED
        BY <1>2, <2>1, <4>3 DEF Tracked, Late, Pointless
    <3>5. Halfway'
      BY <2>1 DEF Halfway, Working
    <3>6. Whole'
      BY <1>3, <2>1 DEF Whole
    <3>7. Going'
      BY <1>2, <1>3, <3>1, <3>4, <3>5 DEF Going
    <3> QED
      BY <1>2, <1>3, <3>3, <3>6, <3>7 DEF DoneInv, SuccessMeansDone, ErrorExplained
  <2> QED
    BY <1>5, <1>6, <2>1, <2>2 DEF cmd_install_zip
<1>7. CASE SyntaxError
  <2>1. In({"syntax"}) /\ ~InScript /\ ~In({"binary"}) /\ Failed /\ vol' = vol
    BY <1>7 DEF SyntaxError, InScript, In, disk
  <2>2. Stands(request, AtLine, AtInner)
    BY <1>1, <1>3, <2>1, OtherLine
  <2>3. \A w, a : Line(Top.pkg, w, Top.at, a) = None
    BY <2>1 DEF Line, In
  <2>4. ignored = {} => todo = <<>>
    BY <1>3, <2>1 DEF Halfway, In
  <2>5. Whole'
    BY <1>3, <2>1 DEF Whole
  <2> QED
    BY <1>1, <1>2, <1>3, <2>1, <2>2, <2>3, <2>4, <2>5, FailedDone
<1>8. CASE Return
  <2>1. /\ InScript /\ AtEnd /\ Returned /\ todo = <<>> /\ todo' = <<>> /\ vol' = vol
        /\ failed' = failed
    BY <1>3, <1>8 DEF Return, Quiet, disk, Busy, NoFault, faults
  <2>2. Whole'
    BY <1>3, <2>1 DEF Whole
  <2>3. Top.at > Lines(Top.pkg)
    BY <2>1 DEF AtEnd, InScript, In, Lines
  <2>4. ASSUME ~Pointless
        PROVE  /\ Depth = 1 => \E k \in Nat : /\ k > Lines(request)
                                             /\ Reached(request, base, checked, ignored, vol', k, 0, Late)
               /\ Depth # 1 => Reached(request, base, checked, ignored, vol', AtLine, Lines(Top.pkg) + 1, Late)
    <3>1. Reached(request, base, checked, ignored, vol', AtLine, AtInner, Late)
      BY <1>3, <2>1, <2>4 DEF Tracked
    <3>2. CASE Depth = 1
      <4>1. AtInner = 0 /\ AtLine > Lines(request)
        BY <1>4, <2>3, <3>2 DEF SitePkg, SiteNo
      <4> QED
        BY <1>4, <3>1, <3>2, <4>1
    <3>3. CASE Depth # 1
      <4>1. Site(request, AtLine, AtInner)
        BY <3>1 DEF Reached, Tracks
      <4>2. AtInner = Lines(Top.pkg) + 1
        BY <1>4, <2>3, <3>3, <4>1 DEF Site, SitePkg, SiteNo
      <4> QED
        BY <3>1, <3>3, <4>2
    <3> QED
      BY <3>2, <3>3
  <2> QED
    BY <1>1, <1>2, <1>3, <2>1, <2>2, <2>4, ReturnedDone
<1>9. CASE UpdateBinary
  <2>1. In({"binary"}) /\ ~InScript /\ Kind[Top.pkg] = "binary" /\ "SYSTEM" \in Roots /\ Top.pkg \in Items
    BY <1>4, <1>9 DEF UpdateBinary, InScript, In, Roots, Volumes, Items
  <2>2. Stands(request, AtLine, AtInner) /\ Top.at = 1 /\ Lines(Top.pkg) = 1
    BY <1>1, <1>3, <2>1, OtherLine
  <2>3. /\ \A w, a : Line(Top.pkg, w, Top.at, a) = Put(w, "SYSTEM", Top.pkg)
        /\ \A r, e : LineTouches(Top.pkg, Top.at, r, e) <=> r = "SYSTEM" /\ e \in {File(Top.pkg), Part(Top.pkg)}
    BY <2>1 DEF Line, LineTouches
  <2>4. Line(Top.pkg, vol, Top.at, checked) \in Vols /\ Line(Top.pkg, vol, Top.at, checked) # None
    <3>1. Put(vol, "SYSTEM", Top.pkg) \in [Roots -> SUBSET Held]
      BY <1>3, <2>1, DiskTyped DEF Vols
    <3> QED
      BY <2>3, <3>1, ScriptAssumption DEF Vols
  <2>5. File(Top.pkg) \in Written /\ Part(Top.pkg) \in Written
    BY <1>4, <2>1 DEF Written
  <2>6. \A r \in Roots : vol'[r] \subseteq vol[r] \cup Written
    BY <1>3, <1>9, <2>5 DEF UpdateBinary, Put, Vols
  <2>7. Whole'
    BY <1>3, <2>6, WholeKeeps
  <2>8. CASE /\ todo = <<>> /\ todo' = <<"SYSTEM">> /\ vol' = [vol EXCEPT !["SYSTEM"] = @ \cup {Part(Top.pkg)}]
             /\ UNCHANGED <<stack, g_package, outcome>>
    <3>1. Halfway'
      BY <2>1, <2>8 DEF Halfway, Working, InScript, In, Top, Depth
    <3>2. \A r \in Roots \ ignored', e \in Held :
            LineTouches(Top.pkg, Top.at, r, e) \/ (e \in vol'[r] <=> e \in vol[r])
      BY <1>3, <2>1, <2>3, <2>8 DEF Vols
    <3>3. todo' # <<>>
      BY <2>8
    <3> QED
      BY <1>1, <1>2, <1>3, <2>2, <2>4, <2>7, <2>8, <3>1, <3>2, <3>3, WorkingDone
  <2>9. CASE todo # <<>> /\ todo' = <<>> /\ vol' = Put(vol, "SYSTEM", Top.pkg) /\ Returned /\ NoFault
    <3>1. failed' = failed /\ vol' = Line(Top.pkg, vol, Top.at, checked)
      BY <2>3, <2>9 DEF NoFault, faults
    <3>2. LineDone(ignored, Top.pkg, Top.at, vol, vol')
      <4>1. LineDone({}, Top.pkg, Top.at, vol, vol')
        BY <1>3, <1>4, <2>2, <2>4, <3>1, LineMeans
      <4> QED
        BY <4>1 DEF LineDone
    <3>3. ASSUME ~Pointless
          PROVE  /\ Depth = 1 => \E k \in Nat : /\ k > Lines(request)
                                               /\ Reached(request, base, checked, ignored, vol', k, 0, Late)
                 /\ Depth # 1 => Reached(request, base, checked, ignored, vol', AtLine, Lines(Top.pkg) + 1, Late)
      <4>1. Begun(request, base, checked, ignored, vol, AtLine, AtInner, Late)
        BY <1>3, <2>9, <3>3 DEF Tracked
      <4>2. CASE Depth = 1
        <5>1. AtInner = 0 /\ AtLine = 1 /\ Lines(request) = 1 /\ ~Calls(request, AtLine)
          BY <1>4, <2>1, <2>2, <4>2 DEF SitePkg, SiteNo, Calls
        <5>2. NextTo(request, AtLine, AtInner, 2, 0)
          BY <5>1 DEF NextTo
        <5>3. Reached(request, base, checked, ignored, vol', 2, 0, Late)
          BY <1>3, <1>4, <2>2, <3>2, <4>1, <5>2, Ends
        <5> QED
          BY <4>2, <5>1, <5>3
      <4>3. CASE Depth # 1
        <5>1. AtInner = 1 /\ Lines(Callee(request, AtLine)) = 1
          BY <1>4, <2>2, <4>3 DEF SitePkg, SiteNo
        <5>2. NextTo(request, AtLine, AtInner, AtLine, 2)
          BY <5>1 DEF NextTo
        <5>3. Reached(request, base, checked, ignored, vol', AtLine, 2, Late)
          BY <1>3, <1>4, <2>2, <3>2, <4>1, <5>2, Ends
        <5> QED
          BY <2>2, <4>3, <5>3
      <4> QED
        BY <4>2, <4>3
    <3> QED
      BY <1>1, <1>2, <1>3, <2>7, <2>9, <3>1, <3>3, ReturnedDone
  <2> QED
    BY <1>5, <1>9, <2>8, <2>9 DEF UpdateBinary
<1> QED
  BY <1>6, <1>7, <1>8, <1>9

\* A new attempt starts on what the earlier ones left, at the script's first line.
LEMMA RestartDone ==
  ASSUME ScriptInv, ScriptInv', DoneInv, Die \/ PowerLoss
  PROVE  DoneInv'
<1>1. /\ Again /\ stack # <<>> /\ vol' = vol /\ failed' = failed
      /\ UNCHANGED <<origin, request, base, checked, ignored>>
  BY DEF Die, PowerLoss, In, At, InScript, Keep, asked, NoFault, faults
<1>2. /\ Control /\ Going /\ Nested /\ vol \in Vols /\ failed \in Nat /\ losses \in Nat /\ Whole /\ base \in Vols
      /\ Lost
  BY <1>1 DEF ScriptInv, Disk, DoneInv, Going, Vols
<1>3. losses' \in Nat /\ (PowerLoss => losses' > 0) /\ Whole'
  BY <1>1, <1>2 DEF Die, PowerLoss, NoFault, faults, Whole
<1>4. CASE ~StillAsked
  <2>1. stack' = <<>> /\ outcome' = "dropped"
    BY <1>1, <1>4 DEF Again
  <2> QED
    BY <1>1, <1>2, <1>3, <2>1 DEF DoneInv, SuccessMeansDone, ErrorExplained
<1>5. CASE StillAsked
  <2>1. origin = "command" /\ checked = TRUE /\ Kind[request] # "extended"
    BY <1>2, <1>5 DEF StillAsked, Going
  <2> DEFINE f == [pkg |-> request, at |-> 1]
  <2>2. /\ stack' = <<f>> /\ outcome' = outcome /\ todo' = <<>> /\ script_assert_enabled' = TRUE
        /\ g_package' = IF Kind[request] = "script" THEN request ELSE None
    BY <1>1, <1>5, <2>1 DEF Again
  <2>3. f.pkg = request /\ f.at = 1
    OBVIOUS
  <2> HIDE DEF f
  <2>4. /\ Depth' = 1 /\ Top' = f /\ stack' # <<>> /\ AtLine' = 1 /\ AtInner' = 0
        /\ outcome' = "running"
    BY <1>1, <1>2, <2>2, <2>3 DEF Depth, Top, AtLine, AtInner, Control
  <2>5. request \in Packages /\ AtLine \in Nat /\ AtInner \in Nat /\ Top.pkg \in Packages /\ Depth \in {1, 2}
        /\ (Depth = 1 => Top = stack[1]) /\ (Depth = 2 => Top = stack[2])
    BY <1>1, <1>2, Position
  <2>6. Nested'
    BY <1>1, <2>1, <2>2, <2>3, <2>4 DEF Nested
  <2>7. Lost'
    <3>1. ~(InScript' /\ g_package' = None)
      BY <1>1, <2>1, <2>2, <2>3, <2>4, <2>5, ScriptAssumption DEF InScript, In
    <3> QED
      BY <3>1 DEF Lost
  <2>8. Late'
    <3>1. CASE PowerLoss
      BY <1>3, <3>1 DEF Late
    <3>2. CASE Die
      <4>1. Depth = 2 => /\ AtLine \in DOMAIN Content[request] /\ Content[request][AtLine].op = "install_zip"
                         /\ Top.pkg = Content[request][AtLine].arg
        <5>1. Depth = 2 => /\ AtLine \in 1..Lines(request) /\ Calls(request, AtLine)
                           /\ Top.pkg = Callee(request, AtLine)
          BY <1>1, <1>2, <2>5, Position DEF Nested
        <5> QED
          BY <2>5, <5>1, ScriptAssumption DEF Calls, Callee, Lines
      <4>2. CASE In({"empty"})
        <5>1. Kind[Top.pkg] = "empty"
          BY <4>2 DEF In
        <5>2. Deadly(request)
          BY <1>2, <2>5, <4>1, <5>1 DEF Deadly, Nested
        <5> QED
          BY <1>1, <5>2 DEF Late
      <4>3. CASE ~In({"empty"})
        <5>1. InScript /\ ~AtEnd /\ Cmd.op \in ReadsPackage /\ g_package = None
          BY <3>2, <4>3 DEF Die, At
        <5>2. Kind[Top.pkg] # "extended"
          <6>1. CASE Depth = 1
            BY <1>2, <2>1, <2>5, <6>1 DEF Nested
          <6>2. CASE Depth = 2
            <7>1. AtLine \in 1..Lines(request) /\ Calls(request, AtLine) /\ Top.pkg = Callee(request, AtLine)
              BY <1>1, <1>2, <2>5, <6>2, Position DEF Nested
            <7> QED
              BY <2>5, <7>1, CalleeTyped
          <6> QED
            BY <2>5, <6>1, <6>2
        <5>3. Depth = 1 /\ \E j \in DOMAIN Content[request] : j < Top.at /\ Content[request][j].op = "install_zip"
          BY <1>2, <5>1, <5>2 DEF Lost
        <5>4. Top.pkg = request /\ Top.at \in DOMAIN Content[request]
          <6>1. Top.at \in DOMAIN Content[Top.pkg]
            BY <1>2, <5>1, CommandLine
          <6> QED
            BY <1>2, <2>5, <5>3, <6>1 DEF Nested
        <5>5. Content[request][Top.at].op \in ReadsPackage
          BY <5>1, <5>4 DEF Cmd
        <5>6. PICK j \in DOMAIN Content[request] : j < Top.at /\ Content[request][j].op = "install_zip"
          BY <5>3
        <5>7. Top.at > j
          BY <2>5, <5>4, <5>6, ScriptAssumption
        <5>8. Deadly(request)
          BY <5>4, <5>5, <5>6, <5>7 DEF Deadly
        <5> QED
          BY <1>1, <5>8 DEF Late
      <4> QED
        BY <4>2, <4>3
    <3> QED
      BY <3>1, <3>2
  <2>9. Tracked'
    <3>1. CASE Pointless
      BY <1>1, <3>1 DEF Tracked, Pointless
    <3>2. CASE ~Pointless
      <4>1. PICK x, y \in Nat : Tracks(request, base, checked, ignored, vol, AtLine, AtInner, x, y)
        BY <1>2, <3>2 DEF Going, Tracked, Reached, Begun
      <4>2. Tracks(request, base, checked, ignored, vol, 1, 0, x, y)
        BY <1>2, <2>5, <4>1, TrackAgain
      <4>3. Reached(request, base, checked, ignored, vol, 1, 0, TRUE)
        BY <4>2 DEF Reached
      <4>4. Reached(request', base', checked', ignored', vol', AtLine', AtInner', Late')
        BY <1>1, <2>4, <2>8, <4>3 DEF Reached
      <4> QED
        BY <2>2, <4>4 DEF Tracked
    <3> QED
      BY <3>1, <3>2
  <2>10. Halfway'
    BY <2>2 DEF Halfway, Working
  <2>11. Going'
    BY <1>1, <1>2, <2>1, <2>6, <2>7, <2>9, <2>10 DEF Going
  <2> QED
    BY <1>1, <1>2, <1>3, <2>4, <2>11 DEF DoneInv, SuccessMeansDone, ErrorExplained
<1> QED
  BY <1>4, <1>5

\* A request is served, or the user turns the asserts on or off.
LEMMA RequestDone ==
  ASSUME ScriptInv, ScriptInv', DoneInv,
         ToggleAsserts \/ \E p \in Needs, o \in {"command", "extended", "menu"} : Start(o, p)
  PROVE  DoneInv'
<1>1. CASE ToggleAsserts
  <2>1. stack' = <<>> /\ UNCHANGED <<vol, outcome, request, base, checked, ignored, failed, losses>>
    BY <1>1 DEF ToggleAsserts, disk, asked, faults
  <2> QED
    BY <2>1 DEF DoneInv, Whole, SuccessMeansDone, ErrorExplained
<1>2. ASSUME NEW p \in Needs, NEW o \in {"command", "extended", "menu"}, Start(o, p) PROVE DoneInv'
  <2>1. /\ Opened(<<>>, p) /\ outcome' = "running" /\ request' = p /\ base' = vol /\ origin' = o /\ stack = <<>>
        /\ script_assert_enabled' = Asserts(o) /\ checked' = Asserts(o)
        /\ losses' = 0 /\ failed' = 0 /\ vol' = vol /\ todo' = todo
        /\ (o = "extended" <=> Kind[p] = "extended")
    BY <1>2 DEF Start, disk
  <2>2. p \in Packages /\ vol \in Vols /\ todo' = <<>> /\ Whole'
    BY <2>1, ScriptAssumption DEF ScriptInv, Disk, Busy, DoneInv, Whole, Vols
  <2>3. Asserts(o) \in BOOLEAN /\ (o = "command" => Asserts(o) = TRUE)
    BY DEF Asserts
  <2> DEFINE f == [pkg |-> p, at |-> 1]
  <2>4. f.pkg = p /\ f.at = 1 /\ stack' = <<f>>
    BY <2>1 DEF Opened
  <2>5. g_package' = IF Kind[p] = "script" THEN p ELSE g_package
    BY <2>1 DEF Opened
  <2> HIDE DEF f
  <2>6. Depth' = 1 /\ Top' = f /\ stack' # <<>> /\ AtLine' = 1 /\ AtInner' = 0
    BY <2>4 DEF Depth, Top, AtLine, AtInner
  <2>7. Nested'
    BY <2>1, <2>4, <2>6 DEF Nested
  <2>8. Lost'
    BY <2>2, <2>4, <2>5, <2>6, ScriptAssumption DEF Lost, InScript, In
  <2>9. Tracked'
    <3>1. Tracks(p, vol, checked', ignored', vol, 1, 0, 1, 0)
      BY <2>2, TrackFirst
    <3>2. Reached(p, vol, checked', ignored', vol, 1, 0, Late')
      BY <3>1 DEF Reached
    <3> QED
      BY <2>1, <2>2, <2>6, <3>2 DEF Tracked
  <2>10. Halfway'
    BY <2>2 DEF Halfway, Working
  <2>11. Going'
    BY <2>1, <2>2, <2>3, <2>7, <2>8, <2>9, <2>10 DEF Going
  <2> QED
    BY <2>1, <2>2, <2>11 DEF DoneInv, SuccessMeansDone, ErrorExplained
<1> QED
  BY <1>1, <1>2

\* The invariant holds at the start ...
LEMMA DoneInit == Init => DoneInv
<1> SUFFICES ASSUME Init PROVE DoneInv
  OBVIOUS
<1>1. stack = <<>> /\ outcome = "idle" /\ losses = 0 /\ failed = 0
  BY DEF Init
<1>2. Whole
  BY Apart DEF Init, Whole
<1> QED
  BY <1>1, <1>2 DEF DoneInv, SuccessMeansDone, ErrorExplained

\* ... and every step keeps it.
LEMMA DoneNext == ScriptInv /\ ScriptInv' /\ Unpacks /\ DoneInv /\ [Next]_vars => DoneInv'
<1> SUFFICES ASSUME ScriptInv, ScriptInv', Unpacks, DoneInv, [Next]_vars PROVE DoneInv'
  OBVIOUS
<1>1. CASE Step
  <2>1. FormatSome => Formatting \/ Emptying
    BY DEF FormatSome
  <2> QED
    BY <1>1, <2>1, PackageDone, CommandDone, FormatsDone, RestoresDone, WritesDone, RestartDone DEF Step
<1>2. CASE UNCHANGED vars
  <2>1. /\ UNCHANGED <<vol, stack, todo, unpacking, g_package, script_assert_enabled, outcome>>
        /\ UNCHANGED <<origin, request, base, checked, ignored, failed, losses>>
    BY <1>2 DEF vars, disk, ram, asked, faults
  <2>2. Depth' = Depth /\ Top' = Top /\ AtLine' = AtLine /\ AtInner' = AtInner /\ Cmd' = Cmd /\ Late' = Late
    BY <2>1 DEF Depth, Top, AtLine, AtInner, Cmd, Late
  <2>3. Nested' = Nested /\ Lost' = Lost /\ Halfway' = Halfway /\ Tracked' = Tracked
    BY <2>1, <2>2 DEF Nested, Lost, Halfway, Tracked, Pointless, Working, InScript, In, Root
  <2> QED
    BY <2>1, <2>3 DEF DoneInv, Going, Whole, SuccessMeansDone, ErrorExplained
<1> QED
  BY <1>1, <1>2, RequestDone, RestartDone DEF Next

\* INSTALL_SUCCESS means that the roots hold what the script says, whatever an attempt that
\* power was lost in, or recovery died in, had left of it.  Where cmd_format(), cmd_delete(),
\* cmd_restore_rom() or cmd_run_program() let a failure on a root pass in silence, the other
\* roots do, unless the script could have succeeded on no account.
THEOREM DoneOnSuccess == Spec => []SuccessMeansDone
<1>1. DoneInv => SuccessMeansDone
  BY DEF DoneInv
<1> QED
  BY <1>1, ScriptInit, ScriptNext, UnpacksInit, UnpacksNext, DoneInit, DoneNext, PTL DEF Spec

\* INSTALL_ERROR has a reason: the script cannot succeed, an operation failed, or a command
\* that is not made to be repeated met what an earlier attempt had left.
THEOREM ReasonForError == Spec => []ErrorExplained
<1>1. DoneInv => ErrorExplained
  BY DEF DoneInv
<1> QED
  BY <1>1, ScriptInit, ScriptNext, UnpacksInit, UnpacksNext, DoneInit, DoneNext, PTL DEF Spec
=============================================================================
