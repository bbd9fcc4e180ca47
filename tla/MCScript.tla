------------------------------ MODULE MCScript ------------------------------
(***************************************************************************)
(* Model-checking instance of Script: small packages and an                *)
(* extendedcommand script, which between them use every command.           *)
(***************************************************************************)
EXTENDS Script

CONSTANTS full, nest, again, inner, tools, outer, patch, wip, draft, broken, empty, ext, stray, back

C(op, arg, item) == [op |-> op, arg |-> arg, item |-> item]
On(op, root) == C(op, root, "old")

MCKind == [p \in Packages |->
  CASE p = inner -> "binary" [] p = broken -> "syntax" [] p = empty -> "empty"
    [] p \in {ext, stray} -> "extended" [] OTHER -> "script"]

MCContent == [p \in Packages |->
  CASE p = full  -> <<C("assert", TRUE, "old"), On("format", "SYSTEM"), On("copy_dir", "SYSTEM"),
                      On("symlink", "SYSTEM"), C("set_perm", "SYSTEM", full),
                      On("run_program", "SYSTEM"), On("write_raw_image", "BOOT")>>
    [] p = nest  -> <<C("delete", "DATA", "link"), C("install_zip", inner, "old"),
                      On("copy_dir", "DATA")>>
    [] p = again -> <<On("symlink", "CACHE"), C("install_zip", inner, "old"),
                      On("copy_dir", "DATA")>>
    [] p = tools -> <<On("run_tool", "SYSTEM"), On("run_program", "SYSTEM"),
                      On("file_contains", "SYSTEM"), On("write_firmware_image", "SYSTEM")>>
    [] p = outer -> <<C("assert", FALSE, "old"), On("copy_dir", "DATA"),
                      C("install_zip", patch, "old"), On("print", "SYSTEM")>>
    [] p = patch -> <<C("delete", "DATA", outer), On("run_program", "SYSTEM"),
                      On("copy_dir", "DATA"), On("symlink", "DATA")>>
    [] p = ext   -> <<On("backup_rom", "SYSTEM"), C("restore_rom", {"nosystem", "nosd-ext"}, "old"),
                      On("format", "DATA"), C("install_zip", patch, "old")>>
    [] p = wip   -> <<C("delete", "SYSTEM", "link"), On("set_perm", "DATADATA"), On("symlink", "DATA"),
                      C("file_contains", "CACHE", "link"), On("write_raw_image", "CACHE")>>
    [] p = draft -> <<C("restore_rom", Excluded, "old"), On("file_contains", "DATA"),
                      On("refused", "SYSTEM")>>
    [] p = back  -> <<C("restore_rom", {}, "old"), C("delete", "CACHE", "saved"),
                      C("file_contains", "DATADATA", "old"), On("symlink", "CACHE")>>
    [] p = stray -> <<C("install_zip", inner, "old"), On("copy_dir", "DATA")>>
    [] OTHER     -> <<>>]
=============================================================================
