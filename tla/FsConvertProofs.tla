-------------------------- MODULE FsConvertProofs --------------------------
(***************************************************************************)
(* Proofs for FsConvert: stages 6 and 7 of init.c, with the backup and the *)
(* restore of nandroid.c, for every set of file system types and every     *)
(* number of power losses and failing tools.                               *)
(***************************************************************************)
EXTENDS FsConvert, TLAPS

SubPcs == {"mount", "create", "format", "formatting", "set_type"}
Pcs == SubPcs \cup {"stage6", "stage6_type", "clear", "menu", "backup", "copy", "copying", "convert",
                    "restore", "unpack", "unpacking", "restored", "running"}
Callers == {"stage6", "stage6_type", "copy", "convert", "unpack"}
Kinds == Types \cup {None}

\* Mounting and formatting on behalf of c.
Sub(c) == pc \in SubPcs /\ caller = c

\* The loops over the volumes, each with what it calls.
MountLoop == pc \in {"stage6", "stage6_type"} \/ Sub("stage6_type")
BackupLoop == pc \in {"backup", "copy", "copying"} \/ Sub("copy")
ConvertLoop == pc = "convert" \/ Sub("convert")
RestoreLoop == pc \in {"restore", "unpack", "unpacking"} \/ Sub("unpack")

\* A loop is at the volume cur, or is done with the volume v.
Busy == pc \in SubPcs \cup {"stage6_type", "copy", "copying", "unpack", "unpacking"}
Done(v) == v \notin todo /\ ~(Busy /\ v = cur)

(***************************************************************************)
(* Inductive invariant of TypeOK and TypeNoted.                            *)
(***************************************************************************)
Typed ==
  /\ fs \in [Volumes -> Kinds] /\ conf \in [Volumes -> Kinds]
  /\ want \in [Volumes -> Kinds] /\ new \in [Volumes -> Kinds]
  /\ type \in [Volumes -> Kinds] /\ target \in Kinds /\ asked \in [Volumes -> Kinds]
  /\ content \in [Volumes -> {"user", "partial", "empty"}]
  /\ images \in [Volumes -> {"none", "user", "partial", "empty"}]
  /\ mounted \in [Volumes -> Kinds] /\ cur \in Volumes /\ todo \subseteq Volumes
  /\ pc \in Pcs /\ caller \in Callers
  /\ choice \in Choices \cup {"none"} /\ mishaps \in Nat
  /\ settings \in BOOLEAN /\ torn \subseteq Volumes

\* A mounted volume has a file system, and is not mounted while a loop has still to mount
\* or to format it; what is formatted has a type, and what is restored an image.
Placed ==
  /\ \A v \in Volumes : mounted[v] # None => fs[v] # None
  /\ pc \in SubPcs => caller # "stage6" /\ mounted[cur] = None
  /\ pc \in {"mount", "create"} => caller # "convert"
  /\ Busy => cur \notin todo
  /\ MountLoop => \A v \in todo : mounted[v] = None
  /\ pc \in {"format", "formatting", "set_type"} => target \in Types
  /\ ConvertLoop => todo \subseteq ToConvert
  /\ Sub("convert") => cur \in ToConvert /\ target = new[cur]
  /\ RestoreLoop => todo \subseteq ToRestore
  /\ Sub("unpack") \/ pc \in {"unpack", "unpacking"} => images[cur] # "none"

\* What the settings say of a volume is its type, or nothing, unless its format failed
\* or was cut off, or has not come to set_conf() yet; and it is mounted as they say.
Noted ==
  /\ \A v \in Volumes : mounted[v] # None =>
       /\ fs[v] \in MountsAs[mounted[v]]
       /\ settings => conf[v] = mounted[v]
       /\ mounted[v] = fs[v] \/ v \in torn
  /\ \A v \in Volumes :
       conf[v] \in {None, fs[v]} \/ v \in torn \/ (pc \in {"formatting", "set_type"} /\ v = cur)
  /\ ~settings => conf = Nothing
  /\ pc = "set_type" => fs[cur] = target \/ cur \in torn

TypeInv == Typed /\ Placed /\ Noted

(***************************************************************************)
(* A request is cleared before anything is done about it: there is one     *)
(* conversion only.                                                        *)
(***************************************************************************)
OnceInv ==
  /\ pc = "clear" => \A v \in Volumes \ todo : want[v] = None
  /\ pc \in {"menu", "restored", "running"} \/ BackupLoop \/ ConvertLoop \/ RestoreLoop
       => want = Nothing
  /\ MountLoop => new = Nothing
  /\ choice # "none" => want = Nothing /\ (pc = "clear" => new = Nothing)
  /\ pc = "menu" => choice = "none"
  /\ BackupLoop => choice \in {"full", "onlybackup", "rmbackup"}
  /\ ConvertLoop => choice \in {"full", "onlybackup", "rmbackup", "rmall"}
  /\ RestoreLoop \/ pc = "restored" => choice \in {"full", "rmbackup"}

(***************************************************************************)
(* Inductive invariant of DataKept.                                        *)
(***************************************************************************)
Own(v) == content[v] = "user" \/ v \in discarded
Safe(v) == v \in discarded \/ (md5 /\ images[v] = "user")
Unhurt == failed \cap {"mount", "format", "restore"} = {}

BackupInv ==
  BackupLoop =>
    /\ todo \subseteq ToConvert /\ (pc # "backup" => cur \in ToConvert)
    /\ \A v \in Volumes :
         /\ Own(v)
         /\ v \notin ToConvert => images[v] = "none"
         /\ v \in ToConvert /\ Done(v) => v \in discarded \/ images[v] = "user"

ConvertInv ==
  ConvertLoop \/ RestoreLoop \/ pc = "restored" =>
    \A v \in Volumes : IF v \in ToConvert THEN Safe(v) ELSE Own(v) /\ images[v] = "none"

RestoreInv ==
  Unhurt =>
    /\ ConvertLoop => \A v \in ToConvert : Done(v) => mounted[v] # None
    /\ Sub("convert") /\ pc = "set_type" => fs[cur] = target
    /\ ~Sub("unpack")
    /\ RestoreLoop => /\ \A v \in todo : mounted[v] # None
                      /\ pc = "unpack" => mounted[cur] # None
                      /\ \A v \in Volumes : Done(v) => Own(v)
    /\ pc = "restored" => \A v \in Volumes : Own(v)

EarlyInv ==
  /\ choice = "none" => \A v \in Volumes : Own(v) /\ images[v] = "none"
  /\ pc \in {"format", "formatting", "set_type"} /\ caller # "convert" => cur \in discarded

DataInv == EarlyInv /\ BackupInv /\ ConvertInv /\ RestoreInv /\ DataKept

(***************************************************************************)
(* Inductive invariant of Converted and MountedAgain: as long as nothing   *)
(* goes wrong.                                                             *)
(***************************************************************************)
Asked(v) == asked[v] \in {None, fs[v]}
Known(v) == mounted[v] # None /\ type[v] = fs[v]

CleanInv ==
  mishaps = 0 =>
    /\ torn = {}
    /\ \A v \in Volumes : fs[v] \in Types \/ (Sub("convert") /\ v = cur)
    /\ ~Sub("copy") /\ ~Sub("unpack") /\ (Sub("stage6_type") => pc = "mount")
    /\ MountLoop => /\ want \in {asked, Nothing}
                    /\ \A v \in Volumes : Done(v) => Known(v)
                    /\ pc = "stage6_type" => mounted[cur] # None
    /\ pc = "clear" => new \in {asked, Nothing}
    /\ pc \in {"clear", "menu"} => \A v \in Volumes : Known(v)
    /\ pc = "menu" \/ BackupLoop =>
         \A v \in {"cache", "data"} : new[v] = asked[v] \/ (new[v] = None /\ Asked(v))
    /\ BackupLoop => \A v \in Volumes :
         /\ type[v] = fs[v]
         /\ v \notin ToConvert \/ v \in todo \/ (pc = "copy" /\ v = cur) => mounted[v] # None
    /\ ConvertLoop =>
         /\ pc = "set_type" => fs[cur] = target
         /\ \A v \in Volumes \ ToConvert : mounted[v] # None
         /\ \A v \in ToConvert : Done(v) => mounted[v] # None /\ fs[v] = new[v]
         /\ \A v \in {"cache", "data"} : IF v \in ToConvert THEN new[v] = asked[v] ELSE Asked(v)
    /\ RestoreLoop \/ pc = "restored" => \A v \in Volumes \ ToConvert : mounted[v] # None
    /\ RestoreLoop => \A v \in todo : mounted[v] # None
    /\ RestoreLoop \/ pc = "restored" \/
         (choice \notin {"none", "cancel"} /\ (MountLoop \/ pc \in {"clear", "running"}))
         => Asked("cache") /\ Asked("data")
    /\ MountedAgain

\* A loop over the volumes takes one that is still to come.
LEMMA FirstIn ==
  ASSUME todo \subseteq Volumes, todo # {}
  PROVE  First(StageRank) \in todo /\ First(BackupRank) \in todo
<1>1. \E v \in todo : \A u \in todo : StageRank[v] <= StageRank[u]
  <2>1. CASE "cache" \in todo
    BY <2>1 DEF StageRank, Volumes
  <2>2. CASE "cache" \notin todo /\ "data" \in todo
    BY <2>2 DEF StageRank, Volumes
  <2>3. CASE "cache" \notin todo /\ "data" \notin todo
    BY <2>3 DEF StageRank, Volumes
  <2> QED
    BY <2>1, <2>2, <2>3
<1>2. \E v \in todo : \A u \in todo : BackupRank[v] <= BackupRank[u]
  <2>1. CASE "data" \in todo
    BY <2>1 DEF BackupRank, Volumes
  <2>2. CASE "data" \notin todo /\ "dbdata" \in todo
    BY <2>2 DEF BackupRank, Volumes
  <2>3. CASE "data" \notin todo /\ "dbdata" \notin todo
    BY <2>3 DEF BackupRank, Volumes
  <2> QED
    BY <2>1, <2>2, <2>3
<1> QED
  BY <1>1, <1>2 DEF First

\* Every step of the boot keeps the types.
LEMMA TypedNext == Typed /\ Placed /\ [Next]_vars => Typed'
<1> SUFFICES ASSUME Typed, Placed, [Next]_vars PROVE Typed'
  OBVIOUS
<1> USE DEF Typed, Goto, disk, ram, history, Pcs, SubPcs, Callers, Kinds
<1> USE TypesAssumption
<1>10. CASE Mount
  BY <1>10 DEF Mount, ConfMounts, Note, Mounts, KeepLoop, KeepHistory
<1>11. CASE MountFails
  BY <1>11 DEF MountFails, Fault, Note, Mounts, KeepLoop, KeepUser
<1>12. CASE MountUnknown
  BY <1>12 DEF MountUnknown
<1>13. CASE CreateNothing
  BY <1>13 DEF CreateNothing
<1>14. ASSUME NEW t \in Types, Create(t) PROVE Typed'
  BY <1>14 DEF Create, KeepLoop
<1>15. CASE FormatBegin
  BY <1>15, MountsAssumption DEF FormatBegin, Placed
<1>16. CASE FormatEnd
  BY <1>16 DEF FormatEnd
<1>17. CASE FormatFails
  BY <1>17 DEF FormatFails, Fault, KeepUser
<1>18. CASE SetType
  <2>1. mounted' \in [Volumes -> Kinds]
    <3>1. \E b \in Kinds : mounted' = [mounted EXCEPT ![cur] = b]
      BY <1>18 DEF SetType, MountedAs, Mounts, Placed
    <3> QED
      BY <3>1
  <2>2. UNCHANGED <<choice, asked, torn, settings>> /\ mishaps' \in Nat
    BY <1>18 DEF SetType, MountedAs, Note, Mounts, Fault, KeepUser, KeepHistory
  <2>3. UNCHANGED <<caller, cur, todo, target, type, new, fs, content, want, images>>
        /\ conf' \in [Volumes -> Kinds] /\ pc' = caller
    BY <1>18 DEF SetType, Note, KeepLoop, Placed
  <2> QED
    BY <2>1, <2>2, <2>3
<1>19. CASE Stage6
  BY <1>19, FirstIn DEF Stage6, Take
<1>20. CASE Stage6Type
  BY <1>20 DEF Stage6Type, KeepLoop
<1>21. CASE ReadRequests
  BY <1>21 DEF ReadRequests
<1>22. CASE ClearRequest
  BY <1>22, FirstIn DEF ClearRequest, Take
<1>23. CASE DropRequests
  BY <1>23 DEF DropRequests
<1>24. ASSUME NEW c \in Choices, Choose(c) PROVE Typed'
  BY <1>24 DEF Choose, Choices, ToConvert
<1>25. CASE Backup
  BY <1>25, FirstIn DEF Backup, Take, EnsureMountedThen
<1>26. CASE CopyBegin
  BY <1>26 DEF CopyBegin
<1>27. CASE CopyEnd
  BY <1>27 DEF CopyEnd, Unmount, KeepLoop
<1>28. CASE BackupFails
  <2>1. mounted' \in [Volumes -> Kinds]
    <3>1. mounted' = mounted \/ \E b \in Kinds : mounted' = [mounted EXCEPT ![cur] = b]
      BY <1>28 DEF BackupFails, Unmount
    <3> QED
      BY <3>1
  <2> QED
    BY <1>28, <2>1 DEF BackupFails, Fault, KeepLoop, KeepUser
<1>29. CASE BackupDone
  BY <1>29 DEF BackupDone, ToConvert
<1>30. CASE Convert
  BY <1>30, FirstIn DEF Convert, Take
<1>31. CASE ConvertDone
  BY <1>31 DEF ConvertDone, ToRestore
<1>32. CASE Restore
  BY <1>32, FirstIn DEF Restore, Take, EnsureMountedThen
<1>33. CASE UnpackBegin
  BY <1>33, MountsAssumption DEF UnpackBegin, Placed
<1>34. CASE UnpackEnd
  BY <1>34 DEF UnpackEnd, Mounts, KeepLoop, Placed
<1>35. CASE RestoreFails
  BY <1>35 DEF RestoreFails, Fault, KeepUser
<1>36. CASE RestoreDone
  BY <1>36 DEF RestoreDone
<1>37. CASE RemoveBackup
  BY <1>37 DEF RemoveBackup
<1>38. CASE Boot
  <2>1. torn' \subseteq Volumes /\ mishaps' \in Nat /\ UNCHANGED <<choice, asked>>
    BY <1>38 DEF Boot, Fault, KeepUser, KeepHistory
  <2> QED
    BY <1>38, <2>1 DEF Boot, Nothing, Volumes
<1>39. CASE UNCHANGED vars
  BY <1>39 DEF vars
<1> QED
  BY <1>10, <1>11, <1>12, <1>13, <1>14, <1>15, <1>16, <1>17, <1>18, <1>19, <1>20, <1>21, <1>22,
      <1>23, <1>24, <1>25, <1>26, <1>27, <1>28, <1>29, <1>30, <1>31, <1>32, <1>33, <1>34, <1>35,
      <1>36, <1>37, <1>38, <1>39
     DEF Next, Mounting, Formatting, Stages, BackingUp, Converting, Restoring

\* The loops keep to their volumes, and what is mounted has a file system.
LEMMA PlacedNext == Typed /\ Placed /\ [Next]_vars => Placed'
<1> SUFFICES ASSUME Typed, Placed, [Next]_vars PROVE Placed'
  OBVIOUS
<1> USE DEF Typed, Placed, Goto, disk, ram, history, SubPcs, Kinds, MountLoop, ConvertLoop,
    RestoreLoop, Sub, Busy,
            ToConvert, ToRestore
<1> USE TypesAssumption, MountsAssumption
<1>10. CASE Mount
  <2>1. caller \in {"stage6_type", "copy", "convert", "unpack"}
    BY <1>10 DEF Mount, Callers
  <2>2. CASE caller = "stage6_type"
    BY <1>10, <2>2 DEF Mount, ConfMounts, Note, Mounts, KeepLoop, KeepHistory
  <2>3. CASE caller = "copy"
    BY <1>10, <2>3 DEF Mount, ConfMounts, Note, Mounts, KeepLoop, KeepHistory
  <2>4. CASE caller = "convert"
    BY <1>10, <2>4 DEF Mount, ConfMounts, Note, Mounts, KeepLoop, KeepHistory
  <2>5. CASE caller = "unpack"
    BY <1>10, <2>5 DEF Mount, ConfMounts, Note, Mounts, KeepLoop, KeepHistory
  <2> QED
    BY <2>1, <2>2, <2>3, <2>4, <2>5
<1>11. CASE MountFails
  <2>1. caller \in {"stage6_type", "copy", "convert", "unpack"}
    BY <1>11 DEF MountFails, Callers
  <2>2. CASE caller = "stage6_type"
    BY <1>11, <2>2 DEF MountFails, Fault, Note, Mounts, KeepLoop, KeepUser
  <2>3. CASE caller = "copy"
    BY <1>11, <2>3 DEF MountFails, Fault, Note, Mounts, KeepLoop, KeepUser
  <2>4. CASE caller = "convert"
    BY <1>11, <2>4 DEF MountFails, Fault, Note, Mounts, KeepLoop, KeepUser
  <2>5. CASE caller = "unpack"
    BY <1>11, <2>5 DEF MountFails, Fault, Note, Mounts, KeepLoop, KeepUser
  <2> QED
    BY <2>1, <2>2, <2>3, <2>4, <2>5
<1>12. CASE MountUnknown
  BY <1>12 DEF MountUnknown
<1>13. CASE CreateNothing
  <2>1. caller \in {"stage6_type", "copy", "convert", "unpack"}
    BY <1>13 DEF CreateNothing, Callers
  <2>2. CASE caller = "stage6_type"
    BY <1>13, <2>2 DEF CreateNothing
  <2>3. CASE caller = "copy"
    BY <1>13, <2>3 DEF CreateNothing
  <2>4. CASE caller = "convert"
    BY <1>13, <2>4 DEF CreateNothing
  <2>5. CASE caller = "unpack"
    BY <1>13, <2>5 DEF CreateNothing
  <2> QED
    BY <2>1, <2>2, <2>3, <2>4, <2>5
<1>14. ASSUME NEW t \in Types, Create(t) PROVE Placed'
  BY <1>14 DEF Create, KeepLoop
<1>15. CASE FormatBegin
  BY <1>15 DEF FormatBegin
<1>16. CASE FormatEnd
  BY <1>16 DEF FormatEnd
<1>17. CASE FormatFails
  BY <1>17 DEF FormatFails, Fault, KeepUser
<1>18. CASE SetType
  <2>1. caller \in {"stage6_type", "copy", "convert", "unpack"}
    BY <1>18 DEF SetType, Callers
  <2>2. CASE caller = "stage6_type"
    BY <1>18, <2>2 DEF SetType, MountedAs, Note, Mounts, Fault, KeepLoop, KeepUser, KeepHistory
  <2>3. CASE caller = "copy"
    BY <1>18, <2>3 DEF SetType, MountedAs, Note, Mounts, Fault, KeepLoop, KeepUser, KeepHistory
  <2>4. CASE caller = "convert"
    BY <1>18, <2>4 DEF SetType, MountedAs, Note, Mounts, Fault, KeepLoop, KeepUser, KeepHistory
  <2>5. CASE caller = "unpack"
    BY <1>18, <2>5 DEF SetType, MountedAs, Note, Mounts, Fault, KeepLoop, KeepUser, KeepHistory
  <2> QED
    BY <2>1, <2>2, <2>3, <2>4, <2>5
<1>19. CASE Stage6
  BY <1>19, FirstIn DEF Stage6, Take
<1>20. CASE Stage6Type
  BY <1>20 DEF Stage6Type, KeepLoop
<1>21. CASE ReadRequests
  BY <1>21 DEF ReadRequests
<1>22. CASE ClearRequest
  BY <1>22, FirstIn DEF ClearRequest, Take
<1>23. CASE DropRequests
  BY <1>23 DEF DropRequests
<1>24. ASSUME NEW c \in Choices, Choose(c) PROVE Placed'
  BY <1>24 DEF Choose
<1>25. CASE Backup
  BY <1>25, FirstIn DEF Backup, Take, EnsureMountedThen
<1>26. CASE CopyBegin
  BY <1>26 DEF CopyBegin
<1>27. CASE CopyEnd
  BY <1>27 DEF CopyEnd, Unmount, KeepLoop
<1>28. CASE BackupFails
  BY <1>28 DEF BackupFails, Unmount, Fault, KeepLoop, KeepUser
<1>29. CASE BackupDone
  BY <1>29 DEF BackupDone
<1>30. CASE Convert
  BY <1>30, FirstIn DEF Convert, Take
<1>31. CASE ConvertDone
  BY <1>31 DEF ConvertDone
<1>32. CASE Restore
  BY <1>32, FirstIn DEF Restore, Take, EnsureMountedThen
<1>33. CASE UnpackBegin
  BY <1>33 DEF UnpackBegin
<1>34. CASE UnpackEnd
  BY <1>34 DEF UnpackEnd, Mounts, KeepLoop
<1>35. CASE RestoreFails
  BY <1>35 DEF RestoreFails, Fault, KeepUser
<1>36. CASE RestoreDone
  BY <1>36 DEF RestoreDone
<1>37. CASE RemoveBackup
  BY <1>37 DEF RemoveBackup
<1>38. CASE Boot
  BY <1>38 DEF Boot, Fault, KeepUser, KeepHistory, Nothing, Volumes
<1>39. CASE UNCHANGED vars
  BY <1>39 DEF vars
<1> QED
  BY <1>10, <1>11, <1>12, <1>13, <1>14, <1>15, <1>16, <1>17, <1>18, <1>19, <1>20, <1>21, <1>22,
      <1>23, <1>24, <1>25, <1>26, <1>27, <1>28, <1>29, <1>30, <1>31, <1>32, <1>33, <1>34, <1>35,
      <1>36, <1>37, <1>38, <1>39
     DEF Next, Mounting, Formatting, Stages, BackingUp, Converting, Restoring

\* The settings are only wrong about a volume whose format did not get to set_conf().
LEMMA NotedNext == Typed /\ Placed /\ Noted /\ [Next]_vars => Noted'
<1> SUFFICES ASSUME Typed, Placed, Noted, [Next]_vars PROVE Noted'
  OBVIOUS
<1> USE DEF Typed, Placed, Noted, Goto, disk, ram, history, SubPcs, Kinds, Callers
<1> USE TypesAssumption, MountsAssumption
<1>10. CASE Mount
  BY <1>10 DEF Mount, ConfMounts, Note, Mounts, KeepLoop, KeepHistory
<1>11. CASE MountFails
  BY <1>11 DEF MountFails, Fault, Note, Mounts, KeepLoop, KeepUser
<1>12. CASE MountUnknown
  BY <1>12 DEF MountUnknown
<1>13. CASE CreateNothing
  BY <1>13 DEF CreateNothing
<1>14. ASSUME NEW t \in Types, Create(t) PROVE Noted'
  BY <1>14 DEF Create, KeepLoop
<1>15. CASE FormatBegin
  BY <1>15 DEF FormatBegin
<1>16. CASE FormatEnd
  BY <1>16 DEF FormatEnd
<1>17. CASE FormatFails
  BY <1>17 DEF FormatFails, Fault, KeepUser
<1>18. CASE SetType
  <2>1. /\ pc = "set_type" /\ target \in Types /\ mounted[cur] = None /\ pc' \notin {"formatting", "set_type"}
        /\ UNCHANGED <<fs, cur, target, settings, torn>> /\ Note(target)
    BY <1>18 DEF SetType, Fault, KeepLoop, KeepUser, KeepHistory
  <2>2. \A v \in Volumes : conf'[v] = IF settings /\ v = cur THEN target ELSE conf[v]
    BY <2>1 DEF Note
  <2>3. \A v \in Volumes \ {cur} : mounted'[v] = mounted[v]
    BY <1>18 DEF SetType, Mounts
  <2>4. mounted'[cur] # None => mounted'[cur] = target /\ fs[cur] \in MountsAs[target]
    BY <1>18 DEF SetType, Mounts, MountedAs
  <2>5. ~settings => conf' = Nothing
    BY <2>1 DEF Note
  <2>6. fs[cur] = target \/ cur \in torn
    BY <2>1
  <2>7. \A v \in Volumes : conf'[v] \in {None, fs[v]} \/ v \in torn
    <3>1. ~settings => \A v \in Volumes : conf'[v] = None
      BY <2>5 DEF Nothing
    <3> QED
      BY <2>1, <2>2, <2>6, <3>1
  <2> QED
    BY <2>1, <2>2, <2>3, <2>4, <2>5, <2>6, <2>7
<1>19. CASE Stage6
  BY <1>19, FirstIn DEF Stage6, Take
<1>20. CASE Stage6Type
  BY <1>20 DEF Stage6Type, KeepLoop
<1>21. CASE ReadRequests
  BY <1>21 DEF ReadRequests
<1>22. CASE ClearRequest
  BY <1>22, FirstIn DEF ClearRequest, Take
<1>23. CASE DropRequests
  BY <1>23 DEF DropRequests
<1>24. ASSUME NEW c \in Choices, Choose(c) PROVE Noted'
  BY <1>24 DEF Choose
<1>25. CASE Backup
  BY <1>25, FirstIn DEF Backup, Take, EnsureMountedThen
<1>26. CASE CopyBegin
  BY <1>26 DEF CopyBegin
<1>27. CASE CopyEnd
  BY <1>27 DEF CopyEnd, Unmount, KeepLoop
<1>28. CASE BackupFails
  BY <1>28 DEF BackupFails, Unmount, Fault, KeepLoop, KeepUser
<1>29. CASE BackupDone
  BY <1>29 DEF BackupDone
<1>30. CASE Convert
  BY <1>30, FirstIn DEF Convert, Take
<1>31. CASE ConvertDone
  BY <1>31 DEF ConvertDone
<1>32. CASE Restore
  BY <1>32, FirstIn DEF Restore, Take, EnsureMountedThen
<1>33. CASE UnpackBegin
  BY <1>33 DEF UnpackBegin
<1>34. CASE UnpackEnd
  BY <1>34 DEF UnpackEnd, Mounts, KeepLoop
<1>35. CASE RestoreFails
  BY <1>35 DEF RestoreFails, Fault, KeepUser
<1>36. CASE RestoreDone
  BY <1>36 DEF RestoreDone
<1>37. CASE RemoveBackup
  BY <1>37 DEF RemoveBackup
<1>38. CASE Boot
  BY <1>38 DEF Boot, Fault, KeepUser, KeepHistory, Nothing, Volumes
<1>39. CASE UNCHANGED vars
  BY <1>39 DEF vars
<1> QED
  BY <1>10, <1>11, <1>12, <1>13, <1>14, <1>15, <1>16, <1>17, <1>18, <1>19, <1>20, <1>21, <1>22,
      <1>23, <1>24, <1>25, <1>26, <1>27, <1>28, <1>29, <1>30, <1>31, <1>32, <1>33, <1>34, <1>35,
      <1>36, <1>37, <1>38, <1>39
     DEF Next, Mounting, Formatting, Stages, BackingUp, Converting, Restoring

\* The requests are cleared before the menu, so that there is one conversion only.
LEMMA OnceNext == Typed /\ Placed /\ OnceInv /\ [Next]_vars => OnceInv'
<1> SUFFICES ASSUME Typed, Placed, OnceInv, [Next]_vars PROVE OnceInv'
  OBVIOUS
<1> USE DEF Typed, Placed, OnceInv, Goto, disk, ram, history, SubPcs, Callers, MountLoop,
    BackupLoop, ConvertLoop, RestoreLoop, Sub
<1>10. CASE Mount
  <2>1. caller \in {"stage6_type", "copy", "convert", "unpack"}
    BY <1>10 DEF Mount, Callers
  <2>2. CASE caller = "stage6_type"
    BY <1>10, <2>2 DEF Mount, ConfMounts, Note, Mounts, KeepLoop, KeepHistory
  <2>3. CASE caller = "copy"
    BY <1>10, <2>3 DEF Mount, ConfMounts, Note, Mounts, KeepLoop, KeepHistory
  <2>4. CASE caller = "convert"
    BY <1>10, <2>4 DEF Mount, ConfMounts, Note, Mounts, KeepLoop, KeepHistory
  <2>5. CASE caller = "unpack"
    BY <1>10, <2>5 DEF Mount, ConfMounts, Note, Mounts, KeepLoop, KeepHistory
  <2> QED
    BY <2>1, <2>2, <2>3, <2>4, <2>5
<1>11. CASE MountFails
  <2>1. caller \in {"stage6_type", "copy", "convert", "unpack"}
    BY <1>11 DEF MountFails, Callers
  <2>2. CASE caller = "stage6_type"
    BY <1>11, <2>2 DEF MountFails, Fault, Note, Mounts, KeepLoop, KeepUser
  <2>3. CASE caller = "copy"
    BY <1>11, <2>3 DEF MountFails, Fault, Note, Mounts, KeepLoop, KeepUser
  <2>4. CASE caller = "convert"
    BY <1>11, <2>4 DEF MountFails, Fault, Note, Mounts, KeepLoop, KeepUser
  <2>5. CASE caller = "unpack"
    BY <1>11, <2>5 DEF MountFails, Fault, Note, Mounts, KeepLoop, KeepUser
  <2> QED
    BY <2>1, <2>2, <2>3, <2>4, <2>5
<1>12. CASE MountUnknown
  BY <1>12 DEF MountUnknown
<1>13. CASE CreateNothing
  <2>1. caller \in {"stage6_type", "copy", "convert", "unpack"}
    BY <1>13 DEF CreateNothing, Callers
  <2>2. CASE caller = "stage6_type"
    BY <1>13, <2>2 DEF CreateNothing
  <2>3. CASE caller = "copy"
    BY <1>13, <2>3 DEF CreateNothing
  <2>4. CASE caller = "convert"
    BY <1>13, <2>4 DEF CreateNothing
  <2>5. CASE caller = "unpack"
    BY <1>13, <2>5 DEF CreateNothing
  <2> QED
    BY <2>1, <2>2, <2>3, <2>4, <2>5
<1>14. ASSUME NEW t \in Types, Create(t) PROVE OnceInv'
  BY <1>14 DEF Create, KeepLoop
<1>15. CASE FormatBegin
  BY <1>15 DEF FormatBegin
<1>16. CASE FormatEnd
  BY <1>16 DEF FormatEnd
<1>17. CASE FormatFails
  BY <1>17 DEF FormatFails, Fault, KeepUser
<1>18. CASE SetType
  <2>1. caller \in {"stage6_type", "copy", "convert", "unpack"}
    BY <1>18 DEF SetType, Callers
  <2>2. CASE caller = "stage6_type"
    BY <1>18, <2>2 DEF SetType, MountedAs, Note, Mounts, Fault, KeepLoop, KeepUser, KeepHistory
  <2>3. CASE caller = "copy"
    BY <1>18, <2>3 DEF SetType, MountedAs, Note, Mounts, Fault, KeepLoop, KeepUser, KeepHistory
  <2>4. CASE caller = "convert"
    BY <1>18, <2>4 DEF SetType, MountedAs, Note, Mounts, Fault, KeepLoop, KeepUser, KeepHistory
  <2>5. CASE caller = "unpack"
    BY <1>18, <2>5 DEF SetType, MountedAs, Note, Mounts, Fault, KeepLoop, KeepUser, KeepHistory
  <2> QED
    BY <2>1, <2>2, <2>3, <2>4, <2>5
<1>19. CASE Stage6
  BY <1>19, FirstIn DEF Stage6, Take
<1>20. CASE Stage6Type
  BY <1>20 DEF Stage6Type, KeepLoop
<1>21. CASE ReadRequests
  BY <1>21 DEF ReadRequests
<1>22. CASE ClearRequest
  BY <1>22, FirstIn DEF ClearRequest, Take, Nothing
<1>23. CASE DropRequests
  BY <1>23 DEF DropRequests, Nothing
<1>24. ASSUME NEW c \in Choices, Choose(c) PROVE OnceInv'
  BY <1>24 DEF Choose, Choices
<1>25. CASE Backup
  BY <1>25, FirstIn DEF Backup, Take, EnsureMountedThen
<1>26. CASE CopyBegin
  BY <1>26 DEF CopyBegin
<1>27. CASE CopyEnd
  BY <1>27 DEF CopyEnd, Unmount, KeepLoop
<1>28. CASE BackupFails
  BY <1>28 DEF BackupFails, Unmount, Fault, KeepLoop, KeepUser
<1>29. CASE BackupDone
  BY <1>29 DEF BackupDone
<1>30. CASE Convert
  BY <1>30, FirstIn DEF Convert, Take
<1>31. CASE ConvertDone
  BY <1>31 DEF ConvertDone
<1>32. CASE Restore
  BY <1>32, FirstIn DEF Restore, Take, EnsureMountedThen
<1>33. CASE UnpackBegin
  BY <1>33 DEF UnpackBegin
<1>34. CASE UnpackEnd
  BY <1>34 DEF UnpackEnd, Mounts, KeepLoop
<1>35. CASE RestoreFails
  BY <1>35 DEF RestoreFails, Fault, KeepUser
<1>36. CASE RestoreDone
  BY <1>36 DEF RestoreDone
<1>37. CASE RemoveBackup
  BY <1>37 DEF RemoveBackup
<1>38. CASE Boot
  BY <1>38 DEF Boot, Fault, KeepUser, KeepHistory, Nothing, Volumes
<1>39. CASE UNCHANGED vars
  BY <1>39 DEF vars
<1> QED
  BY <1>10, <1>11, <1>12, <1>13, <1>14, <1>15, <1>16, <1>17, <1>18, <1>19, <1>20, <1>21, <1>22,
      <1>23, <1>24, <1>25, <1>26, <1>27, <1>28, <1>29, <1>30, <1>31, <1>32, <1>33, <1>34, <1>35,
      <1>36, <1>37, <1>38, <1>39
     DEF Next, Mounting, Formatting, Stages, BackingUp, Converting, Restoring

\* Before the menu no backup is there, and only what the user gave up is lost.
LEMMA EarlyNext == Typed /\ Placed /\ OnceInv /\ EarlyInv /\ [Next]_vars => EarlyInv'
<1> SUFFICES ASSUME Typed, Placed, OnceInv, EarlyInv, [Next]_vars PROVE EarlyInv'
  OBVIOUS
<1> USE DEF Typed, Placed, OnceInv, Goto, disk, ram, history, SubPcs, Callers, MountLoop,
    BackupLoop, ConvertLoop, RestoreLoop, Sub, EarlyInv, Own
<1>10. CASE Mount
  <2>1. caller \in {"stage6_type", "copy", "convert", "unpack"}
    BY <1>10 DEF Mount, Callers
  <2>2. CASE caller = "stage6_type"
    BY <1>10, <2>2 DEF Mount, ConfMounts, Note, Mounts, KeepLoop, KeepHistory
  <2>3. CASE caller = "copy"
    BY <1>10, <2>3 DEF Mount, ConfMounts, Note, Mounts, KeepLoop, KeepHistory
  <2>4. CASE caller = "convert"
    BY <1>10, <2>4 DEF Mount, ConfMounts, Note, Mounts, KeepLoop, KeepHistory
  <2>5. CASE caller = "unpack"
    BY <1>10, <2>5 DEF Mount, ConfMounts, Note, Mounts, KeepLoop, KeepHistory
  <2> QED
    BY <2>1, <2>2, <2>3, <2>4, <2>5
<1>11. CASE MountFails
  <2>1. caller \in {"stage6_type", "copy", "convert", "unpack"}
    BY <1>11 DEF MountFails, Callers
  <2>2. CASE caller = "stage6_type"
    BY <1>11, <2>2 DEF MountFails, Fault, Note, Mounts, KeepLoop, KeepUser
  <2>3. CASE caller = "copy"
    BY <1>11, <2>3 DEF MountFails, Fault, Note, Mounts, KeepLoop, KeepUser
  <2>4. CASE caller = "convert"
    BY <1>11, <2>4 DEF MountFails, Fault, Note, Mounts, KeepLoop, KeepUser
  <2>5. CASE caller = "unpack"
    BY <1>11, <2>5 DEF MountFails, Fault, Note, Mounts, KeepLoop, KeepUser
  <2> QED
    BY <2>1, <2>2, <2>3, <2>4, <2>5
<1>12. CASE MountUnknown
  BY <1>12 DEF MountUnknown
<1>13. CASE CreateNothing
  <2>1. caller \in {"stage6_type", "copy", "convert", "unpack"}
    BY <1>13 DEF CreateNothing, Callers
  <2>2. CASE caller = "stage6_type"
    BY <1>13, <2>2 DEF CreateNothing
  <2>3. CASE caller = "copy"
    BY <1>13, <2>3 DEF CreateNothing
  <2>4. CASE caller = "convert"
    BY <1>13, <2>4 DEF CreateNothing
  <2>5. CASE caller = "unpack"
    BY <1>13, <2>5 DEF CreateNothing
  <2> QED
    BY <2>1, <2>2, <2>3, <2>4, <2>5
<1>14. ASSUME NEW t \in Types, Create(t) PROVE EarlyInv'
  BY <1>14 DEF Create, KeepLoop
<1>15. CASE FormatBegin
  BY <1>15 DEF FormatBegin
<1>16. CASE FormatEnd
  BY <1>16 DEF FormatEnd
<1>17. CASE FormatFails
  BY <1>17 DEF FormatFails, Fault, KeepUser
<1>18. CASE SetType
  <2>1. caller \in {"stage6_type", "copy", "convert", "unpack"}
    BY <1>18 DEF SetType, Callers
  <2>2. CASE caller = "stage6_type"
    BY <1>18, <2>2 DEF SetType, MountedAs, Note, Mounts, Fault, KeepLoop, KeepUser, KeepHistory
  <2>3. CASE caller = "copy"
    BY <1>18, <2>3 DEF SetType, MountedAs, Note, Mounts, Fault, KeepLoop, KeepUser, KeepHistory
  <2>4. CASE caller = "convert"
    BY <1>18, <2>4 DEF SetType, MountedAs, Note, Mounts, Fault, KeepLoop, KeepUser, KeepHistory
  <2>5. CASE caller = "unpack"
    BY <1>18, <2>5 DEF SetType, MountedAs, Note, Mounts, Fault, KeepLoop, KeepUser, KeepHistory
  <2> QED
    BY <2>1, <2>2, <2>3, <2>4, <2>5
<1>19. CASE Stage6
  BY <1>19, FirstIn DEF Stage6, Take
<1>20. CASE Stage6Type
  BY <1>20 DEF Stage6Type, KeepLoop
<1>21. CASE ReadRequests
  BY <1>21 DEF ReadRequests
<1>22. CASE ClearRequest
  BY <1>22, FirstIn DEF ClearRequest, Take
<1>23. CASE DropRequests
  BY <1>23 DEF DropRequests
<1>24. ASSUME NEW c \in Choices, Choose(c) PROVE EarlyInv'
  BY <1>24 DEF Choose, Choices
<1>25. CASE Backup
  BY <1>25, FirstIn DEF Backup, Take, EnsureMountedThen
<1>26. CASE CopyBegin
  BY <1>26 DEF CopyBegin
<1>27. CASE CopyEnd
  BY <1>27 DEF CopyEnd, Unmount, KeepLoop
<1>28. CASE BackupFails
  BY <1>28 DEF BackupFails, Unmount, Fault, KeepLoop, KeepUser
<1>29. CASE BackupDone
  BY <1>29 DEF BackupDone
<1>30. CASE Convert
  BY <1>30, FirstIn DEF Convert, Take
<1>31. CASE ConvertDone
  BY <1>31 DEF ConvertDone
<1>32. CASE Restore
  BY <1>32, FirstIn DEF Restore, Take, EnsureMountedThen
<1>33. CASE UnpackBegin
  BY <1>33 DEF UnpackBegin
<1>34. CASE UnpackEnd
  BY <1>34 DEF UnpackEnd, Mounts, KeepLoop
<1>35. CASE RestoreFails
  BY <1>35 DEF RestoreFails, Fault, KeepUser
<1>36. CASE RestoreDone
  BY <1>36 DEF RestoreDone
<1>37. CASE RemoveBackup
  BY <1>37 DEF RemoveBackup
<1>38. CASE Boot
  BY <1>38 DEF Boot, Fault, KeepUser, KeepHistory
<1>39. CASE UNCHANGED vars
  BY <1>39 DEF vars
<1> QED
  BY <1>10, <1>11, <1>12, <1>13, <1>14, <1>15, <1>16, <1>17, <1>18, <1>19, <1>20, <1>21, <1>22,
      <1>23, <1>24, <1>25, <1>26, <1>27, <1>28, <1>29, <1>30, <1>31, <1>32, <1>33, <1>34, <1>35,
      <1>36, <1>37, <1>38, <1>39
     DEF Next, Mounting, Formatting, Stages, BackingUp, Converting, Restoring

\* nandroid_backup_flags() goes through the volumes to convert, and changes none.
LEMMA BackupNext == Typed /\ Placed /\ OnceInv /\ EarlyInv /\ BackupInv /\ [Next]_vars => BackupInv'
<1> SUFFICES ASSUME Typed, Placed, OnceInv, EarlyInv, BackupInv, [Next]_vars PROVE BackupInv'
  OBVIOUS
<1> USE DEF Typed, Placed, OnceInv, Goto, disk, ram, history, SubPcs, Callers, MountLoop,
    BackupLoop, ConvertLoop, RestoreLoop, Sub, EarlyInv, BackupInv, Own, Done, Busy, ToConvert
<1>10. CASE Mount
  <2>1. caller \in {"stage6_type", "copy", "convert", "unpack"}
    BY <1>10 DEF Mount, Callers
  <2>2. CASE caller = "stage6_type"
    BY <1>10, <2>2 DEF Mount, ConfMounts, Note, Mounts, KeepLoop, KeepHistory
  <2>3. CASE caller = "copy"
    BY <1>10, <2>3 DEF Mount, ConfMounts, Note, Mounts, KeepLoop, KeepHistory
  <2>4. CASE caller = "convert"
    BY <1>10, <2>4 DEF Mount, ConfMounts, Note, Mounts, KeepLoop, KeepHistory
  <2>5. CASE caller = "unpack"
    BY <1>10, <2>5 DEF Mount, ConfMounts, Note, Mounts, KeepLoop, KeepHistory
  <2> QED
    BY <2>1, <2>2, <2>3, <2>4, <2>5
<1>11. CASE MountFails
  <2>1. caller \in {"stage6_type", "copy", "convert", "unpack"}
    BY <1>11 DEF MountFails, Callers
  <2>2. CASE caller = "stage6_type"
    BY <1>11, <2>2 DEF MountFails, Fault, Note, Mounts, KeepLoop, KeepUser
  <2>3. CASE caller = "copy"
    BY <1>11, <2>3 DEF MountFails, Fault, Note, Mounts, KeepLoop, KeepUser
  <2>4. CASE caller = "convert"
    BY <1>11, <2>4 DEF MountFails, Fault, Note, Mounts, KeepLoop, KeepUser
  <2>5. CASE caller = "unpack"
    BY <1>11, <2>5 DEF MountFails, Fault, Note, Mounts, KeepLoop, KeepUser
  <2> QED
    BY <2>1, <2>2, <2>3, <2>4, <2>5
<1>12. CASE MountUnknown
  BY <1>12 DEF MountUnknown
<1>13. CASE CreateNothing
  <2>1. caller \in {"stage6_type", "copy", "convert", "unpack"}
    BY <1>13 DEF CreateNothing, Callers
  <2>2. CASE caller = "stage6_type"
    BY <1>13, <2>2 DEF CreateNothing
  <2>3. CASE caller = "copy"
    BY <1>13, <2>3 DEF CreateNothing
  <2>4. CASE caller = "convert"
    BY <1>13, <2>4 DEF CreateNothing
  <2>5. CASE caller = "unpack"
    BY <1>13, <2>5 DEF CreateNothing
  <2> QED
    BY <2>1, <2>2, <2>3, <2>4, <2>5
<1>14. ASSUME NEW t \in Types, Create(t) PROVE BackupInv'
  BY <1>14 DEF Create, KeepLoop
<1>15. CASE FormatBegin
  BY <1>15 DEF FormatBegin
<1>16. CASE FormatEnd
  BY <1>16 DEF FormatEnd
<1>17. CASE FormatFails
  BY <1>17 DEF FormatFails, Fault, KeepUser
<1>18. CASE SetType
  <2>1. caller \in {"stage6_type", "copy", "convert", "unpack"}
    BY <1>18 DEF SetType, Callers
  <2>2. CASE caller = "stage6_type"
    BY <1>18, <2>2 DEF SetType, MountedAs, Note, Mounts, Fault, KeepLoop, KeepUser, KeepHistory
  <2>3. CASE caller = "copy"
    BY <1>18, <2>3 DEF SetType, MountedAs, Note, Mounts, Fault, KeepLoop, KeepUser, KeepHistory
  <2>4. CASE caller = "convert"
    BY <1>18, <2>4 DEF SetType, MountedAs, Note, Mounts, Fault, KeepLoop, KeepUser, KeepHistory
  <2>5. CASE caller = "unpack"
    BY <1>18, <2>5 DEF SetType, MountedAs, Note, Mounts, Fault, KeepLoop, KeepUser, KeepHistory
  <2> QED
    BY <2>1, <2>2, <2>3, <2>4, <2>5
<1>19. CASE Stage6
  BY <1>19, FirstIn DEF Stage6, Take
<1>20. CASE Stage6Type
  BY <1>20 DEF Stage6Type, KeepLoop
<1>21. CASE ReadRequests
  BY <1>21 DEF ReadRequests
<1>22. CASE ClearRequest
  BY <1>22, FirstIn DEF ClearRequest, Take
<1>23. CASE DropRequests
  BY <1>23 DEF DropRequests
<1>24. ASSUME NEW c \in Choices, Choose(c) PROVE BackupInv'
  BY <1>24 DEF Choose, Choices
<1>25. CASE Backup
  BY <1>25, FirstIn DEF Backup, Take, EnsureMountedThen
<1>26. CASE CopyBegin
  BY <1>26 DEF CopyBegin
<1>27. CASE CopyEnd
  BY <1>27 DEF CopyEnd, Unmount, KeepLoop
<1>28. CASE BackupFails
  BY <1>28 DEF BackupFails, Unmount, Fault, KeepLoop, KeepUser
<1>29. CASE BackupDone
  BY <1>29 DEF BackupDone
<1>30. CASE Convert
  BY <1>30, FirstIn DEF Convert, Take
<1>31. CASE ConvertDone
  BY <1>31 DEF ConvertDone
<1>32. CASE Restore
  BY <1>32, FirstIn DEF Restore, Take, EnsureMountedThen
<1>33. CASE UnpackBegin
  BY <1>33 DEF UnpackBegin
<1>34. CASE UnpackEnd
  BY <1>34 DEF UnpackEnd, Mounts, KeepLoop
<1>35. CASE RestoreFails
  BY <1>35 DEF RestoreFails, Fault, KeepUser
<1>36. CASE RestoreDone
  BY <1>36 DEF RestoreDone
<1>37. CASE RemoveBackup
  BY <1>37 DEF RemoveBackup
<1>38. CASE Boot
  BY <1>38 DEF Boot, Fault, KeepUser, KeepHistory
<1>39. CASE UNCHANGED vars
  BY <1>39 DEF vars
<1> QED
  BY <1>10, <1>11, <1>12, <1>13, <1>14, <1>15, <1>16, <1>17, <1>18, <1>19, <1>20, <1>21, <1>22,
      <1>23, <1>24, <1>25, <1>26, <1>27, <1>28, <1>29, <1>30, <1>31, <1>32, <1>33, <1>34, <1>35,
      <1>36, <1>37, <1>38, <1>39
     DEF Next, Mounting, Formatting, Stages, BackingUp, Converting, Restoring

\* A volume to convert is safe before it is formatted.
LEMMA ConvertNext ==
  Typed /\ Placed /\ OnceInv /\ EarlyInv /\ BackupInv /\ ConvertInv /\ [Next]_vars => ConvertInv'
<1> SUFFICES ASSUME Typed, Placed, OnceInv, EarlyInv, BackupInv, ConvertInv, [Next]_vars PROVE ConvertInv'
  OBVIOUS
<1> USE DEF Typed, Placed, OnceInv, Goto, disk, ram, history, SubPcs, Callers, MountLoop,
    BackupLoop, ConvertLoop, RestoreLoop, Sub, EarlyInv, ConvertInv, Own, Safe, ToConvert
<1>10. CASE Mount
  <2>1. caller \in {"stage6_type", "copy", "convert", "unpack"}
    BY <1>10 DEF Mount, Callers
  <2>2. CASE caller = "stage6_type"
    BY <1>10, <2>2 DEF Mount, ConfMounts, Note, Mounts, KeepLoop, KeepHistory
  <2>3. CASE caller = "copy"
    BY <1>10, <2>3 DEF Mount, ConfMounts, Note, Mounts, KeepLoop, KeepHistory
  <2>4. CASE caller = "convert"
    BY <1>10, <2>4 DEF Mount, ConfMounts, Note, Mounts, KeepLoop, KeepHistory
  <2>5. CASE caller = "unpack"
    BY <1>10, <2>5 DEF Mount, ConfMounts, Note, Mounts, KeepLoop, KeepHistory
  <2> QED
    BY <2>1, <2>2, <2>3, <2>4, <2>5
<1>11. CASE MountFails
  <2>1. caller \in {"stage6_type", "copy", "convert", "unpack"}
    BY <1>11 DEF MountFails, Callers
  <2>2. CASE caller = "stage6_type"
    BY <1>11, <2>2 DEF MountFails, Fault, Note, Mounts, KeepLoop, KeepUser
  <2>3. CASE caller = "copy"
    BY <1>11, <2>3 DEF MountFails, Fault, Note, Mounts, KeepLoop, KeepUser
  <2>4. CASE caller = "convert"
    BY <1>11, <2>4 DEF MountFails, Fault, Note, Mounts, KeepLoop, KeepUser
  <2>5. CASE caller = "unpack"
    BY <1>11, <2>5 DEF MountFails, Fault, Note, Mounts, KeepLoop, KeepUser
  <2> QED
    BY <2>1, <2>2, <2>3, <2>4, <2>5
<1>12. CASE MountUnknown
  BY <1>12 DEF MountUnknown
<1>13. CASE CreateNothing
  <2>1. caller \in {"stage6_type", "copy", "convert", "unpack"}
    BY <1>13 DEF CreateNothing, Callers
  <2>2. CASE caller = "stage6_type"
    BY <1>13, <2>2 DEF CreateNothing
  <2>3. CASE caller = "copy"
    BY <1>13, <2>3 DEF CreateNothing
  <2>4. CASE caller = "convert"
    BY <1>13, <2>4 DEF CreateNothing
  <2>5. CASE caller = "unpack"
    BY <1>13, <2>5 DEF CreateNothing
  <2> QED
    BY <2>1, <2>2, <2>3, <2>4, <2>5
<1>14. ASSUME NEW t \in Types, Create(t) PROVE ConvertInv'
  BY <1>14 DEF Create, KeepLoop
<1>15. CASE FormatBegin
  BY <1>15 DEF FormatBegin
<1>16. CASE FormatEnd
  BY <1>16 DEF FormatEnd
<1>17. CASE FormatFails
  BY <1>17 DEF FormatFails, Fault, KeepUser
<1>18. CASE SetType
  <2>1. caller \in {"stage6_type", "copy", "convert", "unpack"}
    BY <1>18 DEF SetType, Callers
  <2>2. CASE caller = "stage6_type"
    BY <1>18, <2>2 DEF SetType, MountedAs, Note, Mounts, Fault, KeepLoop, KeepUser, KeepHistory
  <2>3. CASE caller = "copy"
    BY <1>18, <2>3 DEF SetType, MountedAs, Note, Mounts, Fault, KeepLoop, KeepUser, KeepHistory
  <2>4. CASE caller = "convert"
    BY <1>18, <2>4 DEF SetType, MountedAs, Note, Mounts, Fault, KeepLoop, KeepUser, KeepHistory
  <2>5. CASE caller = "unpack"
    BY <1>18, <2>5 DEF SetType, MountedAs, Note, Mounts, Fault, KeepLoop, KeepUser, KeepHistory
  <2> QED
    BY <2>1, <2>2, <2>3, <2>4, <2>5
<1>19. CASE Stage6
  BY <1>19, FirstIn DEF Stage6, Take
<1>20. CASE Stage6Type
  BY <1>20 DEF Stage6Type, KeepLoop
<1>21. CASE ReadRequests
  BY <1>21 DEF ReadRequests
<1>22. CASE ClearRequest
  BY <1>22, FirstIn DEF ClearRequest, Take
<1>23. CASE DropRequests
  BY <1>23 DEF DropRequests
<1>24. ASSUME NEW c \in Choices, Choose(c) PROVE ConvertInv'
  BY <1>24 DEF Choose, Choices
<1>25. CASE Backup
  BY <1>25, FirstIn DEF Backup, Take, EnsureMountedThen
<1>26. CASE CopyBegin
  BY <1>26 DEF CopyBegin
<1>27. CASE CopyEnd
  BY <1>27 DEF CopyEnd, Unmount, KeepLoop
<1>28. CASE BackupFails
  BY <1>28 DEF BackupFails, Unmount, Fault, KeepLoop, KeepUser
<1>29. CASE BackupDone
  BY <1>29 DEF BackupDone, BackupInv, Done, Busy
<1>30. CASE Convert
  BY <1>30, FirstIn DEF Convert, Take
<1>31. CASE ConvertDone
  BY <1>31 DEF ConvertDone
<1>32. CASE Restore
  BY <1>32, FirstIn DEF Restore, Take, EnsureMountedThen
<1>33. CASE UnpackBegin
  BY <1>33 DEF UnpackBegin
<1>34. CASE UnpackEnd
  BY <1>34 DEF UnpackEnd, Mounts, KeepLoop
<1>35. CASE RestoreFails
  BY <1>35 DEF RestoreFails, Fault, KeepUser
<1>36. CASE RestoreDone
  BY <1>36 DEF RestoreDone
<1>37. CASE RemoveBackup
  BY <1>37 DEF RemoveBackup
<1>38. CASE Boot
  BY <1>38 DEF Boot, Fault, KeepUser, KeepHistory
<1>39. CASE UNCHANGED vars
  BY <1>39 DEF vars
<1> QED
  BY <1>10, <1>11, <1>12, <1>13, <1>14, <1>15, <1>16, <1>17, <1>18, <1>19, <1>20, <1>21, <1>22,
      <1>23, <1>24, <1>25, <1>26, <1>27, <1>28, <1>29, <1>30, <1>31, <1>32, <1>33, <1>34, <1>35,
      <1>36, <1>37, <1>38, <1>39
     DEF Next, Mounting, Formatting, Stages, BackingUp, Converting, Restoring

\* Unless a mount, a format or the restore fails, what was copied comes back.
LEMMA RestoreNext ==
  Typed /\ Placed /\ OnceInv /\ EarlyInv /\ ConvertInv /\ RestoreInv /\ [Next]_vars => RestoreInv'
<1> SUFFICES ASSUME Typed, Placed, OnceInv, EarlyInv, ConvertInv, RestoreInv, [Next]_vars PROVE RestoreInv'
  OBVIOUS
<1> USE DEF Typed, Placed, OnceInv, Goto, disk, ram, history, SubPcs, Callers, MountLoop,
    BackupLoop, ConvertLoop, RestoreLoop, Sub, EarlyInv, RestoreInv, Own, Done, Busy, ToConvert,
    Unhurt
<1>10. CASE Mount
  <2>1. caller \in {"stage6_type", "copy", "convert", "unpack"}
    BY <1>10 DEF Mount, Callers
  <2>2. CASE caller = "stage6_type"
    BY <1>10, <2>2 DEF Mount, ConfMounts, Note, Mounts, KeepLoop, KeepHistory
  <2>3. CASE caller = "copy"
    BY <1>10, <2>3 DEF Mount, ConfMounts, Note, Mounts, KeepLoop, KeepHistory
  <2>4. CASE caller = "convert"
    BY <1>10, <2>4 DEF Mount, ConfMounts, Note, Mounts, KeepLoop, KeepHistory
  <2>5. CASE caller = "unpack"
    BY <1>10, <2>5 DEF Mount, ConfMounts, Note, Mounts, KeepLoop, KeepHistory
  <2> QED
    BY <2>1, <2>2, <2>3, <2>4, <2>5
<1>11. CASE MountFails
  <2>1. caller \in {"stage6_type", "copy", "convert", "unpack"}
    BY <1>11 DEF MountFails, Callers
  <2>2. CASE caller = "stage6_type"
    BY <1>11, <2>2 DEF MountFails, Fault, Note, Mounts, KeepLoop, KeepUser
  <2>3. CASE caller = "copy"
    BY <1>11, <2>3 DEF MountFails, Fault, Note, Mounts, KeepLoop, KeepUser
  <2>4. CASE caller = "convert"
    BY <1>11, <2>4 DEF MountFails, Fault, Note, Mounts, KeepLoop, KeepUser
  <2>5. CASE caller = "unpack"
    BY <1>11, <2>5 DEF MountFails, Fault, Note, Mounts, KeepLoop, KeepUser
  <2> QED
    BY <2>1, <2>2, <2>3, <2>4, <2>5
<1>12. CASE MountUnknown
  BY <1>12 DEF MountUnknown
<1>13. CASE CreateNothing
  <2>1. caller \in {"stage6_type", "copy", "convert", "unpack"}
    BY <1>13 DEF CreateNothing, Callers
  <2>2. CASE caller = "stage6_type"
    BY <1>13, <2>2 DEF CreateNothing
  <2>3. CASE caller = "copy"
    BY <1>13, <2>3 DEF CreateNothing
  <2>4. CASE caller = "convert"
    BY <1>13, <2>4 DEF CreateNothing
  <2>5. CASE caller = "unpack"
    BY <1>13, <2>5 DEF CreateNothing
  <2> QED
    BY <2>1, <2>2, <2>3, <2>4, <2>5
<1>14. ASSUME NEW t \in Types, Create(t) PROVE RestoreInv'
  BY <1>14 DEF Create, KeepLoop
<1>15. CASE FormatBegin
  BY <1>15 DEF FormatBegin
<1>16. CASE FormatEnd
  BY <1>16 DEF FormatEnd
<1>17. CASE FormatFails
  BY <1>17 DEF FormatFails, Fault, KeepUser
<1>18. CASE SetType
  <2>1. caller \in {"stage6_type", "copy", "convert", "unpack"}
    BY <1>18 DEF SetType, Callers
  <2>2. CASE caller = "stage6_type"
    BY <1>18, <2>2 DEF SetType, MountedAs, Note, Mounts, Fault, KeepLoop, KeepUser, KeepHistory
  <2>3. CASE caller = "copy"
    BY <1>18, <2>3 DEF SetType, MountedAs, Note, Mounts, Fault, KeepLoop, KeepUser, KeepHistory
  <2>4. CASE caller = "convert"
    <3>1. CASE Mounts(MountedAs(target)) /\ KeepHistory
      <4>1. CASE Unhurt
        <5>1. fs[cur] = target /\ cur \in ToConvert /\ target \in Types
          BY <1>18, <2>4, <4>1 DEF SetType
        <5>2. mounted' = [mounted EXCEPT ![cur] = target]
          BY <3>1, <5>1, MountsAssumption DEF Mounts, MountedAs
        <5> QED
          BY <1>18, <2>4, <3>1, <4>1, <5>1, <5>2 DEF SetType, KeepLoop, KeepHistory
      <4>2. CASE ~Unhurt
        BY <3>1, <4>2 DEF KeepHistory
      <4> QED
        BY <4>1, <4>2
    <3>2. CASE Fault("mount")
      BY <3>2 DEF Fault
    <3> QED
      BY <1>18, <3>1, <3>2 DEF SetType
  <2>5. CASE caller = "unpack"
    BY <1>18, <2>5 DEF SetType, MountedAs, Note, Mounts, Fault, KeepLoop, KeepUser, KeepHistory
  <2> QED
    BY <2>1, <2>2, <2>3, <2>4, <2>5
<1>19. CASE Stage6
  BY <1>19, FirstIn DEF Stage6, Take
<1>20. CASE Stage6Type
  BY <1>20 DEF Stage6Type, KeepLoop
<1>21. CASE ReadRequests
  BY <1>21 DEF ReadRequests
<1>22. CASE ClearRequest
  BY <1>22, FirstIn DEF ClearRequest, Take
<1>23. CASE DropRequests
  BY <1>23 DEF DropRequests
<1>24. ASSUME NEW c \in Choices, Choose(c) PROVE RestoreInv'
  BY <1>24 DEF Choose, Choices
<1>25. CASE Backup
  BY <1>25, FirstIn DEF Backup, Take, EnsureMountedThen
<1>26. CASE CopyBegin
  BY <1>26 DEF CopyBegin
<1>27. CASE CopyEnd
  BY <1>27 DEF CopyEnd, Unmount, KeepLoop
<1>28. CASE BackupFails
  BY <1>28 DEF BackupFails, Unmount, Fault, KeepLoop, KeepUser
<1>29. CASE BackupDone
  BY <1>29 DEF BackupDone
<1>30. CASE Convert
  BY <1>30, FirstIn DEF Convert, Take
<1>31. CASE ConvertDone
  BY <1>31 DEF ConvertDone, ConvertInv, Safe, ToRestore
<1>32. CASE Restore
  BY <1>32, FirstIn DEF Restore, Take, EnsureMountedThen
<1>33. CASE UnpackBegin
  BY <1>33 DEF UnpackBegin
<1>34. CASE UnpackEnd
  BY <1>34 DEF UnpackEnd, Mounts, KeepLoop, ConvertInv, Safe
<1>35. CASE RestoreFails
  BY <1>35 DEF RestoreFails, Fault, KeepUser
<1>36. CASE RestoreDone
  BY <1>36 DEF RestoreDone
<1>37. CASE RemoveBackup
  BY <1>37 DEF RemoveBackup
<1>38. CASE Boot
  BY <1>38 DEF Boot, Fault, KeepUser, KeepHistory
<1>39. CASE UNCHANGED vars
  BY <1>39 DEF vars
<1> QED
  BY <1>10, <1>11, <1>12, <1>13, <1>14, <1>15, <1>16, <1>17, <1>18, <1>19, <1>20, <1>21, <1>22,
      <1>23, <1>24, <1>25, <1>26, <1>27, <1>28, <1>29, <1>30, <1>31, <1>32, <1>33, <1>34, <1>35,
      <1>36, <1>37, <1>38, <1>39
     DEF Next, Mounting, Formatting, Stages, BackingUp, Converting, Restoring

\* What is on a volume is safe when it is destroyed.
LEMMA KeptNext ==
  Typed /\ Placed /\ OnceInv /\ EarlyInv /\ BackupInv /\ ConvertInv /\ RestoreInv /\ DataKept /\ [Next]_vars => DataKept'
<1> SUFFICES ASSUME Typed, Placed, OnceInv, EarlyInv, BackupInv, ConvertInv, RestoreInv, DataKept, [Next]_vars PROVE DataKept'
  OBVIOUS
<1> USE DEF Typed, Placed, OnceInv, Goto, disk, ram, history, SubPcs, Callers, MountLoop,
    BackupLoop, ConvertLoop, RestoreLoop, Sub, DataKept
<1>10. CASE Mount
  <2>1. caller \in {"stage6_type", "copy", "convert", "unpack"}
    BY <1>10 DEF Mount, Callers
  <2>2. CASE caller = "stage6_type"
    BY <1>10, <2>2 DEF Mount, ConfMounts, Note, Mounts, KeepLoop, KeepHistory
  <2>3. CASE caller = "copy"
    BY <1>10, <2>3 DEF Mount, ConfMounts, Note, Mounts, KeepLoop, KeepHistory
  <2>4. CASE caller = "convert"
    BY <1>10, <2>4 DEF Mount, ConfMounts, Note, Mounts, KeepLoop, KeepHistory
  <2>5. CASE caller = "unpack"
    BY <1>10, <2>5 DEF Mount, ConfMounts, Note, Mounts, KeepLoop, KeepHistory
  <2> QED
    BY <2>1, <2>2, <2>3, <2>4, <2>5
<1>11. CASE MountFails
  <2>1. caller \in {"stage6_type", "copy", "convert", "unpack"}
    BY <1>11 DEF MountFails, Callers
  <2>2. CASE caller = "stage6_type"
    BY <1>11, <2>2 DEF MountFails, Fault, Note, Mounts, KeepLoop, KeepUser
  <2>3. CASE caller = "copy"
    BY <1>11, <2>3 DEF MountFails, Fault, Note, Mounts, KeepLoop, KeepUser
  <2>4. CASE caller = "convert"
    BY <1>11, <2>4 DEF MountFails, Fault, Note, Mounts, KeepLoop, KeepUser
  <2>5. CASE caller = "unpack"
    BY <1>11, <2>5 DEF MountFails, Fault, Note, Mounts, KeepLoop, KeepUser
  <2> QED
    BY <2>1, <2>2, <2>3, <2>4, <2>5
<1>12. CASE MountUnknown
  BY <1>12 DEF MountUnknown
<1>13. CASE CreateNothing
  <2>1. caller \in {"stage6_type", "copy", "convert", "unpack"}
    BY <1>13 DEF CreateNothing, Callers
  <2>2. CASE caller = "stage6_type"
    BY <1>13, <2>2 DEF CreateNothing
  <2>3. CASE caller = "copy"
    BY <1>13, <2>3 DEF CreateNothing
  <2>4. CASE caller = "convert"
    BY <1>13, <2>4 DEF CreateNothing
  <2>5. CASE caller = "unpack"
    BY <1>13, <2>5 DEF CreateNothing
  <2> QED
    BY <2>1, <2>2, <2>3, <2>4, <2>5
<1>14. ASSUME NEW t \in Types, Create(t) PROVE DataKept'
  BY <1>14 DEF Create, KeepLoop
<1>15. CASE FormatBegin
  BY <1>15 DEF FormatBegin, EarlyInv, ConvertInv, Safe
<1>16. CASE FormatEnd
  BY <1>16 DEF FormatEnd
<1>17. CASE FormatFails
  BY <1>17 DEF FormatFails, Fault, KeepUser
<1>18. CASE SetType
  <2>1. caller \in {"stage6_type", "copy", "convert", "unpack"}
    BY <1>18 DEF SetType, Callers
  <2>2. CASE caller = "stage6_type"
    BY <1>18, <2>2 DEF SetType, MountedAs, Note, Mounts, Fault, KeepLoop, KeepUser, KeepHistory
  <2>3. CASE caller = "copy"
    BY <1>18, <2>3 DEF SetType, MountedAs, Note, Mounts, Fault, KeepLoop, KeepUser, KeepHistory
  <2>4. CASE caller = "convert"
    BY <1>18, <2>4 DEF SetType, MountedAs, Note, Mounts, Fault, KeepLoop, KeepUser, KeepHistory
  <2>5. CASE caller = "unpack"
    BY <1>18, <2>5 DEF SetType, MountedAs, Note, Mounts, Fault, KeepLoop, KeepUser, KeepHistory
  <2> QED
    BY <2>1, <2>2, <2>3, <2>4, <2>5
<1>19. CASE Stage6
  BY <1>19, FirstIn DEF Stage6, Take
<1>20. CASE Stage6Type
  BY <1>20 DEF Stage6Type, KeepLoop
<1>21. CASE ReadRequests
  BY <1>21 DEF ReadRequests
<1>22. CASE ClearRequest
  BY <1>22, FirstIn DEF ClearRequest, Take
<1>23. CASE DropRequests
  BY <1>23 DEF DropRequests
<1>24. ASSUME NEW c \in Choices, Choose(c) PROVE DataKept'
  BY <1>24 DEF Choose, Choices, EarlyInv, Own
<1>25. CASE Backup
  BY <1>25, FirstIn DEF Backup, Take, EnsureMountedThen
<1>26. CASE CopyBegin
  BY <1>26 DEF CopyBegin, BackupInv, Own
<1>27. CASE CopyEnd
  BY <1>27 DEF CopyEnd, Unmount, KeepLoop, BackupInv, Own
<1>28. CASE BackupFails
  BY <1>28 DEF BackupFails, Unmount, Fault, KeepLoop, KeepUser
<1>29. CASE BackupDone
  BY <1>29 DEF BackupDone
<1>30. CASE Convert
  BY <1>30, FirstIn DEF Convert, Take
<1>31. CASE ConvertDone
  BY <1>31 DEF ConvertDone
<1>32. CASE Restore
  BY <1>32, FirstIn DEF Restore, Take, EnsureMountedThen
<1>33. CASE UnpackBegin
  BY <1>33 DEF UnpackBegin, ConvertInv, Safe
<1>34. CASE UnpackEnd
  BY <1>34 DEF UnpackEnd, Mounts, KeepLoop, ConvertInv, Safe
<1>35. CASE RestoreFails
  BY <1>35 DEF RestoreFails, Fault, KeepUser
<1>36. CASE RestoreDone
  BY <1>36 DEF RestoreDone
<1>37. CASE RemoveBackup
  BY <1>37 DEF RemoveBackup, RestoreInv, Own, Unhurt
<1>38. CASE Boot
  BY <1>38 DEF Boot, Fault, KeepUser, KeepHistory
<1>39. CASE UNCHANGED vars
  BY <1>39 DEF vars
<1> QED
  BY <1>10, <1>11, <1>12, <1>13, <1>14, <1>15, <1>16, <1>17, <1>18, <1>19, <1>20, <1>21, <1>22,
      <1>23, <1>24, <1>25, <1>26, <1>27, <1>28, <1>29, <1>30, <1>31, <1>32, <1>33, <1>34, <1>35,
      <1>36, <1>37, <1>38, <1>39
     DEF Next, Mounting, Formatting, Stages, BackingUp, Converting, Restoring

\* While nothing goes wrong, the volumes are found mounted, and converted as asked.
LEMMA CleanNext ==
  Typed /\ Placed /\ Noted /\ OnceInv /\ BackupInv /\ ConvertInv /\ CleanInv /\ [Next]_vars => CleanInv'
<1> SUFFICES ASSUME Typed, Placed, Noted, OnceInv, BackupInv, ConvertInv, CleanInv, [Next]_vars PROVE CleanInv'
  OBVIOUS
<1> USE DEF Typed, Placed, OnceInv, Goto, disk, ram, history, SubPcs, Callers, MountLoop,
    BackupLoop, ConvertLoop, RestoreLoop, Sub, CleanInv, Done, Busy, ToConvert, Asked, Known,
    MountedAgain
<1> USE TypesAssumption
<1>1. ASSUME mishaps = 0, pc \in {"menu", "backup"}, NEW v \in {"cache", "data"}
      PROVE  IF v \in ToConvert THEN new[v] = asked[v] ELSE Asked(v)
  <2>1. v \in Volumes /\ type[v] = fs[v]
    BY <1>1 DEF Volumes
  <2> QED
    BY <1>1, <2>1
<1>10. CASE Mount
  <2>1. caller \in {"stage6_type", "copy", "convert", "unpack"}
    BY <1>10 DEF Mount, Callers
  <2>2. CASE caller = "stage6_type"
    BY <1>10, <2>2 DEF Mount, ConfMounts, Note, Mounts, KeepLoop, KeepHistory
  <2>3. CASE caller = "copy"
    BY <1>10, <2>3 DEF Mount, ConfMounts, Note, Mounts, KeepLoop, KeepHistory
  <2>4. CASE caller = "convert"
    BY <1>10, <2>4 DEF Mount, ConfMounts, Note, Mounts, KeepLoop, KeepHistory
  <2>5. CASE caller = "unpack"
    BY <1>10, <2>5 DEF Mount, ConfMounts, Note, Mounts, KeepLoop, KeepHistory
  <2> QED
    BY <2>1, <2>2, <2>3, <2>4, <2>5
<1>11. CASE MountFails
  <2>1. caller \in {"stage6_type", "copy", "convert", "unpack"}
    BY <1>11 DEF MountFails, Callers
  <2>2. CASE caller = "stage6_type"
    BY <1>11, <2>2 DEF MountFails, Fault, Note, Mounts, KeepLoop, KeepUser
  <2>3. CASE caller = "copy"
    BY <1>11, <2>3 DEF MountFails, Fault, Note, Mounts, KeepLoop, KeepUser
  <2>4. CASE caller = "convert"
    BY <1>11, <2>4 DEF MountFails, Fault, Note, Mounts, KeepLoop, KeepUser
  <2>5. CASE caller = "unpack"
    BY <1>11, <2>5 DEF MountFails, Fault, Note, Mounts, KeepLoop, KeepUser
  <2> QED
    BY <2>1, <2>2, <2>3, <2>4, <2>5
<1>12. CASE MountUnknown
  BY <1>12 DEF MountUnknown
<1>13. CASE CreateNothing
  <2>1. caller \in {"stage6_type", "copy", "convert", "unpack"}
    BY <1>13 DEF CreateNothing, Callers
  <2>2. CASE caller = "stage6_type"
    BY <1>13, <2>2 DEF CreateNothing
  <2>3. CASE caller = "copy"
    BY <1>13, <2>3 DEF CreateNothing
  <2>4. CASE caller = "convert"
    BY <1>13, <2>4 DEF CreateNothing
  <2>5. CASE caller = "unpack"
    BY <1>13, <2>5 DEF CreateNothing
  <2> QED
    BY <2>1, <2>2, <2>3, <2>4, <2>5
<1>14. ASSUME NEW t \in Types, Create(t) PROVE CleanInv'
  BY <1>14 DEF Create, KeepLoop
<1>15. CASE FormatBegin
  BY <1>15 DEF FormatBegin
<1>16. CASE FormatEnd
  BY <1>16 DEF FormatEnd
<1>17. CASE FormatFails
  BY <1>17 DEF FormatFails, Fault, KeepUser
<1>18. CASE SetType
  <2>1. caller \in {"stage6_type", "copy", "convert", "unpack"}
    BY <1>18 DEF SetType, Callers
  <2>2. CASE caller = "stage6_type"
    BY <1>18, <2>2 DEF SetType, MountedAs, Note, Mounts, Fault, KeepLoop, KeepUser, KeepHistory
  <2>3. CASE caller = "copy"
    BY <1>18, <2>3 DEF SetType, MountedAs, Note, Mounts, Fault, KeepLoop, KeepUser, KeepHistory
  <2>4. CASE caller = "convert"
    <3>1. CASE Mounts(MountedAs(target)) /\ KeepHistory
      <4>1. CASE mishaps = 0
        <5>1. fs[cur] = target /\ cur \in ToConvert /\ target = new[cur] /\ target \in Types
          BY <1>18, <2>4, <4>1 DEF SetType
        <5>2. mounted' = [mounted EXCEPT ![cur] = target]
          BY <3>1, <5>1, MountsAssumption DEF Mounts, MountedAs
        <5> QED
          BY <1>18, <2>4, <3>1, <4>1, <5>1, <5>2 DEF SetType, KeepLoop, KeepHistory
      <4>2. CASE mishaps # 0
        BY <3>1, <4>2 DEF KeepHistory
      <4> QED
        BY <4>1, <4>2
    <3>2. CASE Fault("mount")
      BY <3>2 DEF Fault
    <3> QED
      BY <1>18, <3>1, <3>2 DEF SetType
  <2>5. CASE caller = "unpack"
    BY <1>18, <2>5 DEF SetType, MountedAs, Note, Mounts, Fault, KeepLoop, KeepUser, KeepHistory
  <2> QED
    BY <2>1, <2>2, <2>3, <2>4, <2>5
<1>19. CASE Stage6
  BY <1>19, FirstIn DEF Stage6, Take
<1>20. CASE Stage6Type
  BY <1>20 DEF Stage6Type, KeepLoop, Noted
<1>21. CASE ReadRequests
  BY <1>21 DEF ReadRequests, Volumes
<1>22. CASE ClearRequest
  BY <1>22, FirstIn DEF ClearRequest, Take
<1>23. CASE DropRequests
  <2>1. CASE mishaps # 0
    BY <1>23, <2>1 DEF DropRequests
  <2>2. CASE mishaps = 0
    <3>1. /\ new \in {asked, Nothing} /\ \A v \in Volumes : Known(v)
          /\ UNCHANGED <<mounted, type, fs, asked, choice, mishaps>>
      BY <1>23, <2>2 DEF DropRequests
    <3>2. CASE new' = Nothing
      <4>1. pc' = "running"
        BY <1>23, <3>2 DEF DropRequests
      <4> QED
        BY <1>23, <2>2, <3>1, <4>1 DEF DropRequests
    <3>3. CASE new' # Nothing
      <4>1. pc' = "menu"
        BY <1>23, <3>3 DEF DropRequests
      <4>2. new = asked
        BY <1>23, <3>1, <3>3 DEF DropRequests, Nothing
      <4>3. \A v \in {"cache", "data"} : new'[v] = asked[v] \/ (new'[v] = None /\ asked[v] = fs[v])
        BY <1>23, <3>1, <4>2 DEF DropRequests, StillNew, Volumes
      <4> QED
        BY <1>23, <2>2, <3>1, <4>1, <4>3 DEF DropRequests
    <3> QED
      BY <3>2, <3>3
  <2> QED
    BY <2>1, <2>2
<1>24. ASSUME NEW c \in Choices, Choose(c) PROVE CleanInv'
  <2>1. CASE c = "cancel"
    BY <1>24, <2>1 DEF Choose
  <2>2. CASE c = "rmall"
    <3>1. CASE mishaps # 0
      BY <1>24, <2>2, <3>1 DEF Choose
    <3>2. CASE mishaps = 0
      <4>1. pc' = "convert" /\ todo' = ToConvert /\ ToConvert' = ToConvert /\ UNCHANGED <<mounted, type, new, fs, asked, torn, mishaps>>
        BY <1>24, <2>2 DEF Choose
      <4>2. /\ \A v \in Volumes \ ToConvert : mounted[v] # None
            /\ \A v \in Volumes : fs[v] \in Types
            /\ torn = {}
        BY <1>24, <3>2 DEF Choose
      <4>3. \A v \in {"cache", "data"} : IF v \in ToConvert THEN new[v] = asked[v] ELSE Asked(v)
        BY <1>24, <1>1, <3>2 DEF Choose
      <4>4. \A v \in ToConvert : v \in todo'
        BY <4>1
      <4> QED
        BY <4>1, <4>2, <4>3, <4>4
    <3> QED
      BY <3>1, <3>2
  <2>3. CASE c \in {"full", "onlybackup", "rmbackup"}
    BY <1>24, <2>3 DEF Choose
  <2> QED
    BY <2>1, <2>2, <2>3 DEF Choices
<1>25. CASE Backup
  BY <1>25, FirstIn DEF Backup, Take, EnsureMountedThen
<1>26. CASE CopyBegin
  BY <1>26 DEF CopyBegin
<1>27. CASE CopyEnd
  BY <1>27 DEF CopyEnd, Unmount, KeepLoop, BackupInv
<1>28. CASE BackupFails
  BY <1>28 DEF BackupFails, Unmount, Fault, KeepLoop, KeepUser
<1>29. CASE BackupDone
  <2>1. CASE mishaps # 0
    BY <1>29, <2>1 DEF BackupDone
  <2>2. CASE mishaps = 0
    <3>1. pc' = "convert" /\ todo' = ToConvert /\ ToConvert' = ToConvert /\ UNCHANGED <<mounted, type, new, fs, asked, torn, mishaps>>
      BY <1>29 DEF BackupDone
    <3>2. /\ \A v \in Volumes \ ToConvert : mounted[v] # None
          /\ \A v \in Volumes : fs[v] \in Types
          /\ torn = {}
      BY <1>29, <2>2 DEF BackupDone
    <3>3. \A v \in {"cache", "data"} : IF v \in ToConvert THEN new[v] = asked[v] ELSE Asked(v)
      BY <1>29, <1>1, <2>2 DEF BackupDone
    <3>4. \A v \in ToConvert : v \in todo'
      BY <3>1
    <3> QED
      BY <3>1, <3>2, <3>3, <3>4
  <2> QED
    BY <2>1, <2>2
<1>30. CASE Convert
  BY <1>30, FirstIn DEF Convert, Take
<1>31. CASE ConvertDone
  BY <1>31 DEF ConvertDone, ToRestore
<1>32. CASE Restore
  BY <1>32, FirstIn DEF Restore, Take, EnsureMountedThen
<1>33. CASE UnpackBegin
  BY <1>33 DEF UnpackBegin, Noted
<1>34. CASE UnpackEnd
  BY <1>34 DEF UnpackEnd, Mounts, KeepLoop, ConvertInv
<1>35. CASE RestoreFails
  BY <1>35 DEF RestoreFails, Fault, KeepUser
<1>36. CASE RestoreDone
  BY <1>36 DEF RestoreDone
<1>37. CASE RemoveBackup
  BY <1>37 DEF RemoveBackup
<1>38. CASE Boot
  <2>1. CASE pc = "running" /\ KeepHistory
    BY <1>38, <2>1 DEF Boot, KeepHistory, Volumes, Nothing
  <2>2. CASE Fault("power")
    BY <2>2 DEF Fault
  <2> QED
    BY <1>38, <2>1, <2>2 DEF Boot
<1>39. CASE UNCHANGED vars
  BY <1>39 DEF vars
<1> QED
  BY <1>10, <1>11, <1>12, <1>13, <1>14, <1>15, <1>16, <1>17, <1>18, <1>19, <1>20, <1>21, <1>22,
      <1>23, <1>24, <1>25, <1>26, <1>27, <1>28, <1>29, <1>30, <1>31, <1>32, <1>33, <1>34, <1>35,
      <1>36, <1>37, <1>38, <1>39
     DEF Next, Mounting, Formatting, Stages, BackingUp, Converting, Restoring

\* The first boot finds its volumes as they were left, and no backup.
LEMMA BootInit == Init => TypeInv /\ OnceInv /\ DataInv /\ CleanInv
<1> SUFFICES ASSUME Init PROVE TypeInv /\ OnceInv /\ DataInv /\ CleanInv
  OBVIOUS
<1> USE TypesAssumption, StartAssumption DEF Init, SubPcs, MountLoop, BackupLoop, ConvertLoop, RestoreLoop, Sub, Busy
<1>1. Typed
  BY DEF Typed, Kinds, Pcs, Callers, Nothing, Volumes
<1>2. Placed /\ Noted
  BY DEF Placed, Noted, Nothing
<1>3. OnceInv
  BY DEF OnceInv, Nothing
<1>4. DataInv
  BY DEF DataInv, EarlyInv, BackupInv, ConvertInv, RestoreInv, DataKept, Own
<1>5. CleanInv
  BY DEF CleanInv, Done, MountedAgain
<1> QED
  BY <1>1, <1>2, <1>3, <1>4, <1>5 DEF TypeInv

\* Every step of stages 6 and 7 keeps what the theorems below rest on.
LEMMA BootInvariant == Spec => [](TypeInv /\ OnceInv /\ DataInv)
<1>1. TypeInv /\ OnceInv /\ DataInv /\ [Next]_vars => (TypeInv /\ OnceInv /\ DataInv)'
  BY TypedNext, PlacedNext, NotedNext, OnceNext, EarlyNext, BackupNext, ConvertNext, RestoreNext, KeptNext
     DEF TypeInv, DataInv
<1> QED
  BY <1>1, BootInit, PTL DEF Spec

\* The variables of stages 6 and 7 keep their types, and only what has a file system is
\* mounted.
THEOREM TypeCorrect == Spec => []TypeOK
<1>1. TypeInv => TypeOK
  BY DEF TypeInv, Typed, Noted, TypeOK, Kinds
<1> QED
  BY <1>1, BootInvariant, PTL

\* fs.<volume>.type names what mount_from_config_or_autodetect() or a format mounted, and
\* it is wrong only about a volume whose format failed or was cut off before set_conf().
THEOREM TypesNoted == Spec => []TypeNoted
<1>1. TypeInv => TypeNoted
  BY DEF TypeInv, Noted, TypeNoted
<1> QED
  BY <1>1, BootInvariant, PTL

\* convert_filesystems() formats a volume only when its files are in a backup with md5
\* sums, or the user gave them up; however often power is lost, they are never in
\* neither place.
THEOREM FilesKept == Spec => []DataKept
<1>1. DataInv => DataKept
  BY DEF DataInv
<1> QED
  BY <1>1, BootInvariant, PTL

\* The invariant of boots in which nothing goes wrong.
LEMMA CleanInvariant == Spec => [](TypeInv /\ OnceInv /\ CleanInv)
<1>1. TypeInv /\ OnceInv /\ DataInv /\ CleanInv /\ [Next]_vars => CleanInv'
  BY CleanNext DEF TypeInv, DataInv
<1> QED
  BY <1>1, BootInit, BootInvariant, PTL DEF Spec

\* A conversion of /cache or /data that was asked for and not cancelled is done when
\* nothing goes wrong.
THEOREM ConvertedAsAsked == Spec => []Converted
<1>1. CleanInv => Converted
  BY DEF CleanInv, Converted, Honoured, Asked
<1> QED
  BY <1>1, CleanInvariant, PTL

\* When nothing goes wrong the main system finds its volumes mounted, but for those
\* nandroid_restore() unmounted.
THEOREM MountedForMain == Spec => []MountedAgain
<1>1. TypeInv /\ OnceInv /\ CleanInv => MountedAgain
  BY DEF CleanInv, MountedAgain
<1> QED
  BY <1>1, CleanInvariant, PTL
=============================================================================
