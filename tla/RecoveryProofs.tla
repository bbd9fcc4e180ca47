--------------------------- MODULE RecoveryProofs ---------------------------
(***************************************************************************)
(* Proofs about Recovery, for every board, every set of requests and every *)
(* number of power losses and failing operations.                          *)
(***************************************************************************)
EXTENDS Recovery, TLAPS

\* Type correctness is inductive once it is known that erase_root() is in the
\* middle of an erase only when there is a root left to erase.
TypeInv ==
  /\ MachineTypes /\ FlagTypes /\ DiskTypes /\ RamTypes /\ HistoryTypes
  /\ pc = "erasing" => todo # <<>>

\* The messages recovery.c and firmware.c compose are well typed.
LEMMA MessagesTyped ==
  /\ Blank \in Messages
  /\ RamTypes => /\ Message("boot-recovery", argv) \in Messages
                 /\ Message("boot-recovery", AfterFlash) \in Messages
                 /\ Message("update", AfterFlash) \in Messages
                 /\ Message("boot-recovery", {}) \in Messages
  BY DEF Blank, Message, Messages, AfterFlash, RamTypes, Options

\* What set_bootloader_message() of bootloader.c may leave in the misc partition.
LEMMA SetMessageTypes ==
  ASSUME misc \in Messages, faults \in [Mishaps -> Nat],
         NEW m \in Messages, NEW ok \in BOOLEAN, set_bootloader_message(m, ok)
  PROVE  misc' \in Messages /\ faults' \in [Mishaps -> Nat]
<1>1. misc' \in Messages
  BY MessagesTyped DEF set_bootloader_message
<1>2. faults' \in [Mishaps -> Nat]
  BY DEF set_bootloader_message, Fault, Mishaps
<1> QED
  BY <1>1, <1>2

\* A machine that rebooted has forgotten its argv, status and queue of roots.
LEMMA ForgetRamTypes == ForgetRam => RamTypes'
<1>1. ForgetRam => argv' \subseteq Options
  BY DEF ForgetRam
<1>2. ForgetRam => todo' \in Seq(Roots)
  BY DEF ForgetRam
<1>3. ForgetRam => /\ status' \in {"success", "error"}
                   /\ cont' \in {"decide", "install", "prompt", "finish"}
                   /\ pending' \in {"none", "complete", "aborted"}
  BY DEF ForgetRam
<1> QED
  BY <1>1, <1>2, <1>3 DEF RamTypes

\* main() and the menu erase known roots only.
LEMMA RootSequences ==
  /\ RootsToErase \in Seq(Roots)
  /\ <<"CACHE">> \in Seq(Roots)
  /\ <<"DATA", "DATADATA", "CACHE">> \in Seq(Roots)
<1>1. <<>> \in Seq(Roots)
  OBVIOUS
<1>2. <<"DATA">> \in Seq(Roots) /\ <<"CACHE">> \in Seq(Roots)
  BY DEF Roots
<1>3. <<"DATA", "CACHE">> \in Seq(Roots)
  BY DEF Roots
<1>4. <<"DATA", "DATADATA", "CACHE">> \in Seq(Roots)
  BY DEF Roots
<1>5. RootsToErase \in Seq(Roots)
  BY <1>1, <1>2, <1>3 DEF RootsToErase
<1> QED
  BY <1>2, <1>4, <1>5

\* Init of recovery.c's state is well typed.
LEMMA TypeInit == Init => TypeInv
<1> SUFFICES ASSUME Init PROVE TypeInv
  OBVIOUS
<1>1. MachineTypes /\ (pc = "erasing" => todo # <<>>)
  BY DEF Init, MachineTypes, Pcs, ImagePcs
<1>2. DiskTypes
  BY DEF Init, DiskTypes, Blank, Messages
<1>3. RamTypes
  BY DEF Init, RamTypes
<1>4. HistoryTypes
  BY DEF Init, HistoryTypes
<1>5. FlagTypes
  BY DEF Init, FlagTypes
<1> QED
  BY <1>1, <1>2, <1>3, <1>4, <1>5 DEF TypeInv

\* Every step of recovery, the bootloader, the main system and the power supply
\* keeps the types.
LEMMA TypeNext == TypeInv /\ [Next]_vars => TypeInv'
<1> SUFFICES ASSUME TypeInv, [Next]_vars PROVE TypeInv'
  OBVIOUS
<1> USE DEF TypeInv
<1>1. ASSUME NEW req \in Requests, MainRequest(req) PROVE TypeInv'
  <2>1. MachineTypes'
    BY <1>1 DEF MainRequest, MachineTypes, Pcs, ImagePcs, Reboot
  <2>2. FlagTypes'
    BY <1>1 DEF MainRequest, FlagTypes, ram, history, Reboot, ForgetRam
  <2>3. DiskTypes'
    BY <1>1, RequestsAssumption DEF MainRequest, DiskTypes, disk, Roots
  <2>4. RamTypes'
    BY <1>1, ForgetRamTypes DEF MainRequest, Reboot
  <2>5. HistoryTypes'
    BY <1>1, RequestsAssumption DEF MainRequest, HistoryTypes, history
  <2>6. (pc = "erasing" => todo # <<>>)'
    BY <1>1 DEF MainRequest, ram, Reboot
  <2> QED
    BY <2>1, <2>2, <2>3, <2>4, <2>5, <2>6
<1>2. CASE BootMain
  <2>1. MachineTypes'
    BY <1>2 DEF BootMain, MachineTypes, Pcs, ImagePcs
  <2>2. FlagTypes'
    BY <1>2 DEF BootMain, FlagTypes, ram, history
  <2>3. DiskTypes'
    BY <1>2 DEF BootMain, DiskTypes, disk
  <2>4. RamTypes'
    BY <1>2 DEF BootMain, RamTypes, ram
  <2>5. HistoryTypes'
    BY <1>2 DEF BootMain, HistoryTypes, history
  <2>6. (pc = "erasing" => todo # <<>>)'
    BY <1>2 DEF BootMain, ram
  <2> QED
    BY <2>1, <2>2, <2>3, <2>4, <2>5, <2>6
<1>3. CASE BootRecovery
  <2>1. MachineTypes'
    BY <1>3 DEF BootRecovery, MachineTypes, Pcs, ImagePcs
  <2>2. FlagTypes'
    BY <1>3 DEF BootRecovery, FlagTypes, ram, history
  <2>3. DiskTypes'
    BY <1>3 DEF BootRecovery, DiskTypes, disk
  <2>4. RamTypes'
    BY <1>3 DEF BootRecovery, RamTypes, ram
  <2>5. HistoryTypes'
    BY <1>3 DEF BootRecovery, HistoryTypes, history
  <2>6. (pc = "erasing" => todo # <<>>)'
    BY <1>3 DEF BootRecovery, ram
  <2> QED
    BY <2>1, <2>2, <2>3, <2>4, <2>5, <2>6
<1>4. CASE Flash
  <2>1. MachineTypes'
    BY <1>4 DEF Flash, MachineTypes, Pcs, ImagePcs
  <2>2. FlagTypes'
    BY <1>4 DEF Flash, FlagTypes, ram, history
  <2>3. DiskTypes'
    BY <1>4 DEF Flash, DiskTypes, disk, Messages
  <2>4. RamTypes'
    BY <1>4 DEF Flash, RamTypes, ram
  <2>5. HistoryTypes'
    BY <1>4 DEF Flash, HistoryTypes, history
  <2>6. (pc = "erasing" => todo # <<>>)'
    BY <1>4 DEF Flash, ram
  <2> QED
    BY <2>1, <2>2, <2>3, <2>4, <2>5, <2>6
<1>5. CASE FlashDone
  <2>1. MachineTypes'
    BY <1>5 DEF FlashDone, MachineTypes, Pcs, ImagePcs
  <2>2. FlagTypes'
    BY <1>5 DEF FlashDone, FlagTypes, ram, history
  <2>3. DiskTypes'
    BY <1>5 DEF FlashDone, DiskTypes, disk, Messages
  <2>4. RamTypes'
    BY <1>5 DEF FlashDone, RamTypes, ram
  <2>5. HistoryTypes'
    BY <1>5 DEF FlashDone, HistoryTypes, history
  <2>6. (pc = "erasing" => todo # <<>>)'
    BY <1>5 DEF FlashDone, ram
  <2> QED
    BY <2>1, <2>2, <2>3, <2>4, <2>5, <2>6
<1>6. CASE get_args
  <2>1. MachineTypes'
    BY <1>6 DEF get_args, Goto, MachineTypes, Pcs, ImagePcs
  <2>2. FlagTypes'
    BY <1>6 DEF get_args, Goto, FlagTypes, ram, history
  <2>3. DiskTypes'
    BY <1>6 DEF get_args, DiskTypes, disk
  <2>4. RamTypes'
    BY <1>6 DEF get_args, RamTypes, ram, ArgsFrom, Blank, Messages, DiskTypes
  <2>5. HistoryTypes'
    BY <1>6 DEF get_args, HistoryTypes, history, Fault, Mishaps
  <2>6. (pc = "erasing" => todo # <<>>)'
    BY <1>6 DEF get_args, Goto, ram
  <2> QED
    BY <2>1, <2>2, <2>3, <2>4, <2>5, <2>6
<1>7. CASE write_back
  <2>0. misc' \in Messages /\ faults' \in [Mishaps -> Nat]
    BY <1>7, MessagesTyped, SetMessageTypes DEF write_back, DiskTypes, HistoryTypes
  <2>1. MachineTypes'
    BY <1>7 DEF write_back, Goto, MachineTypes, Pcs, ImagePcs
  <2>2. FlagTypes'
    BY <1>7 DEF write_back, Goto, FlagTypes, ram, history
  <2>3. DiskTypes'
    BY <1>7, <2>0 DEF write_back, DiskTypes, disk
  <2>4. RamTypes'
    BY <1>7 DEF write_back, RamTypes, ram
  <2>5. HistoryTypes'
    BY <1>7, <2>0 DEF write_back, HistoryTypes, history
  <2>6. (pc = "erasing" => todo # <<>>)'
    BY <1>7 DEF write_back, Goto, ram
  <2> QED
    BY <2>1, <2>2, <2>3, <2>4, <2>5, <2>6
<1>8. CASE Dispatch
  <2>1. MachineTypes'
    BY <1>8 DEF Dispatch, Goto, MachineTypes, Pcs, ImagePcs
  <2>2. FlagTypes'
    BY <1>8 DEF Dispatch, Goto, FlagTypes, ram, history
  <2>3. DiskTypes'
    BY <1>8 DEF Dispatch, DiskTypes, disk
  <2>4. RamTypes'
    BY <1>8, RootSequences DEF Dispatch, RamTypes
  <2>5. HistoryTypes'
    BY <1>8 DEF Dispatch, HistoryTypes, history
  <2>6. (pc = "erasing" => todo # <<>>)'
    BY <1>8 DEF Dispatch, Goto, ram
  <2> QED
    BY <2>1, <2>2, <2>3, <2>4, <2>5, <2>6
<1>9. CASE DispatchNone
  <2>1. MachineTypes'
    BY <1>9 DEF DispatchNone, Goto, MachineTypes, Pcs, ImagePcs
  <2>2. FlagTypes'
    BY <1>9 DEF DispatchNone, Goto, FlagTypes, ram, history
  <2>3. DiskTypes'
    BY <1>9 DEF DispatchNone, DiskTypes, disk
  <2>4. RamTypes'
    BY <1>9 DEF DispatchNone, RamTypes, ram
  <2>5. HistoryTypes'
    BY <1>9 DEF DispatchNone, HistoryTypes, history
  <2>6. (pc = "erasing" => todo # <<>>)'
    BY <1>9 DEF DispatchNone, Goto, ram
  <2> QED
    BY <2>1, <2>2, <2>3, <2>4, <2>5, <2>6
<1>10. CASE EraseBegin
  <2>1. MachineTypes'
    BY <1>10 DEF EraseBegin, Goto, MachineTypes, Pcs, ImagePcs
  <2>2. FlagTypes'
    BY <1>10 DEF EraseBegin, Goto, FlagTypes, ram, history
  <2>3. DiskTypes'
    BY <1>10 DEF EraseBegin, DiskTypes, disk, Roots
  <2>4. RamTypes'
    BY <1>10 DEF EraseBegin, RamTypes, ram
  <2>5. HistoryTypes'
    BY <1>10 DEF EraseBegin, HistoryTypes, history
  <2>6. (pc = "erasing" => todo # <<>>)'
    BY <1>10 DEF EraseBegin, Goto, ram
  <2> QED
    BY <2>1, <2>2, <2>3, <2>4, <2>5, <2>6
<1>11. CASE EraseEnd
  <2>1. MachineTypes'
    BY <1>11 DEF EraseEnd, Goto, MachineTypes, Pcs, ImagePcs
  <2>2. FlagTypes'
    BY <1>11 DEF EraseEnd, Goto, FlagTypes, ram, history
  <2>3. DiskTypes'
    BY <1>11 DEF EraseEnd, DiskTypes, disk, Roots
  <2>4. RamTypes'
    BY <1>11 DEF EraseEnd, RamTypes, ram, At
  <2>5. HistoryTypes'
    BY <1>11 DEF EraseEnd, HistoryTypes, history
  <2>6. (pc = "erasing" => todo # <<>>)'
    BY <1>11 DEF EraseEnd, Goto, ram
  <2> QED
    BY <2>1, <2>2, <2>3, <2>4, <2>5, <2>6
<1>12. CASE EraseFail
  <2>1. MachineTypes'
    BY <1>12 DEF EraseFail, Goto, MachineTypes, Pcs, ImagePcs
  <2>2. FlagTypes'
    BY <1>12 DEF EraseFail, Goto, FlagTypes, ram, history
  <2>3. DiskTypes'
    BY <1>12 DEF EraseFail, DiskTypes, disk
  <2>4. RamTypes'
    BY <1>12 DEF EraseFail, RamTypes, ram, At
  <2>5. HistoryTypes'
    BY <1>12 DEF EraseFail, HistoryTypes, history, Fault, Mishaps
  <2>6. (pc = "erasing" => todo # <<>>)'
    BY <1>12 DEF EraseFail, Goto, ram
  <2> QED
    BY <2>1, <2>2, <2>3, <2>4, <2>5, <2>6
<1>13. CASE EraseSkip
  <2>1. MachineTypes'
    BY <1>13 DEF EraseSkip, MachineTypes, Pcs, ImagePcs
  <2>2. FlagTypes'
    BY <1>13 DEF EraseSkip, FlagTypes, ram, history
  <2>3. DiskTypes'
    BY <1>13 DEF EraseSkip, DiskTypes, disk
  <2>4. RamTypes'
    BY <1>13 DEF EraseSkip, RamTypes, ram
  <2>5. HistoryTypes'
    BY <1>13 DEF EraseSkip, HistoryTypes, history, Fault, Mishaps
  <2>6. (pc = "erasing" => todo # <<>>)'
    BY <1>13 DEF EraseSkip, ram, At
  <2> QED
    BY <2>1, <2>2, <2>3, <2>4, <2>5, <2>6
<1>14. CASE EraseDone
  <2>1. MachineTypes'
    BY <1>14 DEF EraseDone, Goto, MachineTypes, Pcs, ImagePcs, RamTypes
  <2>2. FlagTypes'
    BY <1>14 DEF EraseDone, Goto, FlagTypes, ram, history
  <2>3. DiskTypes'
    BY <1>14 DEF EraseDone, DiskTypes, disk
  <2>4. RamTypes'
    BY <1>14 DEF EraseDone, RamTypes, ram
  <2>5. HistoryTypes'
    BY <1>14 DEF EraseDone, HistoryTypes, history
  <2>6. (pc = "erasing" => todo # <<>>)'
    BY <1>14 DEF EraseDone, Goto, ram, RamTypes
  <2> QED
    BY <2>1, <2>2, <2>3, <2>4, <2>5, <2>6
<1>15. CASE InstallCorrupt
  <2>1. MachineTypes'
    BY <1>15 DEF InstallCorrupt, Goto, MachineTypes, Pcs, ImagePcs, InstallReturns
  <2>2. FlagTypes'
    BY <1>15 DEF InstallCorrupt, Goto, FlagTypes, ram, history
  <2>3. DiskTypes'
    BY <1>15 DEF InstallCorrupt, DiskTypes, disk
  <2>4. RamTypes'
    BY <1>15 DEF InstallCorrupt, RamTypes, ram
  <2>5. HistoryTypes'
    BY <1>15 DEF InstallCorrupt, HistoryTypes, history, Fault, Mishaps
  <2>6. (pc = "erasing" => todo # <<>>)'
    BY <1>15 DEF InstallCorrupt, Goto, ram, InstallReturns
  <2> QED
    BY <2>1, <2>2, <2>3, <2>4, <2>5, <2>6
<1>16. CASE InstallBegin
  <2>1. MachineTypes'
    BY <1>16 DEF InstallBegin, Goto, MachineTypes, Pcs, ImagePcs
  <2>2. FlagTypes'
    BY <1>16 DEF InstallBegin, Goto, FlagTypes, ram, history
  <2>3. DiskTypes'
    BY <1>16 DEF InstallBegin, DiskTypes, disk
  <2>4. RamTypes'
    BY <1>16 DEF InstallBegin, RamTypes, ram
  <2>5. HistoryTypes'
    BY <1>16 DEF InstallBegin, HistoryTypes, history
  <2>6. (pc = "erasing" => todo # <<>>)'
    BY <1>16 DEF InstallBegin, Goto, ram
  <2> QED
    BY <2>1, <2>2, <2>3, <2>4, <2>5, <2>6
<1>17. CASE InstallEnd
  <2>1. MachineTypes'
    BY <1>17 DEF InstallEnd, Goto, MachineTypes, Pcs, ImagePcs, InstallReturns
  <2>2. FlagTypes'
    BY <1>17 DEF InstallEnd, Goto, FlagTypes, ram, history
  <2>3. DiskTypes'
    BY <1>17 DEF InstallEnd, DiskTypes, disk
  <2>4. RamTypes'
    BY <1>17 DEF InstallEnd, RamTypes, ram, Remembered
  <2>5. HistoryTypes'
    BY <1>17 DEF InstallEnd, HistoryTypes, history
  <2>6. (pc = "erasing" => todo # <<>>)'
    BY <1>17 DEF InstallEnd, Goto, ram, InstallReturns
  <2> QED
    BY <2>1, <2>2, <2>3, <2>4, <2>5, <2>6
<1>18. CASE InstallFail
  <2>1. MachineTypes'
    BY <1>18 DEF InstallFail, Goto, MachineTypes, Pcs, ImagePcs, InstallReturns
  <2>2. FlagTypes'
    BY <1>18 DEF InstallFail, Goto, FlagTypes, ram, history
  <2>3. DiskTypes'
    BY <1>18 DEF InstallFail, DiskTypes, disk
  <2>4. RamTypes'
    BY <1>18 DEF InstallFail, RamTypes, ram, Remembered
  <2>5. HistoryTypes'
    BY <1>18 DEF InstallFail, HistoryTypes, history, Fault, Mishaps
  <2>6. (pc = "erasing" => todo # <<>>)'
    BY <1>18 DEF InstallFail, Goto, ram, InstallReturns
  <2> QED
    BY <2>1, <2>2, <2>3, <2>4, <2>5, <2>6
<1>19. CASE Decide
  <2>1. MachineTypes'
    BY <1>19 DEF Decide, Goto, MachineTypes, Pcs, ImagePcs
  <2>2. FlagTypes'
    BY <1>19 DEF Decide, Goto, FlagTypes, ram, history
  <2>3. DiskTypes'
    BY <1>19 DEF Decide, DiskTypes, disk
  <2>4. RamTypes'
    BY <1>19 DEF Decide, RamTypes, ram
  <2>5. HistoryTypes'
    BY <1>19 DEF Decide, HistoryTypes, history
  <2>6. (pc = "erasing" => todo # <<>>)'
    BY <1>19 DEF Decide, Goto, ram
  <2> QED
    BY <2>1, <2>2, <2>3, <2>4, <2>5, <2>6
<1>20. CASE PromptTurn
  <2>1. MachineTypes'
    BY <1>20 DEF PromptTurn, Goto, MachineTypes, Pcs, ImagePcs
  <2>2. FlagTypes'
    BY <1>20 DEF PromptTurn, Goto, FlagTypes, ram, history
  <2>3. DiskTypes'
    BY <1>20 DEF PromptTurn, DiskTypes, disk
  <2>4. RamTypes'
    BY <1>20 DEF PromptTurn, RamTypes, ram
  <2>5. HistoryTypes'
    BY <1>20 DEF PromptTurn, HistoryTypes, history
  <2>6. (pc = "erasing" => todo # <<>>)'
    BY <1>20 DEF PromptTurn, Goto, ram
  <2> QED
    BY <2>1, <2>2, <2>3, <2>4, <2>5, <2>6
<1>21. CASE MenuReboot
  <2>1. MachineTypes'
    BY <1>21 DEF MenuReboot, Goto, MachineTypes, Pcs, ImagePcs
  <2>2. FlagTypes'
    BY <1>21 DEF MenuReboot, Goto, FlagTypes, ram, history
  <2>3. DiskTypes'
    BY <1>21 DEF MenuReboot, DiskTypes, disk
  <2>4. RamTypes'
    BY <1>21 DEF MenuReboot, RamTypes, ram
  <2>5. HistoryTypes'
    BY <1>21 DEF MenuReboot, HistoryTypes, history
  <2>6. (pc = "erasing" => todo # <<>>)'
    BY <1>21 DEF MenuReboot, Goto, ram
  <2> QED
    BY <2>1, <2>2, <2>3, <2>4, <2>5, <2>6
<1>22. ASSUME NEW why \in BOOLEAN, MenuRebootTo(why) PROVE TypeInv'
  <2>1. MachineTypes'
    BY <1>22 DEF MenuRebootTo, MachineTypes, Pcs, ImagePcs, Reboot
  <2>2. FlagTypes'
    BY <1>22 DEF MenuRebootTo, FlagTypes, ram, history, Reboot, ForgetRam
  <2>3. DiskTypes'
    BY <1>22 DEF MenuRebootTo, DiskTypes, disk
  <2>4. RamTypes'
    BY <1>22, ForgetRamTypes DEF MenuRebootTo, Reboot
  <2>5. HistoryTypes'
    BY <1>22 DEF MenuRebootTo, HistoryTypes, history
  <2>6. (pc = "erasing" => todo # <<>>)'
    BY <1>22 DEF MenuRebootTo, ram, Reboot
  <2> QED
    BY <2>1, <2>2, <2>3, <2>4, <2>5, <2>6
<1>23. ASSUME NEW roots \in {<<"DATA", "DATADATA", "CACHE">>, <<"CACHE">>}, MenuWipe(roots) PROVE TypeInv'
  <2>1. MachineTypes'
    BY <1>23 DEF MenuWipe, Goto, MachineTypes, Pcs, ImagePcs
  <2>2. FlagTypes'
    BY <1>23 DEF MenuWipe, Goto, FlagTypes, ram, history
  <2>3. DiskTypes'
    BY <1>23 DEF MenuWipe, DiskTypes, disk
  <2>4. RamTypes'
    BY <1>23, RootSequences DEF MenuWipe, RamTypes
  <2>5. HistoryTypes'
    BY <1>23 DEF MenuWipe, HistoryTypes, history
  <2>6. (pc = "erasing" => todo # <<>>)'
    BY <1>23 DEF MenuWipe, Goto, ram
  <2> QED
    BY <2>1, <2>2, <2>3, <2>4, <2>5, <2>6
<1>24. CASE MenuInstall
  <2>0. misc' \in Messages /\ faults' \in [Mishaps -> Nat]
    BY <1>24, MessagesTyped, SetMessageTypes DEF MenuInstall, DiskTypes,
       HistoryTypes
  <2>1. MachineTypes'
    BY <1>24 DEF MenuInstall, Goto, MachineTypes, Pcs, ImagePcs
  <2>2. FlagTypes'
    BY <1>24 DEF MenuInstall, Goto, FlagTypes, ram, history
  <2>3. DiskTypes'
    BY <1>24, <2>0 DEF MenuInstall, DiskTypes, disk
  <2>4. RamTypes'
    BY <1>24 DEF MenuInstall, RamTypes, ram
  <2>5. HistoryTypes'
    BY <1>24, <2>0 DEF MenuInstall, HistoryTypes, history
  <2>6. (pc = "erasing" => todo # <<>>)'
    BY <1>24 DEF MenuInstall, Goto, ram
  <2> QED
    BY <2>1, <2>2, <2>3, <2>4, <2>5, <2>6
<1>25. CASE FirmwareNone
  <2>1. MachineTypes'
    BY <1>25 DEF FirmwareNone, Goto, MachineTypes, Pcs, ImagePcs
  <2>2. FlagTypes'
    BY <1>25 DEF FirmwareNone, Goto, FlagTypes, ram, history
  <2>3. DiskTypes'
    BY <1>25 DEF FirmwareNone, DiskTypes, disk
  <2>4. RamTypes'
    BY <1>25 DEF FirmwareNone, RamTypes, ram
  <2>5. HistoryTypes'
    BY <1>25 DEF FirmwareNone, HistoryTypes, history
  <2>6. (pc = "erasing" => todo # <<>>)'
    BY <1>25 DEF FirmwareNone, Goto, ram
  <2> QED
    BY <2>1, <2>2, <2>3, <2>4, <2>5, <2>6
<1>26. CASE FirmwareMessage
  <2>0. misc' \in Messages /\ faults' \in [Mishaps -> Nat]
    BY <1>26, MessagesTyped, SetMessageTypes DEF FirmwareMessage, DiskTypes,
       HistoryTypes
  <2>1. MachineTypes'
    BY <1>26 DEF FirmwareMessage, Goto, MachineTypes, Pcs, ImagePcs
  <2>2. FlagTypes'
    BY <1>26 DEF FirmwareMessage, Goto, FlagTypes, ram, history
  <2>3. DiskTypes'
    BY <1>26, <2>0 DEF FirmwareMessage, DiskTypes, disk
  <2>4. RamTypes'
    BY <1>26 DEF FirmwareMessage, RamTypes, ram
  <2>5. HistoryTypes'
    BY <1>26, <2>0 DEF FirmwareMessage, HistoryTypes, history
  <2>6. (pc = "erasing" => todo # <<>>)'
    BY <1>26 DEF FirmwareMessage, Goto, ram
  <2> QED
    BY <2>1, <2>2, <2>3, <2>4, <2>5, <2>6
<1>27. ASSUME NEW s \in ImagePcs, WriteImage(s) PROVE TypeInv'
  <2>1. MachineTypes'
    BY <1>27 DEF WriteImage, Goto, MachineTypes, Pcs, ImagePcs, AfterImage
  <2>2. FlagTypes'
    BY <1>27 DEF WriteImage, Goto, FlagTypes, ram, history
  <2>3. DiskTypes'
    BY <1>27 DEF WriteImage, DiskTypes, disk, Written, Roots, ImagePcs
  <2>4. RamTypes'
    BY <1>27 DEF WriteImage, RamTypes, ram
  <2>5. HistoryTypes'
    BY <1>27 DEF WriteImage, HistoryTypes, history
  <2>6. (pc = "erasing" => todo # <<>>)'
    BY <1>27 DEF WriteImage, Goto, ram, AfterImage, ImagePcs
  <2> QED
    BY <2>1, <2>2, <2>3, <2>4, <2>5, <2>6
<1>28. ASSUME NEW s \in ImagePcs, WriteImageFail(s) PROVE TypeInv'
  <2>1. MachineTypes'
    BY <1>28 DEF WriteImageFail, CleanCacheThen, Goto, MachineTypes, Pcs, ImagePcs
  <2>2. FlagTypes'
    BY <1>28 DEF WriteImageFail, CleanCacheThen, Goto, FlagTypes, ram, history
  <2>3. DiskTypes'
    BY <1>28 DEF WriteImageFail, CleanCacheThen, DiskTypes, disk, Written, Roots,
       ImagePcs
  <2>4. RamTypes'
    BY <1>28 DEF WriteImageFail, CleanCacheThen, RamTypes, ram, Roots
  <2>5. HistoryTypes'
    BY <1>28 DEF WriteImageFail, CleanCacheThen, HistoryTypes, history, Fault,
       Mishaps
  <2>6. (pc = "erasing" => todo # <<>>)'
    BY <1>28 DEF WriteImageFail, CleanCacheThen, Goto, ram
  <2> QED
    BY <2>1, <2>2, <2>3, <2>4, <2>5, <2>6
<1>29. CASE Arm
  <2>0. misc' \in Messages /\ faults' \in [Mishaps -> Nat]
    BY <1>29, MessagesTyped, SetMessageTypes DEF Arm, CleanCacheThen, DiskTypes,
       HistoryTypes
  <2>1. MachineTypes'
    BY <1>29 DEF Arm, CleanCacheThen, Goto, MachineTypes, Pcs, ImagePcs, Reboot
  <2>2. FlagTypes'
    BY <1>29 DEF Arm, CleanCacheThen, Goto, FlagTypes, ram, history, Reboot,
       ForgetRam
  <2>3. DiskTypes'
    BY <1>29, <2>0 DEF Arm, CleanCacheThen, DiskTypes, disk
  <2>4. RamTypes'
    BY <1>29, ForgetRamTypes, RootSequences DEF Arm, CleanCacheThen, Reboot,
       RamTypes
  <2>5. HistoryTypes'
    BY <1>29, <2>0 DEF Arm, CleanCacheThen, HistoryTypes, history
  <2>6. (pc = "erasing" => todo # <<>>)'
    BY <1>29 DEF Arm, CleanCacheThen, Goto, ram, Reboot
  <2> QED
    BY <2>1, <2>2, <2>3, <2>4, <2>5, <2>6
<1>30. CASE FinishIntent
  <2>1. MachineTypes'
    BY <1>30 DEF FinishIntent, Goto, MachineTypes, Pcs, ImagePcs
  <2>2. FlagTypes'
    BY <1>30 DEF FinishIntent, Goto, FlagTypes, ram, history
  <2>3. DiskTypes'
    BY <1>30 DEF FinishIntent, DiskTypes, disk
  <2>4. RamTypes'
    BY <1>30 DEF FinishIntent, RamTypes, ram
  <2>5. HistoryTypes'
    BY <1>30 DEF FinishIntent, HistoryTypes, history
  <2>6. (pc = "erasing" => todo # <<>>)'
    BY <1>30 DEF FinishIntent, Goto, ram
  <2> QED
    BY <2>1, <2>2, <2>3, <2>4, <2>5, <2>6
<1>31. CASE FinishClear
  <2>0. misc' \in Messages /\ faults' \in [Mishaps -> Nat]
    BY <1>31, MessagesTyped, SetMessageTypes DEF FinishClear, DiskTypes,
       HistoryTypes
  <2>1. MachineTypes'
    BY <1>31 DEF FinishClear, Goto, MachineTypes, Pcs, ImagePcs
  <2>2. FlagTypes'
    BY <1>31 DEF FinishClear, Goto, FlagTypes, ram, history
  <2>3. DiskTypes'
    BY <1>31, <2>0 DEF FinishClear, DiskTypes, disk
  <2>4. RamTypes'
    BY <1>31 DEF FinishClear, RamTypes, ram
  <2>5. HistoryTypes'
    BY <1>31, <2>0 DEF FinishClear, HistoryTypes, history
  <2>6. (pc = "erasing" => todo # <<>>)'
    BY <1>31 DEF FinishClear, Goto, ram
  <2> QED
    BY <2>1, <2>2, <2>3, <2>4, <2>5, <2>6
<1>32. CASE FinishUnlink
  <2>1. MachineTypes'
    BY <1>32 DEF FinishUnlink, Goto, MachineTypes, Pcs, ImagePcs, Reboot
  <2>2. FlagTypes'
    BY <1>32 DEF FinishUnlink, Goto, FlagTypes, ram, history, Reboot, ForgetRam
  <2>3. DiskTypes'
    BY <1>32 DEF FinishUnlink, DiskTypes, disk
  <2>4. RamTypes'
    BY <1>32, ForgetRamTypes DEF FinishUnlink, Reboot, RamTypes, ram
  <2>5. HistoryTypes'
    BY <1>32 DEF FinishUnlink, HistoryTypes, history
  <2>6. (pc = "erasing" => todo # <<>>)'
    BY <1>32 DEF FinishUnlink, Goto, ram, Reboot
  <2> QED
    BY <2>1, <2>2, <2>3, <2>4, <2>5, <2>6
<1>33. CASE Crash
  <2>1. MachineTypes'
    BY <1>33 DEF Crash, MachineTypes, Pcs, ImagePcs, Reboot
  <2>2. FlagTypes'
    BY <1>33 DEF Crash, FlagTypes, ram, history, Reboot, ForgetRam
  <2>3. DiskTypes'
    BY <1>33, MessagesTyped DEF Crash, DiskTypes, disk
  <2>4. RamTypes'
    BY <1>33, ForgetRamTypes DEF Crash, Reboot
  <2>5. HistoryTypes'
    BY <1>33 DEF Crash, HistoryTypes, history, Fault, Mishaps
  <2>6. (pc = "erasing" => todo # <<>>)'
    BY <1>33 DEF Crash, ram, Reboot
  <2> QED
    BY <2>1, <2>2, <2>3, <2>4, <2>5, <2>6
<1>34. CASE UNCHANGED vars
  <2>1. MachineTypes'
    BY <1>34 DEF vars, MachineTypes, Pcs, ImagePcs
  <2>2. FlagTypes'
    BY <1>34 DEF vars, FlagTypes, ram, history
  <2>3. DiskTypes'
    BY <1>34 DEF vars, DiskTypes, disk
  <2>4. RamTypes'
    BY <1>34 DEF vars, RamTypes, ram
  <2>5. HistoryTypes'
    BY <1>34 DEF vars, HistoryTypes, history
  <2>6. (pc = "erasing" => todo # <<>>)'
    BY <1>34 DEF vars, ram
  <2> QED
    BY <2>1, <2>2, <2>3, <2>4, <2>5, <2>6
<1> QED
  BY <1>1, <1>2, <1>3, <1>4, <1>5, <1>6, <1>7, <1>8, <1>9, <1>10, <1>11, <1>12,
     <1>13, <1>14, <1>15, <1>16, <1>17, <1>18, <1>19, <1>20, <1>21, <1>22, <1>23,
     <1>24, <1>25, <1>26, <1>27, <1>28, <1>29, <1>30, <1>31, <1>32, <1>33, <1>34
     DEF Next, BootStep, RecoveryStep, Erase, Install, Firmware, Finish, Menu

\* Type correctness of recovery.c's state, in every reachable state.
THEOREM TypeCorrect == Spec => []TypeOK
<1>1. Spec => []TypeInv
  BY TypeInit, TypeNext, PTL DEF Spec
<1>2. TypeInv => TypeOK
  BY DEF TypeInv, TypeOK
<1> QED
  BY <1>1, <1>2, PTL

-----------------------------------------------------------------------------
(***************************************************************************)
(* The firmware hand-over.  FirmwareSafe is not inductive: that the image  *)
(* is complete when the bootloader is told to flash it is known from where *)
(* maybe_install_firmware_update() stands, and that nothing spoils it      *)
(* afterwards from the machine being in its bootloader until then.         *)
(***************************************************************************)
FirmwareInv ==
  /\ misc.command = "update" => /\ mode \in {"bootloader", "flashing"}
                                /\ image = "valid"
                                /\ "wipe_cache" \in misc.args
  /\ mode = "flashing" => misc.command = "update"
  /\ radio = "partial" => misc.command = "update"
  /\ mode = "recovery" /\ pc = "arm" => image = "valid"

\* A message without "update" is all recovery leaves behind on the way to Arm.
LEMMA HarmlessMessage ==
  ASSUME misc \in Messages, misc.command # "update",
         NEW m \in Messages, m.command # "update",
         NEW ok \in BOOLEAN, set_bootloader_message(m, ok)
  PROVE  misc'.command # "update"
  BY DEF set_bootloader_message, Blank

\* FirmwareInv is inductive.
LEMMA FirmwareNext == TypeInv /\ FirmwareInv /\ [Next]_vars => FirmwareInv'
<1> SUFFICES ASSUME TypeInv, FirmwareInv, [Next]_vars PROVE FirmwareInv'
  OBVIOUS
<1> misc \in Messages /\ RamTypes
  BY DEF TypeInv, DiskTypes
<1>1. ASSUME NEW req \in Requests, MainRequest(req) PROVE FirmwareInv'
  BY <1>1 DEF FirmwareInv, MainRequest, Reboot
<1>2. CASE BootMain \/ BootRecovery
  BY <1>2 DEF FirmwareInv, BootMain, BootRecovery, disk
<1>3. CASE Flash
  BY <1>3 DEF FirmwareInv, Flash, Messages
<1>4. CASE FlashDone
  BY <1>4 DEF FirmwareInv, FlashDone, Messages
<1>5. CASE get_args \/ Dispatch \/ DispatchNone \/ Decide
  BY <1>5 DEF FirmwareInv, get_args, Dispatch, DispatchNone, Decide, At, Goto, disk
<1>6. CASE write_back \/ MenuInstall \/ FinishClear
  <2>1. mode = "recovery" /\ UNCHANGED <<mode, image, radio>> /\ pc' # "arm"
    BY <1>6 DEF write_back, MenuInstall, FinishClear, At, Goto
  <2>2. misc'.command # "update"
    BY <1>6, <2>1, HarmlessMessage, MessagesTyped
       DEF FirmwareInv, write_back, MenuInstall, FinishClear, Message, Blank
  <2> QED
    BY <2>1, <2>2 DEF FirmwareInv
<1>7. CASE Erase
  BY <1>7 DEF FirmwareInv, TypeInv, RamTypes, Erase, EraseBegin, EraseEnd, EraseFail, EraseSkip,
              EraseDone, At, Goto, disk
<1>8. CASE Install
  BY <1>8 DEF FirmwareInv, Install, InstallCorrupt, InstallBegin, InstallEnd, InstallFail,
              InstallReturns, At, Goto, disk
<1>9. CASE PromptTurn \/ FinishIntent \/ FinishUnlink
  BY <1>9 DEF FirmwareInv, PromptTurn, FinishIntent, FinishUnlink, Reboot, At, Goto, disk
<1>10. CASE MenuReboot \/ FirmwareNone
  BY <1>10 DEF FirmwareInv, MenuReboot, FirmwareNone, At, Goto, disk
<1>11. ASSUME NEW why \in BOOLEAN, MenuRebootTo(why) PROVE FirmwareInv'
  BY <1>11 DEF FirmwareInv, MenuRebootTo, Reboot, At, disk
<1>12. ASSUME NEW roots, MenuWipe(roots) PROVE FirmwareInv'
  BY <1>12 DEF FirmwareInv, MenuWipe, At, Goto, disk
<1>13. CASE FirmwareMessage
  <2>1. mode = "recovery" /\ UNCHANGED <<mode, image, radio>> /\ pc' # "arm"
    BY <1>13 DEF FirmwareMessage, At, Goto
  <2>2. misc'.command # "update"
    BY <1>13, <2>1, HarmlessMessage, MessagesTyped DEF FirmwareInv, FirmwareMessage, Message
  <2> QED
    BY <2>1, <2>2 DEF FirmwareInv
<1>14. ASSUME NEW s \in ImagePcs, WriteImage(s) PROVE FirmwareInv'
  BY <1>14 DEF FirmwareInv, WriteImage, Written, AfterImage, ImagePcs, At, Goto
<1>15. ASSUME NEW s \in ImagePcs, WriteImageFail(s) PROVE FirmwareInv'
  BY <1>15 DEF FirmwareInv, WriteImageFail, CleanCacheThen, At, Goto
<1>16. CASE Arm
  <2>1. mode = "recovery" /\ image = "valid" /\ UNCHANGED <<image, radio>>
    BY <1>16 DEF FirmwareInv, Arm, At
  <2>2. misc.command # "update"
    BY <2>1 DEF FirmwareInv
  <2>3. CASE set_bootloader_message(Message("update", AfterFlash), TRUE) /\ Reboot(FALSE)
    BY <2>1, <2>2, <2>3 DEF FirmwareInv, set_bootloader_message, Message, AfterFlash, Reboot
  <2>4. CASE /\ set_bootloader_message(Message("update", AfterFlash), FALSE)
             /\ CleanCacheThen("finish")
    BY <2>1, <2>2, <2>4
       DEF FirmwareInv, set_bootloader_message, Blank, CleanCacheThen, Goto
  <2> QED
    BY <1>16, <2>3, <2>4 DEF Arm
<1>17. CASE Crash
  BY <1>17 DEF FirmwareInv, Crash, WritesMisc, Blank, Reboot
<1>18. CASE UNCHANGED vars
  BY <1>18 DEF FirmwareInv, vars, disk
<1> QED
  BY <1>1, <1>2, <1>3, <1>4, <1>5, <1>6, <1>7, <1>8, <1>9, <1>10, <1>11, <1>12, <1>13, <1>14,
     <1>15, <1>16, <1>17, <1>18 DEF Next, BootStep, RecoveryStep, Firmware, Finish, Menu

\* The bootloader never flashes an image that write_update_for_bootloader() has not
\* completed, nor without the order to wipe the cache afterwards, and a radio left
\* in mid-flash by a power loss is flashed again.
THEOREM FirmwareHandover == Spec => []FirmwareSafe
<1>1. Init => FirmwareInv
  BY DEF Init, FirmwareInv, Blank
<1>2. Spec => [](TypeInv /\ FirmwareInv)
  BY <1>1, TypeInit, TypeNext, FirmwareNext, PTL DEF Spec
<1>3. FirmwareInv => FirmwareSafe
  BY DEF FirmwareInv, FirmwareSafe
<1> QED
  BY <1>2, <1>3, PTL

-----------------------------------------------------------------------------
(***************************************************************************)
(* What recovery.c promises of a run that is interrupted and begun again:  *)
(* "These important scenarios must be safely restartable at any point".    *)
(***************************************************************************)

Running(S) == mode = "recovery" /\ pc \in S
Erasing == Running({"erase", "erasing"})

\* COMMAND_FILE can be read.
Live == "command" \in files /\ CacheMounts

\* Nobody was at the menu and no message was lost since the request.
Alone == ~attended /\ ~MessageLost

\* What main() has of its own request, in every state.
Steady ==
  /\ mode = "main" => misc.command = "none"
  /\ misc.command = "none" => misc = Blank
  /\ ~HasMisc => misc = Blank /\ pending = "none" /\ vol["CACHE"] # "raw"
  /\ command = request
  /\ "extendedcommand" \in files => request = {}
  /\ Running({"prompt", "menu"}) \/ (Erasing /\ cont = "prompt") => inMenu
  /\ inMenu => attended
  /\ mode # "recovery" => ~inMenu
  /\ Running(ImagePcs \cup {"arm"}) => pending # "none"
  /\ mode = "recovery" => pc # "off"

\* Each branch of main() erases its roots in order; COMMAND_FILE is gone at the menu
\* and once the update image is on the cache partition.
Shape ==
  /\ Erasing =>
       \/ /\ cont = "decide" /\ "update_package" \notin argv
          /\ todo \in {<<"DATA", "CACHE">>, <<"CACHE">>, <<>>}
          /\ todo = <<"DATA", "CACHE">> => "wipe_data" \in argv
       \/ /\ cont = "install" /\ "update_package" \in argv
          /\ todo \in {<<"DATA">>, <<>>}
          /\ todo = <<"DATA">> => "wipe_data" \in argv
       \/ cont = "finish" /\ todo \in {<<"CACHE">>, <<>>} /\ (faults["image"] > 0 \/ MessageLost)
       \/ cont = "prompt" /\ ~Live
  /\ Running({"install", "installing"}) => inMenu \/ "update_package" \in argv
  /\ Running({"menu"}) => ~Live
  /\ Running({"image_body", "image_header", "arm"}) => files = {}

\* While it works the message says how to begin again.
ToldInv ==
  Alone /\ HasMisc /\ mode = "recovery" =>
    /\ pc \in {"dispatch", "install", "installing", "decide", "firmware"} \/ (Erasing /\ cont # "finish")
         => misc = Message("boot-recovery", argv)
    /\ pc \in ImagePcs \cup {"arm"} \/ (Erasing /\ cont = "finish")
         => misc = Message("boot-recovery", AfterFlash)
    /\ pc \in {"finish", "clear"}
         => misc \in {Message("boot-recovery", argv), Message("boot-recovery", AfterFlash)}
    /\ pc = "unlink" => misc = Blank

\* Inductive invariant of NoHalfDone.
Half == vol["DATA"] = "partial" \/ system = "partial"
Own(args) == args \cap {"wipe_data", "update_package"} # {} => args = request

HalfExcused == attended \/ MessageLost \/ (Both /\ faults["format"] > 0)
HalfInv ==
  HalfExcused \/
    /\ Own(misc.args) /\ Own(argv)
    /\ vol["DATA"] = "partial" => "wipe_data" \in request
    /\ system = "partial" => "update_package" \in request
    /\ Half => /\ mode # "recovery" \/ pc \in {"get_args", "write_back"}
                    => HasMisc /\ misc.command = "boot-recovery" /\ misc.args \in {{}, request}
               /\ Running({"write_back", "dispatch", "decide"}) => argv \in {{}, request}
               /\ mode = "recovery" => pc \in {"get_args", "write_back", "dispatch", "erase", "erasing",
                                               "install", "installing", "decide"}
               /\ Running({"decide"}) => status = "error"
               /\ Erasing => argv = request /\ cont \in {"decide", "install"}
    /\ vol["DATA"] = "partial" =>
         /\ Erasing => \/ todo \in {<<"DATA", "CACHE">>, <<"DATA">>}
                       \/ cont = "decide" /\ status = "error"
         /\ ~Running({"install", "installing"})
         /\ ~HasMisc => Running({"erasing"}) /\ Head(todo) = "DATA"

\* Inductive invariant of CacheRepaired.
CacheExcused == attended \/ MessageLost \/ (faults["image"] > 0 /\ faults["format"] > 0)
CacheInv ==
  CacheMounts \/ CacheExcused \/
    /\ mode # "recovery" \/ pc \in {"get_args", "write_back"}
         => misc.command # "none" /\ "update_package" \notin misc.args
    /\ Running({"write_back", "dispatch", "decide"}) => "update_package" \notin argv
    /\ Erasing => \/ cont = "decide" /\ (status = "error" \/ todo \in {<<"DATA", "CACHE">>, <<"CACHE">>})
                  \/ cont = "finish" /\ todo = <<"CACHE">>
    /\ Running({"decide"}) => status = "error"
    /\ ~Running({"install", "installing", "firmware", "finish", "clear", "unlink"})

\* Inductive invariant of IntentDelivered.
Owed == Alone /\ {"update_package", "send_intent"} \subseteq request
Passed == "intent" \in files \/ ~CacheMounts
IntentInv ==
  Owed =>
    /\ misc.args # {} => "send_intent" \in misc.args
    /\ mode = "recovery" /\ pc # "get_args" =>
         \/ "send_intent" \in argv
         \/ argv = {} /\ pc \in {"write_back", "dispatch"}
         \/ pc = "decide" /\ status = "error"
         \/ pc \in {"clear", "unlink"}
    /\ system = "new" /\ misc.command = "none" /\ (mode # "recovery" \/ pc \in {"get_args", "write_back"})
         => Passed
    /\ Running({"clear", "unlink"}) => Passed

\* Inductive invariant of WipeOnce: the first half for runs without a power loss, the
\* second for --wipe_data alone, where the cache is erased after the data.
Again == Live /\ "wipe_data" \in request /\ vol["DATA"] = "clean"
OrderedWipe == HasMisc /\ ~MessageLost /\ ~Both /\ faults["format"] = 0 /\ Live /\ "wipe_data" \in request
WipeInv ==
  /\ faults["power"] = 0 /\ ~MessageLost /\ mode # "recovery" => ~Again
  /\ OrderedWipe =>
       /\ mode # "recovery" \/ pc \in {"get_args", "write_back"}
            => misc.args \in {{}, request} /\ (vol["DATA"] = "clean" => misc.command = "boot-recovery")
       /\ Running({"write_back"}) => argv = request
       /\ Running({"dispatch"}) \/ Erasing => argv = request /\ misc = Message("boot-recovery", argv)
       /\ Erasing => cont = "decide" /\ todo # <<>>
       /\ mode = "recovery" => pc \in {"get_args", "write_back", "dispatch", "erase", "erasing"}

\* Inductive invariant of FirmwareAfterInstall: after a failed installation main() goes to
\* the menu.
AbortInv ==
  /\ mode # "recovery" => pending = "none"
  /\ mode = "recovery" /\ ~attended /\ pending = "aborted" => pc = "decide" /\ status = "error"

\* What the queue of erase_root() calls looks like after each of them.
LEMMA Queues ==
  /\ Head(<<"DATA", "CACHE">>) = "DATA" /\ Tail(<<"DATA", "CACHE">>) = <<"CACHE">>
  /\ Head(<<"CACHE">>) = "CACHE" /\ Tail(<<"CACHE">>) = <<>>
  /\ Head(<<"DATA">>) = "DATA" /\ Tail(<<"DATA">>) = <<>>
  /\ <<"DATA", "CACHE">> # <<"CACHE">> /\ <<"DATA", "CACHE">> # <<"DATA">> /\ <<"DATA">> # <<"CACHE">>
  /\ <<"DATA", "CACHE">> # <<>> /\ <<"DATA">> # <<>> /\ <<"CACHE">> # <<>>
OBVIOUS

\* A mishap is counted.
LEMMA FaultCounts ==
  ASSUME faults \in [Mishaps -> Nat], NEW k \in Mishaps, Fault(k)
  PROVE  /\ faults'[k] = faults[k] + 1 /\ faults'[k] > 0
         /\ \A j \in Mishaps : faults'[j] >= faults[j] /\ (j # k => faults'[j] = faults[j])
BY DEF Fault

\* set_bootloader_message() works, or the message is lost.
LEMMA SentOrLost ==
  ASSUME TypeInv, NEW m, NEW ok \in BOOLEAN, set_bootloader_message(m, ok)
  PROVE  /\ MessageLost' \/ (ok /\ misc' = (IF HasMisc THEN m ELSE misc) /\ faults' = faults)
         /\ \A j \in Mishaps : faults'[j] >= faults[j]
         /\ misc' \in {misc, m, Blank}
         /\ ~HasMisc => misc' = misc
<1>1. faults \in [Mishaps -> Nat] /\ "misc_write" \in Mishaps
  BY DEF TypeInv, HistoryTypes, Mishaps
<1>2. CASE faults' = faults
  BY <1>1, <1>2 DEF set_bootloader_message, Fault
<1>3. CASE Fault("misc_write")
  BY <1>1, <1>3, FaultCounts DEF set_bootloader_message, MessageLost
<1> QED
  BY <1>2, <1>3 DEF set_bootloader_message

\* What main() knows of its request holds in every state.
LEMMA SteadyNext == TypeInv /\ FirmwareInv /\ Steady /\ [Next]_vars => Steady'
<1> SUFFICES ASSUME TypeInv, FirmwareInv, Steady, [Next]_vars PROVE Steady'
  OBVIOUS
<1> USE DEF TypeInv, MachineTypes, FlagTypes, RamTypes, At, Goto, ram, disk, history, Running,
    Erasing, Steady, ImagePcs
<1>1. ASSUME NEW req \in Requests, MainRequest(req) PROVE Steady'
  BY <1>1 DEF MainRequest, Reboot, ForgetRam, Blank, DiskTypes, Roots
<1>2. CASE BootMain
  BY <1>2 DEF BootMain
<1>3. CASE BootRecovery
  BY <1>3 DEF BootRecovery
<1>4. CASE Flash
  BY <1>4 DEF Flash, Blank, DiskTypes, Messages
<1>5. CASE FlashDone
  BY <1>5 DEF FlashDone, FirmwareInv, Blank, DiskTypes, Messages
<1>6. CASE get_args
  BY <1>6 DEF get_args, ArgsFrom
<1>7. CASE write_back
  BY <1>7, SentOrLost DEF write_back, Message, Blank
<1>8. CASE Dispatch
  BY <1>8 DEF Dispatch, RootsToErase
<1>9. CASE DispatchNone
  BY <1>9 DEF DispatchNone
<1>10. CASE EraseBegin
  BY <1>10 DEF EraseBegin, Roots, DiskTypes
<1>11. CASE EraseEnd
  BY <1>11 DEF EraseEnd, Roots, DiskTypes
<1>12. CASE EraseFail
  BY <1>12 DEF EraseFail
<1>13. CASE EraseSkip
  BY <1>13 DEF EraseSkip
<1>14. CASE EraseDone
  BY <1>14 DEF EraseDone
<1>15. CASE InstallCorrupt
  BY <1>15 DEF InstallCorrupt, InstallReturns
<1>16. CASE InstallBegin
  BY <1>16 DEF InstallBegin
<1>17. CASE InstallEnd
  BY <1>17 DEF InstallEnd, InstallReturns, Remembered
<1>18. CASE InstallFail
  BY <1>18 DEF InstallFail, InstallReturns, Remembered
<1>19. CASE Decide
  BY <1>19 DEF Decide
<1>20. CASE PromptTurn
  BY <1>20 DEF PromptTurn
<1>21. CASE MenuReboot
  BY <1>21 DEF MenuReboot
<1>22. ASSUME NEW why \in BOOLEAN, MenuRebootTo(why) PROVE Steady'
  BY <1>22 DEF MenuRebootTo, Reboot, ForgetRam
<1>23. ASSUME NEW roots \in {<<"DATA", "DATADATA", "CACHE">>, <<"CACHE">>}, MenuWipe(roots) PROVE Steady'
  BY <1>23 DEF MenuWipe
<1>24. CASE MenuInstall
  BY <1>24, SentOrLost DEF MenuInstall, Message, Blank
<1>25. CASE FirmwareNone
  BY <1>25 DEF FirmwareNone
<1>26. CASE FirmwareMessage
  BY <1>26, SentOrLost DEF FirmwareMessage, Message, Blank
<1>27. ASSUME NEW s \in ImagePcs, WriteImage(s) PROVE Steady'
  BY <1>27 DEF WriteImage, Written, AfterImage, ImagePcs
<1>28. ASSUME NEW s \in ImagePcs, WriteImageFail(s) PROVE Steady'
  BY <1>28 DEF WriteImageFail, CleanCacheThen, ImagePcs, Written, DiskTypes
<1>29. CASE Arm
  <2>1. misc' \in {misc, Blank, Message("update", AfterFlash)} /\ (~HasMisc => misc' = misc)
    BY <1>29, SentOrLost DEF Arm
  <2>2. mode = "recovery" /\ mode' # "main" /\ UNCHANGED <<vol, files, command, request, attended>>
    BY <1>29 DEF Arm, Reboot, CleanCacheThen
  <2>3. \/ mode' = "bootloader" /\ pc' = "off" /\ inMenu' = FALSE /\ pending' = "none"
        \/ mode' = "recovery" /\ pc' = "erase" /\ cont' = "finish" /\ UNCHANGED <<inMenu, pending>>
    BY <1>29 DEF Arm, Reboot, ForgetRam, CleanCacheThen
  <2> QED
    BY <2>1, <2>2, <2>3 DEF Message, Blank
<1>30. CASE FinishIntent
  BY <1>30 DEF FinishIntent
<1>31. CASE FinishClear
  BY <1>31, SentOrLost DEF FinishClear, Message, Blank
<1>32. CASE FinishUnlink
  BY <1>32 DEF FinishUnlink, Reboot, ForgetRam
<1>33. CASE Crash
  BY <1>33 DEF Crash, Reboot, ForgetRam, Blank
<1>34. CASE UNCHANGED vars
  BY <1>34 DEF vars
<1> QED
  BY <1>1, <1>2, <1>3, <1>4, <1>5, <1>6, <1>7, <1>8, <1>9, <1>10, <1>11, <1>12, <1>13, <1>14,
      <1>15, <1>16, <1>17, <1>18, <1>19, <1>20, <1>21, <1>22, <1>23, <1>24, <1>25, <1>26, <1>27,
          <1>28, <1>29, <1>30, <1>31, <1>32, <1>33, <1>34
     DEF Next, BootStep, RecoveryStep, Erase, Install, Firmware, Finish, Menu

\* COMMAND_FILE only comes from the main system, and does not come back by itself.
LEMMA LiveShrinks ==
  TypeInv /\ Steady /\ Next => (Live' => Live) \/ \E req \in Requests : MainRequest(req)
<1> SUFFICES ASSUME TypeInv, Steady, Next PROVE (Live' => Live) \/ \E req \in Requests : MainRequest(req)
  OBVIOUS
<1> USE DEF Live, CacheMounts, disk, history
<1>1. vol \in [Roots -> {"user", "partial", "clean", "raw"}] /\ "CACHE" \in Roots
  BY DEF TypeInv, DiskTypes, Roots
<1>2. BootStep => (Live' => Live)
  BY DEF BootStep, BootMain, BootRecovery, Flash, FlashDone
<1>3. CASE get_args \/ write_back \/ Dispatch \/ DispatchNone \/ Decide
  BY <1>3 DEF get_args, write_back, Dispatch, DispatchNone, Decide
<1>9. CASE Install
  BY <1>9 DEF Install, InstallCorrupt, InstallBegin, InstallEnd, InstallFail
<1>10. CASE Finish
  <2>1. CASE PromptTurn \/ FinishClear
    BY <2>1 DEF PromptTurn, FinishClear
  <2>2. CASE FinishIntent
    BY <2>2 DEF FinishIntent
  <2>3. CASE FinishUnlink
    BY <2>3 DEF FinishUnlink
  <2> QED
    BY <1>10, <2>1, <2>2, <2>3 DEF Finish
<1>4. CASE EraseBegin
  <2>1. CASE Head(todo) = "CACHE"
    BY <1>1, <1>4, <2>1 DEF EraseBegin, Steady
  <2>2. CASE Head(todo) # "CACHE"
    BY <1>1, <1>4, <2>2 DEF EraseBegin
  <2> QED
    BY <2>1, <2>2
<1>5. CASE EraseEnd
  <2>1. CASE Head(todo) = "CACHE"
    BY <1>1, <1>5, <2>1 DEF EraseEnd
  <2>2. CASE Head(todo) # "CACHE"
    BY <1>1, <1>5, <2>2 DEF EraseEnd
  <2> QED
    BY <2>1, <2>2
<1>6. CASE EraseFail \/ EraseSkip \/ EraseDone
  BY <1>6 DEF EraseFail, EraseSkip, EraseDone
<1>7. CASE Firmware
  BY <1>1, <1>7 DEF Firmware, FirmwareNone, FirmwareMessage, Arm, WriteImage, WriteImageFail
<1>8. CASE Menu \/ Crash
  BY <1>8 DEF Menu, MenuReboot, MenuRebootTo, MenuInstall, MenuWipe, Crash
<1> QED
  BY <1>2, <1>3, <1>4, <1>5, <1>6, <1>7, <1>8, <1>9, <1>10 DEF Next, RecoveryStep, Erase

\* The branches of main() keep to their order.
LEMMA ShapeNext == TypeInv /\ Steady /\ Shape /\ [Next]_vars => Shape'
<1> SUFFICES ASSUME TypeInv, Steady, Shape, [Next]_vars PROVE Shape'
  OBVIOUS
<1> USE DEF TypeInv, MachineTypes, FlagTypes, RamTypes, At, Goto, ram, disk, history, Running,
    Erasing, Shape, ImagePcs
<1>0. Erase => (Live' => Live)
  BY LiveShrinks DEF Next, RecoveryStep, Erase, EraseBegin, EraseEnd, EraseFail, EraseSkip,
      EraseDone,
    MainRequest
<1>1. ASSUME NEW req \in Requests, MainRequest(req) PROVE Shape'
  BY <1>1 DEF MainRequest, Reboot, ForgetRam
<1>2. CASE BootMain
  BY <1>2 DEF BootMain
<1>3. CASE BootRecovery
  BY <1>3 DEF BootRecovery
<1>4. CASE Flash
  BY <1>4 DEF Flash
<1>5. CASE FlashDone
  BY <1>5 DEF FlashDone
<1>6. CASE get_args
  BY <1>6 DEF get_args, ArgsFrom
<1>7. CASE write_back
  BY <1>7, SentOrLost DEF write_back
<1>8. CASE Dispatch
  BY <1>8, Queues DEF Dispatch, RootsToErase
<1>9. CASE DispatchNone
  BY <1>9 DEF DispatchNone
<1>10. CASE EraseBegin
  BY <1>10, Queues, <1>0 DEF EraseBegin, Erase, MessageLost
<1>11. CASE EraseEnd
  BY <1>11, Queues, <1>0 DEF EraseEnd, Erase, MessageLost
<1>12. CASE EraseFail
  BY <1>12, Queues, FaultCounts DEF EraseFail, MessageLost, Mishaps, HistoryTypes, Live,
      CacheMounts, DiskTypes, Roots
<1>13. CASE EraseSkip
  BY <1>13, Queues, FaultCounts DEF EraseSkip, MessageLost, Mishaps, HistoryTypes, Live,
      CacheMounts, DiskTypes, Roots
<1>14. CASE EraseDone
  BY <1>14 DEF EraseDone, Steady
<1>15. CASE InstallCorrupt
  BY <1>15 DEF InstallCorrupt, InstallReturns
<1>16. CASE InstallBegin
  BY <1>16 DEF InstallBegin
<1>17. CASE InstallEnd
  BY <1>17 DEF InstallEnd, InstallReturns, Remembered
<1>18. CASE InstallFail
  BY <1>18 DEF InstallFail, InstallReturns, Remembered
<1>19. CASE Decide
  BY <1>19 DEF Decide
<1>20. CASE PromptTurn
  BY <1>20 DEF PromptTurn
<1>21. CASE MenuReboot
  BY <1>21 DEF MenuReboot
<1>22. ASSUME NEW why \in BOOLEAN, MenuRebootTo(why) PROVE Shape'
  BY <1>22 DEF MenuRebootTo, Reboot, ForgetRam
<1>23. ASSUME NEW roots \in {<<"DATA", "DATADATA", "CACHE">>, <<"CACHE">>}, MenuWipe(roots) PROVE Shape'
  BY <1>23 DEF MenuWipe, Live, CacheMounts, DiskTypes, Roots
<1>24. CASE MenuInstall
  BY <1>24 DEF MenuInstall, Steady
<1>25. CASE FirmwareNone
  BY <1>25 DEF FirmwareNone
<1>26. CASE FirmwareMessage
  BY <1>26, SentOrLost DEF FirmwareMessage
<1>27. ASSUME NEW s \in ImagePcs, WriteImage(s) PROVE Shape'
  BY <1>27 DEF WriteImage, Written, AfterImage, ImagePcs
<1>28. ASSUME NEW s \in ImagePcs, WriteImageFail(s) PROVE Shape'
  BY <1>28, FaultCounts DEF WriteImageFail, CleanCacheThen, ImagePcs, Written, MessageLost,
      Mishaps, HistoryTypes
<1>29. CASE Arm
  BY <1>29, SentOrLost DEF Arm, CleanCacheThen, Reboot, ForgetRam
<1>30. CASE FinishIntent
  BY <1>30 DEF FinishIntent
<1>31. CASE FinishClear
  BY <1>31, SentOrLost DEF FinishClear
<1>32. CASE FinishUnlink
  BY <1>32 DEF FinishUnlink, Reboot, ForgetRam, Live, CacheMounts, DiskTypes, Roots
<1>33. CASE Crash
  BY <1>33 DEF Crash, Reboot, ForgetRam
<1>34. CASE UNCHANGED vars
  BY <1>34 DEF vars, Live, CacheMounts, MessageLost
<1> QED
  BY <1>1, <1>2, <1>3, <1>4, <1>5, <1>6, <1>7, <1>8, <1>9, <1>10, <1>11, <1>12, <1>13, <1>14,
      <1>15, <1>16, <1>17, <1>18, <1>19, <1>20, <1>21, <1>22, <1>23, <1>24, <1>25, <1>26, <1>27,
          <1>28, <1>29, <1>30, <1>31, <1>32, <1>33, <1>34
     DEF Next, BootStep, RecoveryStep, Erase, Install, Firmware, Finish, Menu

\* Mishaps are not forgotten.
LEMMA FaultsGrow == TypeInv /\ Next => \A j \in Mishaps : faults'[j] >= faults[j]
<1> SUFFICES ASSUME TypeInv, Next PROVE \A j \in Mishaps : faults'[j] >= faults[j]
  OBVIOUS
<1>1. faults \in [Mishaps -> Nat]
  BY DEF TypeInv, HistoryTypes
<1>2. (\E k \in Mishaps : Fault(k)) => \A j \in Mishaps : faults'[j] >= faults[j]
  BY <1>1, FaultCounts
<1>3. faults' = faults => \A j \in Mishaps : faults'[j] >= faults[j]
  BY <1>1
<1>4. (\E m : \E ok \in BOOLEAN : set_bootloader_message(m, ok))
        => \A j \in Mishaps : faults'[j] >= faults[j]
  BY SentOrLost
<1>5. CASE (\E req \in Requests : MainRequest(req)) \/ BootStep
  BY <1>3, <1>5 DEF MainRequest, BootStep, BootMain, BootRecovery, Flash, FlashDone, history
<1>6. CASE get_args \/ write_back \/ Dispatch \/ DispatchNone \/ Decide
  BY <1>2, <1>3, <1>4, <1>6 DEF get_args, write_back, Dispatch, DispatchNone, Decide, history,
      Mishaps
<1>7. CASE Erase \/ Install
  BY <1>2, <1>3, <1>7 DEF Erase, EraseBegin, EraseEnd, EraseFail, EraseSkip, EraseDone, Install,
    InstallCorrupt, InstallBegin, InstallEnd, InstallFail, history, Mishaps
<1>8. CASE Firmware
  BY <1>2, <1>3, <1>4, <1>8 DEF Firmware, FirmwareNone, FirmwareMessage, Arm, WriteImage,
      WriteImageFail,
    history, Mishaps
<1>9. CASE Finish \/ Menu
  BY <1>3, <1>4, <1>9 DEF Finish, PromptTurn, FinishIntent, FinishClear, FinishUnlink, Menu,
      MenuReboot,
    MenuRebootTo, MenuInstall, MenuWipe, history
<1>10. CASE Crash
  BY <1>2, <1>10 DEF Crash, Mishaps
<1> QED
  BY <1>5, <1>6, <1>7, <1>8, <1>9, <1>10 DEF Next, RecoveryStep

\* Nor is a lost message.
LEMMA LostStays == TypeInv /\ [Next]_vars => (MessageLost => MessageLost')
<1> SUFFICES ASSUME TypeInv, [Next]_vars, MessageLost PROVE MessageLost'
  OBVIOUS
<1>1. CASE Next
  <2>1. /\ faults'["misc_write"] >= faults["misc_write"] /\ faults'["power"] >= faults["power"]
        /\ faults \in [Mishaps -> Nat] /\ faults' \in [Mishaps -> Nat]
    BY <1>1, FaultsGrow, TypeNext DEF Mishaps, TypeInv, HistoryTypes
  <2> QED
    BY <2>1 DEF MessageLost, Mishaps
<1>2. CASE UNCHANGED vars
  BY <1>2 DEF vars, history, MessageLost
<1> QED
  BY <1>1, <1>2

\* A power loss leaves the message, or it is lost.
LEMMA CrashKeeps ==
  ASSUME TypeInv, Crash
  PROVE  MessageLost' \/ (HasMisc /\ misc' = misc)
<1>1. faults \in [Mishaps -> Nat] /\ "power" \in Mishaps /\ "misc_write" \in Mishaps
  BY DEF TypeInv, HistoryTypes, Mishaps
<1>2. CASE Fault("power") /\ UNCHANGED misc
  BY <1>1, <1>2, FaultCounts DEF MessageLost
<1>3. CASE Fault("misc_write")
  BY <1>1, <1>3, FaultCounts DEF MessageLost
<1> QED
  BY <1>2, <1>3 DEF Crash

\* While main() works the message says how to begin again.
LEMMA ToldNext == TypeInv /\ Steady /\ Shape /\ ToldInv /\ [Next]_vars => ToldInv'
<1> SUFFICES ASSUME TypeInv, Steady, Shape, ToldInv, [Next]_vars PROVE ToldInv'
  OBVIOUS
<1> USE DEF TypeInv, MachineTypes, FlagTypes, RamTypes, At, Goto, ram, disk, history, Running,
    Erasing, ToldInv, Alone, ImagePcs, AfterFlash
<1>0. MessageLost => MessageLost'
  BY LostStays
<1>1. ASSUME NEW req \in Requests, MainRequest(req) PROVE ToldInv'
  BY <1>1, <1>0 DEF MainRequest, Reboot, ForgetRam
<1>2. CASE BootMain
  BY <1>2, <1>0 DEF BootMain
<1>3. CASE BootRecovery
  BY <1>3, <1>0 DEF BootRecovery
<1>4. CASE Flash
  BY <1>4, <1>0 DEF Flash
<1>5. CASE FlashDone
  BY <1>5, <1>0 DEF FlashDone
<1>6. CASE get_args
  BY <1>6, <1>0 DEF get_args, ArgsFrom
<1>7. CASE write_back
  BY <1>7, <1>0, SentOrLost DEF write_back
<1>8. CASE Dispatch
  BY <1>8, <1>0 DEF Dispatch, RootsToErase
<1>9. CASE DispatchNone
  BY <1>9, <1>0 DEF DispatchNone
<1>10. CASE EraseBegin
  BY <1>10, <1>0 DEF EraseBegin
<1>11. CASE EraseEnd
  BY <1>11, <1>0 DEF EraseEnd
<1>12. CASE EraseFail
  BY <1>12, <1>0 DEF EraseFail
<1>13. CASE EraseSkip
  BY <1>13, <1>0 DEF EraseSkip
<1>14. CASE EraseDone
  BY <1>14, <1>0 DEF EraseDone, Steady, Shape
<1>15. CASE InstallCorrupt
  BY <1>15, <1>0 DEF InstallCorrupt, InstallReturns, Steady
<1>16. CASE InstallBegin
  BY <1>16, <1>0 DEF InstallBegin
<1>17. CASE InstallEnd
  BY <1>17, <1>0 DEF InstallEnd, InstallReturns, Remembered, Steady
<1>18. CASE InstallFail
  BY <1>18, <1>0 DEF InstallFail, InstallReturns, Remembered, Steady
<1>19. CASE Decide
  BY <1>19, <1>0 DEF Decide
<1>20. CASE PromptTurn
  BY <1>20, <1>0 DEF PromptTurn, Steady
<1>21. CASE MenuReboot
  BY <1>21, <1>0 DEF MenuReboot, Steady
<1>22. ASSUME NEW why \in BOOLEAN, MenuRebootTo(why) PROVE ToldInv'
  BY <1>22, <1>0 DEF MenuRebootTo, Reboot, ForgetRam, Steady
<1>23. ASSUME NEW roots \in {<<"DATA", "DATADATA", "CACHE">>, <<"CACHE">>}, MenuWipe(roots) PROVE ToldInv'
  BY <1>23, <1>0 DEF MenuWipe, Steady
<1>24. CASE MenuInstall
  BY <1>24, <1>0, SentOrLost DEF MenuInstall, Steady
<1>25. CASE FirmwareNone
  BY <1>25, <1>0 DEF FirmwareNone
<1>26. CASE FirmwareMessage
  BY <1>26, <1>0, SentOrLost DEF FirmwareMessage
<1>27. ASSUME NEW s \in ImagePcs, WriteImage(s) PROVE ToldInv'
  BY <1>27, <1>0 DEF WriteImage, Written, AfterImage, ImagePcs
<1>28. ASSUME NEW s \in ImagePcs, WriteImageFail(s) PROVE ToldInv'
  BY <1>28, <1>0 DEF WriteImageFail, CleanCacheThen, ImagePcs, Written
<1>29. CASE Arm
  BY <1>29, <1>0, SentOrLost DEF Arm, CleanCacheThen, Reboot, ForgetRam
<1>30. CASE FinishIntent
  BY <1>30, <1>0 DEF FinishIntent
<1>31. CASE FinishClear
  BY <1>31, <1>0, SentOrLost DEF FinishClear
<1>32. CASE FinishUnlink
  BY <1>32, <1>0 DEF FinishUnlink, Reboot, ForgetRam
<1>33. CASE Crash
  BY <1>33, <1>0, CrashKeeps DEF Crash, Reboot, ForgetRam
<1>34. CASE UNCHANGED vars
  BY <1>34 DEF vars, Message, MessageLost
<1> QED
  BY <1>1, <1>2, <1>3, <1>4, <1>5, <1>6, <1>7, <1>8, <1>9, <1>10, <1>11, <1>12, <1>13, <1>14,
      <1>15, <1>16, <1>17, <1>18, <1>19, <1>20, <1>21, <1>22, <1>23, <1>24, <1>25, <1>26, <1>27,
          <1>28, <1>29, <1>30, <1>31, <1>32, <1>33, <1>34
     DEF Next, BootStep, RecoveryStep, Erase, Install, Firmware, Finish, Menu

\* Only the main system makes a request, and only it forgets that somebody was at the menu.
LEMMA RequestKept ==
  TypeInv /\ Next => \/ \E req \in Requests : MainRequest(req)
                     \/ request' = request /\ command' = command /\ (attended => attended')
<1> USE DEF disk, history
<1>1. BootStep => UNCHANGED <<request, command, attended>>
  BY DEF BootStep, BootMain, BootRecovery, Flash, FlashDone
<1>2. get_args \/ write_back \/ Dispatch \/ DispatchNone => UNCHANGED <<request, command, attended>>
  BY DEF get_args, write_back, Dispatch, DispatchNone
<1>3. Erase => UNCHANGED <<request, command, attended>>
  BY DEF Erase, EraseBegin, EraseEnd, EraseFail, EraseSkip, EraseDone
<1>4. Install => UNCHANGED <<request, command, attended>>
  BY DEF Install, InstallCorrupt, InstallBegin, InstallEnd, InstallFail
<1>5. Decide => request' = request /\ command' = command /\ (attended => attended')
  BY DEF Decide
<1>6. Firmware => UNCHANGED <<request, command, attended>>
  BY DEF Firmware, FirmwareNone, FirmwareMessage, Arm, WriteImage, WriteImageFail
<1>7. Finish \/ Menu \/ Crash => UNCHANGED <<request, command, attended>>
  BY DEF Finish, PromptTurn, FinishIntent, FinishClear, FinishUnlink, Menu, MenuReboot,
      MenuRebootTo,
    MenuInstall, MenuWipe, Crash
<1> QED
  BY <1>1, <1>2, <1>3, <1>4, <1>5, <1>6, <1>7 DEF Next, RecoveryStep

\* What was half done is begun again, or the user is asked.
LEMMA HalfNext ==
  TypeInv /\ FirmwareInv /\ Steady /\ Shape /\ ToldInv /\ HalfInv /\ [Next]_vars => HalfInv'
<1> SUFFICES ASSUME TypeInv, FirmwareInv, Steady, Shape, ToldInv, HalfInv, [Next]_vars PROVE HalfInv'
  OBVIOUS
<1>1. CASE UNCHANGED vars
  BY <1>1 DEF vars, ram, disk, history, HalfInv, HalfExcused, Half, Own, Running, Erasing, Both,
      MessageLost
<1>2. ASSUME NEW req \in Requests, MainRequest(req) PROVE HalfInv'
  <2>1. misc' = Blank /\ mode' = "bootloader" /\ vol'["DATA"] # "partial" /\ system' = "old" /\ argv' = {}
    BY <1>2 DEF MainRequest, Reboot, ForgetRam, Steady, TypeInv, DiskTypes, Roots
  <2> QED
    BY <2>1 DEF HalfInv, Half, Own, Blank, Running, Erasing
<1> SUFFICES ASSUME Next, \A req \in Requests : ~MainRequest(req), ~HalfExcused' PROVE HalfInv'
  BY <1>1, <1>2 DEF HalfInv
<1>3. request' = request /\ ~attended /\ ~inMenu /\ ~MessageLost /\ ~(Both /\ faults["format"] > 0)
  <2>1. request' = request /\ (attended => attended')
    BY RequestKept
  <2>2. faults["format"] > 0 => faults'["format"] > 0
    BY FaultsGrow, TypeNext DEF Mishaps, TypeInv, HistoryTypes
  <2> QED
    BY <2>1, <2>2, LostStays DEF HalfExcused, Both, Steady
<1>4. ~MessageLost' /\ ~attended' /\ ~(Both /\ faults'["format"] > 0) /\ misc \in Messages
  BY <1>3 DEF HalfExcused, Both, TypeInv, DiskTypes
<1>5. /\ Own(misc.args) /\ Own(argv)
      /\ vol["DATA"] = "partial" => "wipe_data" \in request
      /\ system = "partial" => "update_package" \in request
      /\ Half => /\ mode # "recovery" \/ pc \in {"get_args", "write_back"}
                      => HasMisc /\ misc.command = "boot-recovery" /\ misc.args \in {{}, request}
                 /\ Running({"write_back", "dispatch", "decide"}) => argv \in {{}, request}
                 /\ mode = "recovery" => pc \in {"get_args", "write_back", "dispatch", "erase", "erasing",
                                                 "install", "installing", "decide"}
                 /\ Running({"decide"}) => status = "error"
                 /\ Erasing => argv = request /\ cont \in {"decide", "install"}
      /\ vol["DATA"] = "partial" =>
           /\ Erasing => \/ todo \in {<<"DATA", "CACHE">>, <<"DATA">>}
                         \/ cont = "decide" /\ status = "error"
           /\ ~Running({"install", "installing"})
           /\ ~HasMisc => Running({"erasing"}) /\ Head(todo) = "DATA"
  BY <1>3 DEF HalfInv, HalfExcused
<1>6. HasMisc /\ Running({"dispatch", "erase", "erasing", "install", "installing", "decide"})
        => misc.command = "boot-recovery" /\ (~Erasing \/ cont # "finish" => misc.args = argv)
  BY <1>3 DEF ToldInv, Alone, Message, Running, Erasing
<1>7. vol \in [Roots -> {"user", "partial", "clean", "raw"}] /\ "DATA" \in Roots /\ "CACHE" \in Roots
  BY DEF TypeInv, DiskTypes, Roots
<1> USE <1>3, <1>4, <1>5, <1>6 DEF HalfInv, HalfExcused, Half, Own, Running, Erasing, At, Goto,
                                  ram, disk, history
<1>10. CASE BootMain
  BY <1>10 DEF BootMain
<1>11. CASE BootRecovery
  BY <1>11 DEF BootRecovery
<1>12. CASE Flash
  BY <1>12 DEF Flash, Messages, FirmwareInv
<1>13. CASE FlashDone
  BY <1>13 DEF FlashDone, Messages, FirmwareInv
<1>14. CASE get_args
  BY <1>14 DEF get_args, ArgsFrom, Blank, Steady
<1>15. CASE write_back
  BY <1>15, SentOrLost DEF write_back, Message
<1>16. CASE Dispatch
  BY <1>16, Queues, <1>7, FaultCounts DEF Dispatch, RootsToErase
<1>17. CASE DispatchNone
  BY <1>17 DEF DispatchNone, Steady
<1>18. CASE EraseBegin
  <2>1. CASE Head(todo) = "DATA"
    <3>1. "wipe_data" \in argv /\ argv = request /\ cont \in {"decide", "install"}
          /\ todo \in {<<"DATA", "CACHE">>, <<"DATA">>} /\ (cont = "decide" => "update_package" \notin argv)
      BY <1>18, <2>1, Queues DEF EraseBegin, Shape, Steady
    <3> QED
      BY <1>18, <1>7, <2>1, <3>1 DEF EraseBegin
  <2>2. CASE Head(todo) # "DATA"
    BY <1>18, <1>7, <2>2, Queues DEF EraseBegin, Shape
  <2> QED
    BY <2>1, <2>2
<1>19. CASE EraseEnd
  BY <1>19, Queues, <1>7, FaultCounts DEF EraseEnd, Shape
<1>20. CASE EraseFail
  BY <1>20, Queues, <1>7, FaultCounts DEF EraseFail, Shape, TypeInv, HistoryTypes, Mishaps, Both
<1>21. CASE EraseSkip
  BY <1>21, Queues, <1>7, FaultCounts DEF EraseSkip, Shape, TypeInv, HistoryTypes, Mishaps, Both
<1>22. CASE EraseDone
  BY <1>22, Queues, <1>7, FaultCounts DEF EraseDone, Shape
<1>23. CASE InstallCorrupt
  BY <1>23 DEF InstallCorrupt, InstallReturns, Shape
<1>24. CASE InstallBegin
  BY <1>24 DEF InstallBegin, Shape
<1>25. CASE InstallEnd
  BY <1>25 DEF InstallEnd, InstallReturns, Remembered, Shape
<1>26. CASE InstallFail
  BY <1>26 DEF InstallFail, InstallReturns, Remembered, Shape
<1>27. CASE Decide
  BY <1>27 DEF Decide
<1>28. CASE PromptTurn
  BY <1>28 DEF PromptTurn, Steady
<1>29. CASE MenuReboot
  BY <1>29 DEF MenuReboot, Steady
<1>30. ASSUME NEW why \in BOOLEAN, MenuRebootTo(why) PROVE HalfInv'
  BY <1>30 DEF MenuRebootTo, Reboot, ForgetRam, Steady
<1>31. ASSUME NEW roots \in {<<"DATA", "DATADATA", "CACHE">>, <<"CACHE">>}, MenuWipe(roots) PROVE HalfInv'
  BY <1>31 DEF MenuWipe, Steady
<1>32. CASE MenuInstall
  BY <1>32, SentOrLost DEF MenuInstall, Steady
<1>33. CASE FirmwareNone
  BY <1>33 DEF FirmwareNone
<1>34. CASE FirmwareMessage
  BY <1>34, SentOrLost DEF FirmwareMessage, Message, AfterFlash
<1>35. ASSUME NEW s \in ImagePcs, WriteImage(s) PROVE HalfInv'
  BY <1>35, <1>7 DEF WriteImage, Written, AfterImage, ImagePcs
<1>36. ASSUME NEW s \in ImagePcs, WriteImageFail(s) PROVE HalfInv'
  BY <1>36, <1>7 DEF WriteImageFail, CleanCacheThen, ImagePcs, Written
<1>37. CASE Arm
  <2>1. ~Half
    BY <1>37 DEF Arm, ImagePcs
  <2>2. /\ UNCHANGED <<vol, system>> /\ argv' \in {{}, argv}
        /\ misc' \in {misc, Message("update", AfterFlash)}
    BY <1>37, SentOrLost DEF Arm, Reboot, ForgetRam, CleanCacheThen
  <2> QED
    BY <2>1, <2>2 DEF Message, AfterFlash
<1>38. CASE FinishIntent
  BY <1>38 DEF FinishIntent
<1>39. CASE FinishClear
  BY <1>39, SentOrLost DEF FinishClear, Blank
<1>40. CASE FinishUnlink
  BY <1>40 DEF FinishUnlink, Reboot, ForgetRam
<1>41. CASE Crash
  BY <1>41, CrashKeeps DEF Crash, Reboot, ForgetRam, Shape
<1> QED
  BY <1>10, <1>11, <1>12, <1>13, <1>14, <1>15, <1>16, <1>17, <1>18, <1>19, <1>20, <1>21, <1>22,
      <1>23, <1>24, <1>25, <1>26, <1>27, <1>28, <1>29, <1>30, <1>31, <1>32, <1>33, <1>34, <1>35,
          <1>36, <1>37, <1>38, <1>39, <1>40, <1>41
     DEF Next, BootStep, RecoveryStep, Erase, Install, Firmware, Finish, Menu

\* A cache that does not mount is erased on, or the message says to, or the user is asked.
LEMMA CacheNext ==
  TypeInv /\ FirmwareInv /\ Steady /\ Shape /\ ToldInv /\ CacheInv /\ [Next]_vars => CacheInv'
<1> SUFFICES ASSUME TypeInv, FirmwareInv, Steady, Shape, ToldInv, CacheInv, [Next]_vars PROVE CacheInv'
  OBVIOUS
<1>1. CASE UNCHANGED vars
  BY <1>1 DEF vars, ram, disk, history, CacheInv, CacheExcused, CacheMounts, Running, Erasing,
      MessageLost
<1>2. ASSUME NEW req \in Requests, MainRequest(req) PROVE CacheInv'
  <2>1. CacheMounts'
    BY <1>2 DEF MainRequest, CacheMounts, TypeInv, DiskTypes, Roots
  <2> QED
    BY <2>1 DEF CacheInv
<1> SUFFICES ASSUME Next, \A req \in Requests : ~MainRequest(req), ~CacheExcused', ~CacheMounts'
             PROVE  CacheInv'
  BY <1>1, <1>2 DEF CacheInv
<1>3. ~attended /\ ~inMenu /\ ~MessageLost /\ ~CacheExcused
  <2>1. attended => attended'
    BY RequestKept
  <2>2. /\ faults["format"] > 0 => faults'["format"] > 0
        /\ faults["image"] > 0 => faults'["image"] > 0
    BY FaultsGrow, TypeNext DEF Mishaps, TypeInv, HistoryTypes
  <2> QED
    BY <2>1, <2>2, LostStays DEF CacheExcused, Steady
<1>4. ~MessageLost' /\ ~attended' /\ ~(faults'["image"] > 0 /\ faults'["format"] > 0) /\ misc \in Messages
  BY <1>3 DEF CacheExcused, TypeInv, DiskTypes
<1>5. HasMisc
  BY SteadyNext, TypeNext DEF Steady, TypeInv, DiskTypes, CacheMounts, Roots
<1>6. ~CacheMounts =>
        /\ mode # "recovery" \/ pc \in {"get_args", "write_back"}
             => misc.command # "none" /\ "update_package" \notin misc.args
        /\ Running({"write_back", "dispatch", "decide"}) => "update_package" \notin argv
        /\ Erasing => \/ cont = "decide" /\ (status = "error" \/ todo \in {<<"DATA", "CACHE">>, <<"CACHE">>})
                      \/ cont = "finish" /\ todo = <<"CACHE">>
        /\ Running({"decide"}) => status = "error"
        /\ ~Running({"install", "installing", "firmware", "finish", "clear", "unlink"})
  BY <1>3 DEF CacheInv
<1>7. vol \in [Roots -> {"user", "partial", "clean", "raw"}] /\ "DATA" \in Roots /\ "CACHE" \in Roots
  BY DEF TypeInv, DiskTypes, Roots
<1>8. vol' = vol => ~CacheMounts
  BY DEF CacheMounts
<1> USE <1>3, <1>4, <1>5, <1>6, <1>8 DEF CacheInv, Running, Erasing, At, Goto, ram, disk, history
<1>10. CASE BootMain
  BY <1>10 DEF BootMain
<1>11. CASE BootRecovery
  BY <1>11 DEF BootRecovery
<1>12. CASE Flash
  BY <1>12 DEF Flash, Messages, FirmwareInv
<1>13. CASE FlashDone
  BY <1>13 DEF FlashDone, Messages, FirmwareInv
<1>14. CASE get_args
  BY <1>14 DEF get_args, ArgsFrom, Blank, Steady
<1>15. CASE write_back
  BY <1>15, SentOrLost DEF write_back, Message
<1>16. CASE Dispatch
  BY <1>16, Queues, <1>7, FaultCounts DEF Dispatch, RootsToErase
<1>17. CASE DispatchNone
  BY <1>17 DEF DispatchNone
<1>18. CASE EraseBegin
  <2>1. CASE Head(todo) = "CACHE"
    <3>1. cont \in {"decide", "finish"} /\ todo = <<"CACHE">>
      BY <1>18, <2>1, Queues DEF EraseBegin, Shape, Steady
    <3> QED
      BY <1>18, <3>1 DEF EraseBegin
  <2>2. CASE Head(todo) # "CACHE"
    <3>1. ~CacheMounts
      BY <1>18, <1>7, <2>2 DEF EraseBegin, CacheMounts
    <3> QED
      BY <1>18, <3>1 DEF EraseBegin
  <2> QED
    BY <2>1, <2>2
<1>19. CASE EraseEnd
  <2>1. Head(todo) # "CACHE" /\ ~CacheMounts
    BY <1>19, <1>7 DEF EraseEnd, CacheMounts
  <2>2. cont = "decide" /\ (status = "error" \/ todo = <<"DATA", "CACHE">>)
    BY <1>19, <2>1, Queues DEF EraseEnd
  <2> QED
    BY <1>19, <2>1, <2>2, Queues DEF EraseEnd
<1>20. CASE EraseFail
  <2>1. ~CacheMounts /\ faults \in [Mishaps -> Nat] /\ "format" \in Mishaps /\ "image" \in Mishaps
    BY <1>20 DEF EraseFail, TypeInv, HistoryTypes, Mishaps
  <2>2. faults'["format"] > 0 /\ faults'["image"] = faults["image"]
    BY <1>20, <2>1, FaultCounts DEF EraseFail
  <2>3. faults["image"] = 0
    BY <2>1, <2>2
  <2>4. cont = "decide"
    BY <1>20, <2>1, <2>3 DEF EraseFail, Shape
  <2> QED
    BY <1>20, <2>1, <2>4 DEF EraseFail
<1>21. CASE EraseSkip
  BY <1>21, Queues, <1>7, FaultCounts DEF EraseSkip
<1>22. CASE EraseDone
  BY <1>22, Queues, <1>7, FaultCounts DEF EraseDone, Shape
<1>23. CASE InstallCorrupt
  BY <1>23 DEF InstallCorrupt, InstallReturns
<1>24. CASE InstallBegin
  BY <1>24 DEF InstallBegin
<1>25. CASE InstallEnd
  BY <1>25 DEF InstallEnd, InstallReturns, Remembered
<1>26. CASE InstallFail
  BY <1>26 DEF InstallFail, InstallReturns, Remembered
<1>27. CASE Decide
  BY <1>27 DEF Decide
<1>28. CASE PromptTurn
  BY <1>28 DEF PromptTurn, Steady
<1>29. CASE MenuReboot
  BY <1>29 DEF MenuReboot, Steady
<1>30. ASSUME NEW why \in BOOLEAN, MenuRebootTo(why) PROVE CacheInv'
  BY <1>30 DEF MenuRebootTo, Reboot, ForgetRam, Steady
<1>31. ASSUME NEW roots \in {<<"DATA", "DATADATA", "CACHE">>, <<"CACHE">>}, MenuWipe(roots) PROVE CacheInv'
  BY <1>31 DEF MenuWipe, Steady
<1>32. CASE MenuInstall
  BY <1>32, SentOrLost DEF MenuInstall, Steady
<1>33. CASE FirmwareNone
  BY <1>33 DEF FirmwareNone
<1>34. CASE FirmwareMessage
  BY <1>34, SentOrLost DEF FirmwareMessage, Message, AfterFlash
<1>35. ASSUME NEW s \in ImagePcs, WriteImage(s) PROVE CacheInv'
  BY <1>35 DEF WriteImage, Written, AfterImage, ImagePcs, Steady
<1>36. ASSUME NEW s \in ImagePcs, WriteImageFail(s) PROVE CacheInv'
  BY <1>36 DEF WriteImageFail, CleanCacheThen, ImagePcs, Written
<1>37. CASE Arm
  <2>1. misc' = Message("update", AfterFlash) /\ mode' = "bootloader" /\ pc' = "off"
    BY <1>37, SentOrLost DEF Arm, Reboot
  <2> QED
    BY <2>1 DEF Message, AfterFlash
<1>38. CASE FinishIntent
  BY <1>38 DEF FinishIntent
<1>39. CASE FinishClear
  BY <1>39, SentOrLost DEF FinishClear, Blank
<1>40. CASE FinishUnlink
  BY <1>40 DEF FinishUnlink, Reboot, ForgetRam
<1>41. CASE Crash
  <2>1. misc' = misc /\ ~CacheMounts /\ mode' = "bootloader" /\ pc' = "off"
    BY <1>41, CrashKeeps DEF Crash, Reboot
  <2>2. CASE mode # "recovery" \/ pc \in {"get_args", "write_back"}
    BY <2>1, <2>2
  <2>3. CASE mode = "recovery" /\ (pc \in {"dispatch", "decide"} \/ (Erasing /\ cont = "decide"))
    <3>1. misc = Message("boot-recovery", argv) /\ "update_package" \notin argv
      BY <2>1, <2>3 DEF ToldInv, Alone, Shape
    <3> QED
      BY <2>1, <3>1 DEF Message
  <2>4. CASE mode = "recovery" /\ (pc \in ImagePcs \cup {"arm"} \/ (Erasing /\ cont = "finish"))
    <3>1. misc = Message("boot-recovery", AfterFlash)
      BY <2>4 DEF ToldInv, Alone
    <3> QED
      BY <2>1, <3>1 DEF Message, AfterFlash
  <2>5. CASE mode = "recovery" /\ pc \in {"prompt", "menu", "off"}
    BY <2>1, <2>5 DEF Steady, Shape
  <2> QED
    BY <2>1, <2>2, <2>3, <2>4, <2>5 DEF TypeInv, MachineTypes, Pcs
<1> QED
  BY <1>10, <1>11, <1>12, <1>13, <1>14, <1>15, <1>16, <1>17, <1>18, <1>19, <1>20, <1>21, <1>22,
      <1>23, <1>24, <1>25, <1>26, <1>27, <1>28, <1>29, <1>30, <1>31, <1>32, <1>33, <1>34, <1>35,
          <1>36, <1>37, <1>38, <1>39, <1>40, <1>41
     DEF Next, BootStep, RecoveryStep, Erase, Install, Firmware, Finish, Menu

\* The intent travels in argv and in the message until finish_recovery() writes it.
LEMMA IntentNext ==
  TypeInv /\ FirmwareInv /\ Steady /\ Shape /\ ToldInv /\ IntentInv /\ [Next]_vars => IntentInv'
<1> SUFFICES ASSUME TypeInv, FirmwareInv, Steady, Shape, ToldInv, IntentInv, [Next]_vars PROVE IntentInv'
  OBVIOUS
<1>1. CASE UNCHANGED vars
  BY <1>1 DEF vars, ram, disk, history, IntentInv, Owed, Alone, Passed, CacheMounts, Running,
      MessageLost
<1>2. ASSUME NEW req \in Requests, MainRequest(req) PROVE IntentInv'
  <2>1. misc' = Blank /\ mode' = "bootloader" /\ system' = "old"
    BY <1>2 DEF MainRequest, Reboot, Steady
  <2> QED
    BY <2>1 DEF IntentInv, Blank, Running
<1> SUFFICES ASSUME Next, \A req \in Requests : ~MainRequest(req), Owed' PROVE IntentInv'
  BY <1>1, <1>2 DEF IntentInv
<1>3. request' = request /\ ~attended /\ ~inMenu /\ ~MessageLost /\ "extendedcommand" \notin files
      /\ "send_intent" \in request /\ command = request
  BY RequestKept, LostStays DEF Owed, Alone, Steady
<1>4. ~MessageLost' /\ ~attended' /\ misc \in Messages
  BY DEF Owed, Alone, TypeInv, DiskTypes
<1>5. /\ misc.args # {} => "send_intent" \in misc.args
      /\ mode = "recovery" /\ pc # "get_args" =>
           \/ "send_intent" \in argv
           \/ argv = {} /\ pc \in {"write_back", "dispatch"}
           \/ pc = "decide" /\ status = "error"
           \/ pc \in {"clear", "unlink"}
      /\ system = "new" /\ misc.command = "none" /\ (mode # "recovery" \/ pc \in {"get_args", "write_back"})
           => Passed
      /\ Running({"clear", "unlink"}) => Passed
  BY <1>3 DEF IntentInv, Owed, Alone
<1> USE <1>3, <1>4, <1>5 DEF IntentInv, Running, At, Goto, ram, disk, history
<1>10. CASE BootMain
  BY <1>10 DEF BootMain, Passed, CacheMounts
<1>11. CASE BootRecovery
  BY <1>11 DEF BootRecovery, Passed, CacheMounts
<1>12. CASE Flash
  BY <1>12 DEF Flash, Messages, FirmwareInv
<1>13. CASE FlashDone
  BY <1>13 DEF FlashDone, Messages, FirmwareInv
<1>14. CASE get_args
  BY <1>14 DEF get_args, ArgsFrom, Blank, Passed, CacheMounts
<1>15. CASE write_back
  BY <1>15, SentOrLost DEF write_back, Message
<1>16. CASE Dispatch
  BY <1>16 DEF Dispatch, RootsToErase
<1>17. CASE DispatchNone
  BY <1>17 DEF DispatchNone
<1>18. CASE EraseBegin
  BY <1>18 DEF EraseBegin
<1>19. CASE EraseEnd
  BY <1>19 DEF EraseEnd
<1>20. CASE EraseFail
  BY <1>20 DEF EraseFail
<1>21. CASE EraseSkip
  BY <1>21 DEF EraseSkip
<1>22. CASE EraseDone
  BY <1>22 DEF EraseDone, Shape, Erasing
<1>23. CASE InstallCorrupt
  BY <1>23 DEF InstallCorrupt, InstallReturns
<1>24. CASE InstallBegin
  BY <1>24 DEF InstallBegin
<1>25. CASE InstallEnd
  BY <1>25 DEF InstallEnd, InstallReturns, Remembered
<1>26. CASE InstallFail
  BY <1>26 DEF InstallFail, InstallReturns, Remembered
<1>27. CASE Decide
  BY <1>27 DEF Decide
<1>28. CASE PromptTurn
  BY <1>28 DEF PromptTurn, Steady, Running
<1>29. CASE MenuReboot
  BY <1>29 DEF MenuReboot, Steady, Running
<1>30. ASSUME NEW why \in BOOLEAN, MenuRebootTo(why) PROVE IntentInv'
  BY <1>30 DEF MenuRebootTo, Reboot, ForgetRam, Steady, Running
<1>31. ASSUME NEW roots \in {<<"DATA", "DATADATA", "CACHE">>, <<"CACHE">>}, MenuWipe(roots) PROVE IntentInv'
  BY <1>31 DEF MenuWipe, Steady, Running
<1>32. CASE MenuInstall
  BY <1>32, SentOrLost DEF MenuInstall, Steady, Running
<1>33. CASE FirmwareNone
  BY <1>33 DEF FirmwareNone
<1>34. CASE FirmwareMessage
  BY <1>34, SentOrLost DEF FirmwareMessage, Message, AfterFlash
<1>35. ASSUME NEW s \in ImagePcs, WriteImage(s) PROVE IntentInv'
  BY <1>35 DEF WriteImage, Written, AfterImage, ImagePcs
<1>36. ASSUME NEW s \in ImagePcs, WriteImageFail(s) PROVE IntentInv'
  BY <1>36 DEF WriteImageFail, CleanCacheThen, ImagePcs, Written
<1>37. CASE Arm
  <2>1. misc' = (IF HasMisc THEN Message("update", AfterFlash) ELSE misc) /\ mode' = "bootloader" /\ pc' = "off"
    BY <1>37, SentOrLost DEF Arm, Reboot
  <2>2. HasMisc /\ "send_intent" \in argv
    BY <1>37 DEF Arm, Steady
  <2> QED
    BY <2>1, <2>2 DEF Message, AfterFlash
<1>38. CASE FinishIntent
  BY <1>38 DEF FinishIntent, Passed, CacheMounts
<1>39. CASE FinishClear
  BY <1>39, SentOrLost DEF FinishClear, Blank, Passed, CacheMounts
<1>40. CASE FinishUnlink
  BY <1>40 DEF FinishUnlink, Reboot, ForgetRam, Passed, CacheMounts
<1>41. CASE Crash
  <2>1. misc' = misc /\ HasMisc /\ mode' = "bootloader" /\ pc' = "off" /\ UNCHANGED <<system, files, vol>>
    BY <1>41, CrashKeeps DEF Crash, Reboot
  <2>2. misc.command = "none" => mode # "recovery" \/ pc \in {"get_args", "write_back", "unlink"}
    BY <2>1 DEF ToldInv, Alone, Message, Erasing, Steady, TypeInv, MachineTypes, Pcs
  <2> QED
    BY <2>1, <2>2 DEF Passed, CacheMounts
<1> QED
  BY <1>10, <1>11, <1>12, <1>13, <1>14, <1>15, <1>16, <1>17, <1>18, <1>19, <1>20, <1>21, <1>22,
      <1>23, <1>24, <1>25, <1>26, <1>27, <1>28, <1>29, <1>30, <1>31, <1>32, <1>33, <1>34, <1>35,
          <1>36, <1>37, <1>38, <1>39, <1>40, <1>41
     DEF Next, BootStep, RecoveryStep, Erase, Install, Firmware, Finish, Menu

\* --wipe_data is ordered by the message until the cache, and COMMAND_FILE with it, is erased.
LEMMA WipeNext == TypeInv /\ FirmwareInv /\ Steady /\ Shape /\ WipeInv /\ [Next]_vars => WipeInv'
<1> SUFFICES ASSUME TypeInv, FirmwareInv, Steady, Shape, WipeInv, [Next]_vars PROVE WipeInv'
  OBVIOUS
<1>1. CASE UNCHANGED vars
  BY <1>1 DEF vars, ram, disk, history, WipeInv, OrderedWipe, Again, Live, CacheMounts, Running,
      Erasing,
    Both, MessageLost
<1>2. ASSUME NEW req \in Requests, MainRequest(req) PROVE WipeInv'
  <2>1. misc' = Blank /\ mode' = "bootloader" /\ vol'["DATA"] # "clean"
    BY <1>2 DEF MainRequest, Reboot, Steady, TypeInv, DiskTypes, Roots
  <2> QED
    BY <2>1 DEF WipeInv, Again, Blank, Running, Erasing
<1> SUFFICES ASSUME Next, \A req \in Requests : ~MainRequest(req) PROVE WipeInv'
  BY <1>1, <1>2
<1>3. request' = request /\ (Live' => Live) /\ (MessageLost => MessageLost')
  BY RequestKept, LostStays, LiveShrinks
<1>4. /\ faults \in [Mishaps -> Nat] /\ faults' \in [Mishaps -> Nat]
      /\ faults'["power"] >= faults["power"] /\ faults'["format"] >= faults["format"]
  BY FaultsGrow, TypeNext DEF Mishaps, TypeInv, HistoryTypes
<1>5. vol \in [Roots -> {"user", "partial", "clean", "raw"}] /\ "DATA" \in Roots /\ "CACHE" \in Roots
      /\ misc \in Messages
  BY DEF TypeInv, DiskTypes, Roots
<1>6. ASSUME faults'["power"] = 0, ~MessageLost', mode' # "recovery" PROVE ~Again'
  <2>1. faults["power"] = 0 /\ ~MessageLost
    BY <1>3, <1>4, <1>6 DEF Mishaps
  <2>2. CASE mode # "recovery"
    <3>1. vol' = vol
      BY <1>5, <2>2 DEF Next, BootStep, BootMain, BootRecovery, Flash, FlashDone, RecoveryStep,
          At, get_args,
        write_back, Dispatch, DispatchNone, Erase, EraseBegin, EraseEnd, EraseFail, EraseSkip, EraseDone,
        Install, InstallCorrupt, InstallBegin, InstallEnd, InstallFail, Decide, Firmware, FirmwareNone,
        FirmwareMessage, WriteImage, WriteImageFail, Arm, Finish, PromptTurn, FinishIntent, FinishClear,
        FinishUnlink, Menu, MenuReboot, MenuRebootTo, MenuWipe, MenuInstall, Crash, disk
    <3> QED
      BY <1>3, <2>1, <2>2, <3>1 DEF WipeInv, Again
  <2>3. CASE mode = "recovery"
    <3>1. \/ FinishUnlink \/ Arm \/ Crash \/ \E why \in BOOLEAN : MenuRebootTo(why)
      BY <1>6, <2>3 DEF Next, BootStep, BootMain, BootRecovery, Flash, FlashDone, RecoveryStep,
          Goto, get_args,
        write_back, Dispatch, DispatchNone, Erase, EraseBegin, EraseEnd, EraseFail, EraseSkip, EraseDone,
        Install, InstallCorrupt, InstallBegin, InstallEnd, InstallFail, Decide, Firmware, FirmwareNone,
        FirmwareMessage, WriteImage, WriteImageFail, Finish, PromptTurn, FinishIntent, FinishClear,
        Menu, MenuReboot, MenuWipe, MenuInstall, CleanCacheThen
    <3>2. CASE FinishUnlink
      BY <3>2 DEF FinishUnlink, Again, Live, CacheMounts
    <3>3. CASE Arm
      BY <3>3, <2>3 DEF Arm, At, Shape, Running, Again, Live
    <3>4. CASE Crash
      <4>1. CASE Fault("power")
        BY <1>4, <1>6, <4>1, FaultCounts DEF Mishaps
      <4>2. CASE Fault("misc_write")
        BY <1>4, <1>6, <4>2, FaultCounts DEF Mishaps, MessageLost
      <4> QED
        BY <3>4, <4>1, <4>2 DEF Crash
    <3>5. ASSUME NEW why \in BOOLEAN, MenuRebootTo(why) PROVE ~Again'
      BY <3>5, <1>3 DEF MenuRebootTo, At, Shape, Running, Again
    <3> QED
      BY <3>1, <3>2, <3>3, <3>4, <3>5
  <2> QED
    BY <2>2, <2>3
<1> SUFFICES ASSUME OrderedWipe' PROVE WipeInv'
  BY <1>6 DEF WipeInv
<1>7. /\ HasMisc /\ ~MessageLost /\ ~MessageLost' /\ ~Both /\ Live /\ Live'
      /\ faults'["format"] = 0 /\ faults["format"] = 0
      /\ "wipe_data" \in request /\ "update_package" \notin request /\ command = request /\ request # {}
  BY <1>3, <1>4 DEF OrderedWipe, Both, Mishaps, Steady
<1>8. /\ mode # "recovery" \/ pc \in {"get_args", "write_back"}
           => misc.args \in {{}, request} /\ (vol["DATA"] = "clean" => misc.command = "boot-recovery")
      /\ Running({"write_back"}) => argv = request
      /\ Running({"dispatch"}) \/ Erasing => argv = request /\ misc = Message("boot-recovery", argv)
      /\ Erasing => cont = "decide" /\ todo # <<>>
      /\ mode = "recovery" => pc \in {"get_args", "write_back", "dispatch", "erase", "erasing"}
  BY <1>7 DEF WipeInv, OrderedWipe
<1>9. (faults'["power"] = 0 /\ ~MessageLost' /\ mode' # "recovery" => ~Again') /\ request' = request
  BY <1>3, <1>6
<1> USE <1>7, <1>8, <1>9 DEF WipeInv, Running, Erasing, At, Goto, ram, disk, history
<1>10. CASE BootMain
  BY <1>10 DEF BootMain
<1>11. CASE BootRecovery
  BY <1>11 DEF BootRecovery
<1>12. CASE Flash
  BY <1>12 DEF Flash, Messages, FirmwareInv
<1>13. CASE FlashDone
  BY <1>13 DEF FlashDone, Messages, FirmwareInv
<1>14. CASE get_args
  BY <1>14 DEF get_args, ArgsFrom, Blank, Live
<1>15. CASE write_back
  BY <1>15, SentOrLost DEF write_back, Message
<1>16. CASE Dispatch
  BY <1>16, Queues DEF Dispatch, RootsToErase
<1>17. CASE DispatchNone
  BY <1>17 DEF DispatchNone
<1>18. CASE EraseBegin
  BY <1>18, <1>5 DEF EraseBegin
<1>19. CASE EraseEnd
  <2>1. todo \in {<<"DATA", "CACHE">>, <<"CACHE">>}
    BY <1>19 DEF EraseEnd, Shape
  <2>2. Head(todo) # "CACHE"
    BY <1>19 DEF EraseEnd, Live
  <2>3. Tail(todo) # <<>>
    BY <2>1, <2>2, Queues
  <2> QED
    BY <1>19, <2>3 DEF EraseEnd
<1>20. CASE EraseFail
  <2>1. faults'["format"] > 0
    BY <1>20, <1>4, FaultCounts DEF EraseFail, Mishaps
  <2> QED
    BY <2>1
<1>21. CASE EraseSkip
  BY <1>21 DEF EraseSkip
<1>22. CASE EraseDone
  BY <1>22 DEF EraseDone
<1>23. CASE InstallCorrupt
  BY <1>23 DEF InstallCorrupt, InstallReturns
<1>24. CASE InstallBegin
  BY <1>24 DEF InstallBegin
<1>25. CASE InstallEnd
  BY <1>25 DEF InstallEnd, InstallReturns, Remembered
<1>26. CASE InstallFail
  BY <1>26 DEF InstallFail, InstallReturns, Remembered
<1>27. CASE Decide
  BY <1>27 DEF Decide
<1>28. CASE PromptTurn
  BY <1>28 DEF PromptTurn
<1>29. CASE MenuReboot
  BY <1>29 DEF MenuReboot
<1>30. ASSUME NEW why \in BOOLEAN, MenuRebootTo(why) PROVE WipeInv'
  BY <1>30 DEF MenuRebootTo, Reboot, ForgetRam
<1>31. ASSUME NEW roots \in {<<"DATA", "DATADATA", "CACHE">>, <<"CACHE">>}, MenuWipe(roots) PROVE WipeInv'
  BY <1>31 DEF MenuWipe
<1>32. CASE MenuInstall
  BY <1>32, SentOrLost DEF MenuInstall
<1>33. CASE FirmwareNone
  BY <1>33 DEF FirmwareNone
<1>34. CASE FirmwareMessage
  BY <1>34, SentOrLost DEF FirmwareMessage
<1>35. ASSUME NEW s \in ImagePcs, WriteImage(s) PROVE WipeInv'
  BY <1>35 DEF WriteImage, Written, AfterImage, ImagePcs
<1>36. ASSUME NEW s \in ImagePcs, WriteImageFail(s) PROVE WipeInv'
  BY <1>36 DEF WriteImageFail, CleanCacheThen, ImagePcs, Written
<1>37. CASE Arm
  BY <1>37, SentOrLost DEF Arm, CleanCacheThen, Reboot, ForgetRam
<1>38. CASE FinishIntent
  BY <1>38 DEF FinishIntent
<1>39. CASE FinishClear
  BY <1>39, SentOrLost DEF FinishClear
<1>40. CASE FinishUnlink
  BY <1>40 DEF FinishUnlink, Reboot, ForgetRam
<1>41. CASE Crash
  <2>1. misc' = misc /\ mode' = "bootloader" /\ pc' = "off" /\ vol' = vol
    BY <1>41, CrashKeeps DEF Crash, Reboot
  <2>2. misc.args \in {{}, request} /\ (vol["DATA"] = "clean" => misc.command = "boot-recovery")
    BY DEF Message
  <2> QED
    BY <2>1, <2>2
<1> QED
  BY <1>10, <1>11, <1>12, <1>13, <1>14, <1>15, <1>16, <1>17, <1>18, <1>19, <1>20, <1>21, <1>22,
      <1>23, <1>24, <1>25, <1>26, <1>27, <1>28, <1>29, <1>30, <1>31, <1>32, <1>33, <1>34, <1>35,
          <1>36, <1>37, <1>38, <1>39, <1>40, <1>41
     DEF Next, BootStep, RecoveryStep, Erase, Install, Firmware, Finish, Menu

\* What a failed installation remembered is given up at the menu: firmware.c never sees it by itself.
LEMMA AbortNext == TypeInv /\ FirmwareInv /\ Steady /\ AbortInv /\ [Next]_vars => AbortInv'
<1> SUFFICES ASSUME TypeInv, FirmwareInv, Steady, AbortInv, [Next]_vars PROVE AbortInv'
  OBVIOUS
<1> USE DEF AbortInv, At, Goto, ram, disk, history, Running
<1>1. ASSUME NEW req \in Requests, MainRequest(req) PROVE AbortInv'
  BY <1>1 DEF MainRequest, Reboot, ForgetRam
<1>2. CASE BootMain
  BY <1>2 DEF BootMain
<1>3. CASE BootRecovery
  BY <1>3 DEF BootRecovery
<1>4. CASE Flash
  BY <1>4 DEF Flash, FirmwareInv
<1>5. CASE FlashDone
  BY <1>5 DEF FlashDone, FirmwareInv
<1>6. CASE get_args
  BY <1>6 DEF get_args, ArgsFrom
<1>7. CASE write_back
  BY <1>7 DEF write_back
<1>8. CASE Dispatch
  BY <1>8 DEF Dispatch, RootsToErase
<1>9. CASE DispatchNone
  BY <1>9 DEF DispatchNone
<1>10. CASE EraseBegin
  BY <1>10 DEF EraseBegin
<1>11. CASE EraseEnd
  BY <1>11 DEF EraseEnd
<1>12. CASE EraseFail
  BY <1>12 DEF EraseFail
<1>13. CASE EraseSkip
  BY <1>13 DEF EraseSkip
<1>14. CASE EraseDone
  BY <1>14 DEF EraseDone
<1>15. CASE InstallCorrupt
  BY <1>15 DEF InstallCorrupt, InstallReturns, Steady, TypeInv, FlagTypes
<1>16. CASE InstallBegin
  BY <1>16 DEF InstallBegin
<1>17. CASE InstallEnd
  BY <1>17 DEF InstallEnd, InstallReturns, Remembered, Steady, TypeInv, FlagTypes
<1>18. CASE InstallFail
  BY <1>18 DEF InstallFail, InstallReturns, Remembered, Steady, TypeInv, FlagTypes
<1>19. CASE Decide
  BY <1>19 DEF Decide
<1>20. CASE PromptTurn
  BY <1>20 DEF PromptTurn
<1>21. CASE MenuReboot
  BY <1>21 DEF MenuReboot
<1>22. ASSUME NEW why \in BOOLEAN, MenuRebootTo(why) PROVE AbortInv'
  BY <1>22 DEF MenuRebootTo, Reboot, ForgetRam
<1>23. ASSUME NEW roots \in {<<"DATA", "DATADATA", "CACHE">>, <<"CACHE">>}, MenuWipe(roots) PROVE AbortInv'
  BY <1>23 DEF MenuWipe
<1>24. CASE MenuInstall
  BY <1>24 DEF MenuInstall, Steady
<1>25. CASE FirmwareNone
  BY <1>25 DEF FirmwareNone
<1>26. CASE FirmwareMessage
  BY <1>26 DEF FirmwareMessage
<1>27. ASSUME NEW s \in ImagePcs, WriteImage(s) PROVE AbortInv'
  BY <1>27 DEF WriteImage, Written, AfterImage, ImagePcs
<1>28. ASSUME NEW s \in ImagePcs, WriteImageFail(s) PROVE AbortInv'
  BY <1>28 DEF WriteImageFail, CleanCacheThen, ImagePcs, Written
<1>29. CASE Arm
  BY <1>29 DEF Arm, CleanCacheThen, Reboot, ForgetRam
<1>30. CASE FinishIntent
  BY <1>30 DEF FinishIntent
<1>31. CASE FinishClear
  BY <1>31 DEF FinishClear
<1>32. CASE FinishUnlink
  BY <1>32 DEF FinishUnlink, Reboot, ForgetRam
<1>33. CASE Crash
  BY <1>33 DEF Crash, Reboot, ForgetRam
<1>34. CASE UNCHANGED vars
  BY <1>34 DEF vars
<1> QED
  BY <1>1, <1>2, <1>3, <1>4, <1>5, <1>6, <1>7, <1>8, <1>9, <1>10, <1>11, <1>12, <1>13, <1>14,
      <1>15, <1>16, <1>17, <1>18, <1>19, <1>20, <1>21, <1>22, <1>23, <1>24, <1>25, <1>26, <1>27,
          <1>28, <1>29, <1>30, <1>31, <1>32, <1>33, <1>34
     DEF Next, BootStep, RecoveryStep, Erase, Install, Firmware, Finish, Menu

\* The main system runs, nothing was asked for and nothing has failed.
LEMMA RestartInit ==
  Init => Steady /\ Shape /\ ToldInv /\ HalfInv /\ CacheInv /\ IntentInv /\ WipeInv /\ AbortInv
<1> SUFFICES ASSUME Init
             PROVE  Steady /\ Shape /\ ToldInv /\ HalfInv /\ CacheInv /\ IntentInv /\ WipeInv /\ AbortInv
  OBVIOUS
<1> USE DEF Init, Running, Erasing, Blank
<1>1. mode = "main" /\ misc = Blank /\ vol["CACHE"] = "user" /\ vol["DATA"] = "user" /\ CacheMounts
  BY DEF Roots, CacheMounts
<1>2. Steady /\ Shape /\ ToldInv /\ AbortInv
  BY <1>1 DEF Steady, Shape, ToldInv, AbortInv
<1>3. HalfInv /\ CacheInv
  BY <1>1 DEF HalfInv, Half, Own, CacheInv
<1>4. IntentInv /\ WipeInv
  BY <1>1 DEF IntentInv, WipeInv, Again, OrderedWipe, Live
<1> QED
  BY <1>2, <1>3, <1>4

\* The invariants that the theorems below share.
RestartInv == TypeInv /\ FirmwareInv /\ Steady /\ Shape /\ ToldInv

\* A run of recovery.c keeps to them, whatever is interrupted or fails.
LEMMA RestartInvariant == Spec => []RestartInv
<1>1. Init => RestartInv
  BY TypeInit, RestartInit DEF RestartInv, FirmwareInv, Init, Blank
<1>2. RestartInv /\ [Next]_vars => RestartInv'
  BY TypeNext, FirmwareNext, SteadyNext, ShapeNext, ToldNext DEF RestartInv
<1> QED
  BY <1>1, <1>2, PTL DEF Spec

\* However often power is lost and whatever fails, main() begins again what was
\* interrupted: the main system does not come up on a half-erased /data or a
\* half-installed system, but for the cases NoHalfDone names.
THEOREM Restartable == Spec => []NoHalfDone
<1>1. RestartInv /\ HalfInv /\ [Next]_vars => HalfInv'
  BY HalfNext DEF RestartInv
<1>2. RestartInv /\ HalfInv => NoHalfDone
  BY DEF RestartInv, Steady, HalfInv, HalfExcused, Half, NoHalfDone, HalfDone
<1> QED
  BY <1>1, <1>2, RestartInvariant, RestartInit, PTL DEF Spec

\* The cache partition maybe_install_firmware_update() destroyed is formatted again
\* before the main system runs, but for the cases CacheRepaired names.
THEOREM CacheBack == Spec => []CacheRepaired
<1>1. RestartInv /\ CacheInv /\ [Next]_vars => CacheInv'
  BY CacheNext DEF RestartInv
<1>2. RestartInv /\ CacheInv => CacheRepaired
  BY DEF RestartInv, Steady, CacheInv, CacheExcused, CacheRepaired
<1> QED
  BY <1>1, <1>2, RestartInvariant, RestartInit, PTL DEF Spec

\* finish_recovery() hands the intent of a completed update to the main system, across
\* any number of restarts and the firmware detour that erases the cache.
THEOREM IntentReaches == Spec => []IntentDelivered
<1>1. RestartInv /\ IntentInv /\ [Next]_vars => IntentInv'
  BY IntentNext DEF RestartInv
<1>2. RestartInv /\ IntentInv => IntentDelivered
  BY DEF RestartInv, Steady, IntentInv, Owed, Alone, Passed, IntentDelivered
<1> QED
  BY <1>1, <1>2, RestartInvariant, RestartInit, PTL DEF Spec

\* A factory reset is carried out once: no --wipe_data is left in COMMAND_FILE for the
\* next recovery run once /data was erased, but for the cases WipeOnce names.
THEOREM WipedOnce == Spec => []WipeOnce
<1>1. RestartInv /\ WipeInv /\ [Next]_vars => WipeInv'
  BY WipeNext DEF RestartInv
<1>2. RestartInv /\ WipeInv => WipeOnce
  <2> SUFFICES ASSUME RestartInv, WipeInv, mode = "main", vol["DATA"] = "clean", CacheMounts,
                      "command" \in files, "wipe_data" \in command, ~MessageLost
               PROVE  (Both \/ faults["format"] > 0) /\ faults["power"] > 0
    BY DEF WipeOnce
  <2>1. Live /\ "wipe_data" \in request /\ Again /\ misc.command = "none"
    BY DEF Live, Again, RestartInv, Steady
  <2>2. faults["power"] \in Nat /\ faults["format"] \in Nat
    BY DEF RestartInv, TypeInv, HistoryTypes, Mishaps
  <2>3. faults["power"] > 0
    BY <2>1, <2>2 DEF WipeInv
  <2>4. ~OrderedWipe
    BY <2>1 DEF WipeInv
  <2>5. HasMisc
    BY <2>3 DEF MessageLost
  <2> QED
    BY <2>1, <2>2, <2>3, <2>4, <2>5 DEF OrderedWipe
<1> QED
  BY <1>1, <1>2, RestartInvariant, RestartInit, PTL DEF Spec

\* Only the last step of maybe_install_firmware_update() tells the bootloader to flash,
\* and it has the image of a package that installed to its end, unless a user who was at
\* the menu rebooted from there.
THEOREM FlashedAfterInstall == Spec => FirmwareAfterInstall
<1> DEFINE Ordered == misc'.command = "update" /\ misc.command # "update"
                        => pending = "complete" \/ attended
<1>1. RestartInv /\ AbortInv /\ [Next]_vars => AbortInv'
  BY AbortNext DEF RestartInv
<1>2. RestartInv /\ AbortInv /\ [Next]_vars => [Ordered]_vars
  <2> SUFFICES ASSUME RestartInv, AbortInv, Next, misc'.command = "update", misc.command # "update"
               PROVE  pending = "complete" \/ attended
    BY DEF vars
  <2>1. Arm
    <3>1. misc \in Messages /\ Blank.command # "update" /\ misc' # misc
          /\ \A a : Message("boot-recovery", a).command # "update"
      BY DEF RestartInv, TypeInv, DiskTypes, Blank, Message
    <3>2. ~(\E req \in Requests : MainRequest(req)) /\ ~BootStep
      BY <3>1 DEF MainRequest, BootStep, BootMain, BootRecovery, Flash, FlashDone, disk, Messages
    <3>3. ~(get_args \/ write_back \/ Dispatch \/ DispatchNone \/ Decide)
      BY <3>1, SentOrLost DEF get_args, write_back, Dispatch, DispatchNone, Decide, disk, RestartInv
    <3>4. ~(Erase \/ Install)
      BY <3>1 DEF Erase, EraseBegin, EraseEnd, EraseFail, EraseSkip, EraseDone, Install,
          InstallCorrupt,
        InstallBegin, InstallEnd, InstallFail, disk
    <3>5. ~Finish
      <4>1. ~FinishClear
        BY <3>1, SentOrLost DEF FinishClear, RestartInv
      <4>2. ~(PromptTurn \/ FinishIntent \/ FinishUnlink)
        BY <3>1 DEF PromptTurn, FinishIntent, FinishUnlink, disk
      <4> QED
        BY <4>1, <4>2 DEF Finish
    <3>7. ~Menu
      BY <3>1, SentOrLost DEF Menu, MenuReboot, MenuRebootTo, MenuWipe, MenuInstall, disk,
          RestartInv
    <3>8. ~Crash
      BY <3>1 DEF Crash
    <3>6. Firmware => Arm
      BY <3>1, SentOrLost DEF Firmware, FirmwareNone, FirmwareMessage, WriteImage,
          WriteImageFail, disk,
        RestartInv
    <3> QED
      BY <3>2, <3>3, <3>4, <3>5, <3>6, <3>7, <3>8 DEF Next, RecoveryStep
  <2>2. pending # "none" /\ pending \in {"none", "complete", "aborted"}
    BY <2>1 DEF Arm, At, RestartInv, Steady, Running, TypeInv, RamTypes
  <2> QED
    BY <2>1, <2>2 DEF Arm, At, AbortInv
<1> QED
  BY <1>1, <1>2, RestartInvariant, RestartInit, PTL DEF Spec, FirmwareAfterInstall
=============================================================================
