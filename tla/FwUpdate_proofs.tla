-------------------------- MODULE FwUpdate_proofs ---------------------------
(***************************************************************************)
(* Proofs about FwUpdate, for every number of sectors and pages, every set *)
(* of images and every number of retries.  They assume that power does not *)
(* fail between two pages of the first firmware sector (SafeFirstSector):  *)
(* without it the properties are false, see the run fwupdate_tears.        *)
(***************************************************************************)
EXTENDS FwUpdate, TLAPS

SafeFirstSector == FirstSectorTears = FALSE

\* The states in which the bootloader is committed to the update.
BlUpdating == {"bl_erase", "bl_copy", "bl_program", "bl_first"}

\* Sectors first..last of a partition are those of image i.
HasSectors(part, i, first, last) ==
    \A s \in first..last : part[s] = Content[i][s]

\* Pages below p of sector s are those of the source, the others are erased.
ProgrammedTo(part, s, p, sector) ==
    \A q \in Pages : part[s][q] = IF q < p THEN sector[q] ELSE Erased

\* The firmware partition, and what the bootloader has done to it.
FirmwareInv ==
    /\ IsValid(fw) /\ chip.pc # "bl_first" => Held(fw) # {}
    /\ ~IsValid(fw) => Held(upd) # {}
    /\ chip.pc \in BlUpdating => Held(upd) # {}
    /\ chip.pc \in FwStates \cup {"bl_start"} => IsValid(fw)
    /\ chip.pc # "usb"

CopyInv ==
    /\ chip.pc = "bl_copy" =>
          /\ chip.sec \in 1..NumSectors
          /\ fw[0] = EmptySector
          /\ \A s \in 1..(chip.sec - 1) : fw[s] = upd[s]
    /\ chip.pc = "bl_program" =>
          /\ chip.sec \in 1..(NumSectors - 1)
          /\ fw[0] = EmptySector
          /\ \A s \in 1..(chip.sec - 1) : fw[s] = upd[s]
          /\ ProgrammedTo(fw, chip.sec, chip.page, upd[chip.sec])
    /\ chip.pc = "bl_first" =>
          /\ chip.sec = 0
          /\ \A s \in 1..(NumSectors - 1) : fw[s] = upd[s]
          /\ ProgrammedTo(fw, 0, chip.page, upd[0])

\* The flash operations of the firmware: a sector after the first is only
\* written while the update partition is marked invalid.
FlashOpInv ==
    /\ chip.pc = "fw_erase" => chip.sec = 0
    /\ chip.pc \in {"fw_rewrite", "fw_program"} =>
          /\ chip.sec \in Sectors
          /\ chip.sec > 0 => ~IsValid(upd)
    /\ chip.pc = "fw_program" =>
          ProgrammedTo(upd, chip.sec, chip.page, Content[chip.img][chip.sec])
    /\ resp # "none" => chip.pc = "fw"

\* The reboot request.
RequestInv ==
    /\ scratch => Held(upd) # {}
    /\ scratch /\ chip.pc \in FwStates => pending
    /\ pending => chip.pc = "fw" /\ scratch
    /\ menu.pc \in CmdStates \ {"reboot"} => ~pending

\* How far the menu is, and what it may conclude from an answer.
UploadInv ==
    /\ menu.pc \in {"unlock", "erase", "size", "write", "first"} => ~menu.done
    /\ menu.pc = "erase" =>
          /\ chip.pc \in {"fw", "fw_erase"}
          /\ resp = "ok" => upd[0] = EmptySector
    /\ menu.pc = "size" => chip.pc = "fw" /\ upd[0] = EmptySector
    /\ menu.pc = "write" =>
          /\ menu.sec \in 1..(ImgLen[menu.img] - 1)
          /\ upd[0] = EmptySector
          /\ HasSectors(upd, menu.img, 1, menu.sec - 1)
          /\ chip.pc \in {"fw", "fw_rewrite", "fw_program"}
          /\ chip.pc # "fw" => chip.sec = menu.sec /\ chip.img = menu.img
          /\ resp = "ok" => upd[menu.sec] = Content[menu.img][menu.sec]
    /\ menu.pc = "first" =>
          /\ HasSectors(upd, menu.img, 1, ImgLen[menu.img] - 1)
          /\ chip.pc \in {"fw", "fw_rewrite", "fw_program"}
          /\ chip.pc # "fw" => chip.sec = 0 /\ chip.img = menu.img
          /\ resp = "ok" => upd[0] = Content[menu.img][0]
    /\ menu.pc = "relock" /\ menu.done =>
          chip.pc = "fw" /\ menu.img \in Held(upd)
    /\ menu.pc = "reboot" =>
          /\ chip.pc \in {"fw"} \cup BlStates
          /\ menu.done
          /\ menu.img \in Held(upd)

IInv == /\ TypeOK
        /\ FirmwareInv
        /\ CopyInv
        /\ FlashOpInv
        /\ RequestInv
        /\ UploadInv

-----------------------------------------------------------------------------
(***************************************************************************)
(* Facts about flash contents                                              *)
(***************************************************************************)

\* An erased sector and a torn one are sectors whose first page fails the
\* check of is_fw_valid.
LEMMA SectorFacts ==
    /\ 0 \in Sectors /\ 0 \in Pages
    /\ EmptySector \in [Pages -> Data] /\ TornSector \in [Pages -> Data]
    /\ EmptySector[0] \notin Boot2 /\ TornSector[0] \notin Boot2
  BY SizeAssumption, ImageAssumption DEF Sectors, Pages, EmptySector, TornSector

\* A partition that holds an image passes the check: is_fw_valid and
\* is_update_valid have no false negatives.
LEMMA HeldIsValid ==
    ASSUME NEW part \in Partition, Held(part) # {}
    PROVE  IsValid(part)
  <1>1. PICK i \in Images : \A s \in 0..(ImgLen[i] - 1) : part[s] = Content[i][s]
    BY DEF Held
  <1>2. 0 \in 0..(ImgLen[i] - 1)
    BY SizeAssumption, ImageAssumption
  <1>3. QED
    BY <1>1, <1>2, ImageAssumption DEF IsValid

\* What a partition holds depends on its contents only.
LEMMA HeldEqual ==
    ASSUME NEW p \in Partition, NEW q \in Partition,
           \A s \in Sectors : p[s] = q[s]
    PROVE  p = q
  BY DEF Partition

\* An erased sector is programmed up to its page 0.
LEMMA ErasedSector ==
    ASSUME NEW part, NEW s, NEW sector, part[s] = EmptySector
    PROVE  ProgrammedTo(part, s, 0, sector)
  BY DEF ProgrammedTo, EmptySector, Pages

\* Programming the next page of a sector that is programmed up to it.
LEMMA ProgramStep ==
    ASSUME NEW part \in Partition, NEW s \in Sectors, NEW p \in Pages,
           NEW sector \in [Pages -> Data],
           ProgrammedTo(part, s, p, sector)
    PROVE  LET new == ProgramPage(part, s, p, sector) IN
           /\ new \in Partition
           /\ \A t \in Sectors \ {s} : new[t] = part[t]
           /\ ProgrammedTo(new, s, p + 1, sector)
           /\ p = NumPages - 1 => new[s] = sector
  <1> DEFINE new == ProgramPage(part, s, p, sector)
  <1>1. part[s][p] = Erased
    BY DEF ProgrammedTo, Pages
  <1>2. Burnt(part[s][p], sector[p]) = sector[p]
    BY <1>1 DEF Burnt
  <1>3. new = [part EXCEPT ![s] = [part[s] EXCEPT ![p] = sector[p]]]
    BY <1>2 DEF ProgramPage
  <1>4. new \in Partition
    BY <1>3 DEF Partition
  <1>5. new[s] = [part[s] EXCEPT ![p] = sector[p]]
    BY <1>3 DEF Partition
  <1>6. \A t \in Sectors \ {s} : new[t] = part[t]
    BY <1>3 DEF Partition
  <1>7. \A q \in Pages : new[s][q] = IF q = p THEN sector[p] ELSE part[s][q]
    BY <1>5 DEF Partition
  <1> HIDE DEF new
  <1>8. ProgrammedTo(new, s, p + 1, sector)
    BY <1>7 DEF ProgrammedTo, Pages
  <1>9. ASSUME p = NumPages - 1 PROVE new[s] = sector
    <2>1. \A q \in Pages : new[s][q] = sector[q]
      BY <1>8, <1>9, SizeAssumption DEF ProgrammedTo, Pages
    <2>2. new[s] \in [Pages -> Data]
      BY <1>4 DEF Partition
    <2>3. QED
      BY <2>1, <2>2
  <1>10. QED
    BY <1>4, <1>6, <1>8, <1>9 DEF new

\* Every scene starts with its first attempt.
LEMMA GotoType ==
    ASSUME TypeOK, NEW scene \in MenuStates
    PROVE  /\ Goto(scene) \in MenuType
           /\ Goto(scene).pc = scene
           /\ Goto(scene).img = menu.img /\ Goto(scene).sec = menu.sec
           /\ Goto(scene).done = menu.done
  <1>1. menu \in MenuType /\ 0 \in 0..(Retries - 1)
    BY SizeAssumption DEF TypeOK
  <1>2. Goto(scene) \in MenuType
    BY <1>1 DEF Goto, MenuType
  <1>3. /\ Goto(scene).pc = scene
        /\ Goto(scene).img = menu.img /\ Goto(scene).sec = menu.sec
    BY <1>1 DEF Goto, MenuType
  <1>4. Goto(scene).done = menu.done
    BY <1>1 DEF Goto, MenuType
  <1>5. QED
    BY <1>2, <1>3, <1>4

-----------------------------------------------------------------------------
(***************************************************************************)
(* Every action preserves IInv                                             *)
(***************************************************************************)

LEMMA BlDecideInv == ASSUME IInv, BlDecide PROVE IInv'
  <1> USE DEF IInv, BlDecide
  <1>1. TypeOK'
    BY SizeAssumption DEF TypeOK, ChipType, FwStates, BlStates, Pages
  <1>2. FirmwareInv'
    BY HeldIsValid DEF TypeOK, ChipType, FirmwareInv, RequestInv, FlashOpInv, BlUpdating,
       FwStates, BlStates, Held, IsValid
  <1>3. CopyInv'
    BY DEF TypeOK, ChipType, CopyInv, ProgrammedTo
  <1>4. FlashOpInv'
    BY DEF TypeOK, ChipType, FlashOpInv, RequestInv, ProgrammedTo, IsValid, FwStates
  <1>5. RequestInv'
    BY DEF TypeOK, ChipType, RequestInv, FlashOpInv, FwStates, BlStates, CmdStates, Held
  <1>6. UploadInv'
    BY DEF TypeOK, ChipType, UploadInv, RequestInv, FlashOpInv, HasSectors, Held,
       FwStates, BlStates, CmdStates
  <1>7. QED
    BY <1>1, <1>2, <1>3, <1>4, <1>5, <1>6

LEMMA BlCopyDoneInv == ASSUME IInv, BlCopyDone PROVE IInv'
  <1> USE DEF IInv, BlCopyDone
  <1>1. TypeOK'
    <2>1. chip \in ChipType /\ 0 \in Pages /\ 0 \in 0..NumSectors
      BY SectorFacts, SizeAssumption DEF TypeOK
    <2>2. chip' \in ChipType
      BY <2>1 DEF ChipType, BlStates
    <2>3. QED
      BY <2>2 DEF TypeOK
  <1>2. FirmwareInv'
    BY HeldIsValid DEF TypeOK, ChipType, FirmwareInv, RequestInv, FlashOpInv, BlUpdating,
       FwStates, BlStates, Held, IsValid
  <1>3. CopyInv'
    <2>1. /\ chip.sec = NumSectors /\ fw[0] = EmptySector
          /\ \A s \in 1..(chip.sec - 1) : fw[s] = upd[s]
      BY DEF CopyInv
    <2>2. ProgrammedTo(fw, 0, 0, upd[0])
      BY <2>1 DEF ProgrammedTo, EmptySector, Pages
    <2>3. chip'.pc = "bl_first" /\ chip'.sec = 0 /\ chip'.page = 0
      BY DEF TypeOK, ChipType
    <2>4. QED
      BY <2>1, <2>2, <2>3 DEF CopyInv, ProgrammedTo
  <1>4. FlashOpInv'
    BY DEF TypeOK, ChipType, FlashOpInv, RequestInv, ProgrammedTo, IsValid, FwStates
  <1>5. RequestInv'
    BY DEF TypeOK, ChipType, RequestInv, FlashOpInv, FwStates, BlStates, CmdStates, Held
  <1>6. UploadInv'
    BY DEF TypeOK, ChipType, UploadInv, RequestInv, FlashOpInv, HasSectors, Held,
       FwStates, BlStates, CmdStates
  <1>7. QED
    BY <1>1, <1>2, <1>3, <1>4, <1>5, <1>6

LEMMA BlStartInv == ASSUME IInv, BlStart PROVE IInv'
  <1> USE DEF IInv, BlStart
  <1>1. TypeOK'
    BY SizeAssumption DEF TypeOK, ChipType, FwStates, BlStates, Pages
  <1>2. FirmwareInv'
    BY HeldIsValid DEF TypeOK, ChipType, FirmwareInv, RequestInv, FlashOpInv, BlUpdating,
       FwStates, BlStates, Held, IsValid
  <1>3. CopyInv'
    BY DEF TypeOK, ChipType, CopyInv, ProgrammedTo
  <1>4. FlashOpInv'
    BY DEF TypeOK, ChipType, FlashOpInv, RequestInv, ProgrammedTo, IsValid, FwStates
  <1>5. RequestInv'
    BY DEF TypeOK, ChipType, RequestInv, FlashOpInv, FwStates, BlStates, CmdStates, Held
  <1>6. UploadInv'
    BY DEF TypeOK, ChipType, UploadInv, RequestInv, FlashOpInv, HasSectors, Held,
       FwStates, BlStates, CmdStates
  <1>7. QED
    BY <1>1, <1>2, <1>3, <1>4, <1>5, <1>6

LEMMA WatchdogRebootInv == ASSUME IInv, WatchdogReboot PROVE IInv'
  <1> USE DEF IInv, WatchdogReboot
  <1>1. TypeOK'
    BY SizeAssumption DEF TypeOK, ChipType, FwStates, BlStates, Pages
  <1>2. FirmwareInv'
    BY HeldIsValid DEF TypeOK, ChipType, FirmwareInv, RequestInv, FlashOpInv, BlUpdating,
       FwStates, BlStates, Held, IsValid
  <1>3. CopyInv'
    BY DEF TypeOK, ChipType, CopyInv, ProgrammedTo
  <1>4. FlashOpInv'
    BY DEF TypeOK, ChipType, FlashOpInv, RequestInv, ProgrammedTo, IsValid, FwStates
  <1>5. RequestInv'
    BY DEF TypeOK, ChipType, RequestInv, FlashOpInv, FwStates, BlStates, CmdStates, Held
  <1>6. UploadInv'
    BY DEF TypeOK, ChipType, UploadInv, RequestInv, FlashOpInv, HasSectors, Held,
       FwStates, BlStates, CmdStates
  <1>7. QED
    BY <1>1, <1>2, <1>3, <1>4, <1>5, <1>6

LEMMA CommandLostInv == ASSUME IInv, CommandLost PROVE IInv'
  <1> USE DEF IInv, CommandLost
  <1>1. TypeOK'
    BY DEF TypeOK, MenuType
  <1>2. FirmwareInv'
    BY HeldIsValid DEF TypeOK, ChipType, FirmwareInv, RequestInv, FlashOpInv, BlUpdating,
       FwStates, BlStates, Held, IsValid
  <1>3. CopyInv'
    BY DEF TypeOK, ChipType, CopyInv, ProgrammedTo
  <1>4. FlashOpInv'
    BY DEF TypeOK, ChipType, FlashOpInv, RequestInv, ProgrammedTo, IsValid, FwStates
  <1>5. RequestInv'
    BY DEF TypeOK, ChipType, RequestInv, FlashOpInv, FwStates, BlStates, CmdStates, Held
  <1>6. UploadInv'
    BY DEF TypeOK, ChipType, UploadInv, RequestInv, FlashOpInv, HasSectors, Held,
       FwStates, BlStates, CmdStates
  <1>7. QED
    BY <1>1, <1>2, <1>3, <1>4, <1>5, <1>6

LEMMA PingOkInv == ASSUME IInv, PingOk PROVE IInv'
  <1> USE DEF IInv, PingOk
  <1>1. TypeOK'
    BY GotoType DEF TypeOK, CmdStates, MenuStates
  <1>2. FirmwareInv'
    BY HeldIsValid DEF TypeOK, ChipType, FirmwareInv, RequestInv, FlashOpInv, BlUpdating,
       FwStates, BlStates, Held, IsValid
  <1>3. CopyInv'
    BY DEF TypeOK, ChipType, CopyInv, ProgrammedTo
  <1>4. FlashOpInv'
    BY DEF TypeOK, ChipType, FlashOpInv, RequestInv, ProgrammedTo, IsValid, FwStates
  <1>5. RequestInv'
    BY GotoType DEF TypeOK, MenuType, ChipType, RequestInv, FlashOpInv, FwStates, BlStates,
       CmdStates, MenuStates, Held
  <1>6. UploadInv'
    BY GotoType DEF TypeOK, MenuType, UploadInv, RequestInv, FlashOpInv, HasSectors, Held,
       FwStates, BlStates, CmdStates, MenuStates
  <1>7. QED
    BY <1>1, <1>2, <1>3, <1>4, <1>5, <1>6

LEMMA PingTimeoutInv == ASSUME IInv, PingTimeout PROVE IInv'
  <1> USE DEF IInv, PingTimeout
  <1>1. TypeOK'
    BY GotoType DEF TypeOK, CmdStates, MenuStates
  <1>2. FirmwareInv'
    BY HeldIsValid DEF TypeOK, ChipType, FirmwareInv, RequestInv, FlashOpInv, BlUpdating,
       FwStates, BlStates, Held, IsValid
  <1>3. CopyInv'
    BY DEF TypeOK, ChipType, CopyInv, ProgrammedTo
  <1>4. FlashOpInv'
    BY DEF TypeOK, ChipType, FlashOpInv, RequestInv, ProgrammedTo, IsValid, FwStates
  <1>5. RequestInv'
    BY GotoType DEF TypeOK, MenuType, ChipType, RequestInv, FlashOpInv, FwStates, BlStates,
       CmdStates, MenuStates, Held
  <1>6. UploadInv'
    BY GotoType DEF TypeOK, MenuType, UploadInv, RequestInv, FlashOpInv, HasSectors, Held,
       FwStates, BlStates, CmdStates, MenuStates
  <1>7. QED
    BY <1>1, <1>2, <1>3, <1>4, <1>5, <1>6

LEMMA DismissInv == ASSUME IInv, Dismiss PROVE IInv'
  <1> USE DEF IInv, Dismiss
  <1>1. TypeOK'
    BY GotoType DEF TypeOK, CmdStates, MenuStates
  <1>2. FirmwareInv'
    BY HeldIsValid DEF TypeOK, ChipType, FirmwareInv, RequestInv, FlashOpInv, BlUpdating,
       FwStates, BlStates, Held, IsValid
  <1>3. CopyInv'
    BY DEF TypeOK, ChipType, CopyInv, ProgrammedTo
  <1>4. FlashOpInv'
    BY DEF TypeOK, ChipType, FlashOpInv, RequestInv, ProgrammedTo, IsValid, FwStates
  <1>5. RequestInv'
    BY GotoType DEF TypeOK, MenuType, ChipType, RequestInv, FlashOpInv, FwStates, BlStates,
       CmdStates, MenuStates, Held
  <1>6. UploadInv'
    BY GotoType DEF TypeOK, MenuType, UploadInv, RequestInv, FlashOpInv, HasSectors, Held,
       FwStates, BlStates, CmdStates, MenuStates
  <1>7. QED
    BY <1>1, <1>2, <1>3, <1>4, <1>5, <1>6

LEMMA ConsoleResetInv == ASSUME IInv, ConsoleReset PROVE IInv'
  <1> USE DEF IInv, ConsoleReset, MenuRestarted
  <1>1. TypeOK'
    <2>1. Goto("idle") \in MenuType
      BY GotoType DEF MenuStates
    <2>2. menu' \in MenuType
      BY <2>1 DEF MenuType
    <2>3. QED
      BY <2>2 DEF TypeOK, ChipType, BlStates
  <1>2. FirmwareInv'
    BY HeldIsValid DEF TypeOK, ChipType, FirmwareInv, RequestInv, FlashOpInv, BlUpdating,
       FwStates, BlStates, Held, IsValid
  <1>3. CopyInv'
    BY DEF TypeOK, ChipType, CopyInv, ProgrammedTo
  <1>4. FlashOpInv'
    BY DEF TypeOK, ChipType, FlashOpInv, RequestInv, ProgrammedTo, IsValid, FwStates
  <1>5. RequestInv'
    BY GotoType DEF TypeOK, MenuType, ChipType, RequestInv, FlashOpInv, FwStates, BlStates,
       CmdStates, MenuStates, Held
  <1>6. UploadInv'
    BY GotoType DEF TypeOK, MenuType, UploadInv, RequestInv, FlashOpInv, HasSectors, Held,
       FwStates, BlStates, CmdStates, MenuStates
  <1>7. QED
    BY <1>1, <1>2, <1>3, <1>4, <1>5, <1>6

LEMMA StartUpdateInv == ASSUME IInv, NEW i \in Images, StartUpdate(i) PROVE IInv'
  <1> USE DEF IInv, StartUpdate
  <1>1. TypeOK'
    <2>1. Goto("unlock") \in MenuType /\ 0 \in 0..NumSectors
      BY GotoType, SizeAssumption DEF MenuStates, CmdStates
    <2>2. menu' \in MenuType
      BY <2>1 DEF MenuType
    <2>3. QED
      BY <2>2 DEF TypeOK
  <1>2. FirmwareInv'
    BY HeldIsValid DEF TypeOK, ChipType, FirmwareInv, RequestInv, FlashOpInv, BlUpdating,
       FwStates, BlStates, Held, IsValid
  <1>3. CopyInv'
    BY DEF TypeOK, ChipType, CopyInv, ProgrammedTo
  <1>4. FlashOpInv'
    BY DEF TypeOK, ChipType, FlashOpInv, RequestInv, ProgrammedTo, IsValid, FwStates
  <1>5. RequestInv'
    BY GotoType DEF TypeOK, MenuType, ChipType, RequestInv, FlashOpInv, FwStates, BlStates,
       CmdStates, MenuStates, Held
  <1>6. UploadInv'
    BY GotoType DEF TypeOK, MenuType, UploadInv, RequestInv, FlashOpInv, HasSectors, Held,
       FwStates, BlStates, CmdStates, MenuStates
  <1>7. QED
    BY <1>1, <1>2, <1>3, <1>4, <1>5, <1>6

LEMMA BlEraseFirstInv == ASSUME IInv, BlEraseFirst PROVE IInv'
  <1> USE DEF IInv, BlEraseFirst
  <1>1. TypeOK'
    <2>1. fw' \in Partition
      BY SectorFacts DEF TypeOK, Partition
    <2>2. chip \in ChipType /\ 1 \in 0..NumSectors
      BY SizeAssumption DEF TypeOK
    <2>3. chip' \in ChipType
      BY <2>2 DEF ChipType, BlStates
    <2>4. QED
      BY <2>1, <2>3 DEF TypeOK
  <1>2. fw'[0] = EmptySector /\ ~IsValid(fw') /\ chip'.pc = "bl_copy" /\ chip'.sec = 1
    BY SectorFacts DEF TypeOK, Partition, ChipType, IsValid
  <1>3. FirmwareInv'
    BY <1>2 DEF FirmwareInv, BlUpdating, FwStates, IsValid
  <1>4. CopyInv'
    BY <1>2, SizeAssumption DEF CopyInv
  <1>5. FlashOpInv'
    BY <1>2 DEF FlashOpInv
  <1>6. RequestInv'
    BY <1>2 DEF RequestInv, FwStates, Held
  <1>7. UploadInv'
    BY <1>2 DEF UploadInv, HasSectors, BlStates, Held
  <1>8. QED
    BY <1>1, <1>3, <1>4, <1>5, <1>6, <1>7

LEMMA BlCopyInv == ASSUME IInv, BlCopy PROVE IInv'
  <1> USE DEF IInv, BlCopy
  <1>1. /\ chip.sec \in 1..(NumSectors - 1) /\ fw[0] = EmptySector
        /\ \A s \in 1..(chip.sec - 1) : fw[s] = upd[s]
    BY SizeAssumption DEF CopyInv
  <1>2. /\ chip'.pc \in {"bl_copy", "bl_program"} /\ chip' \in ChipType
        /\ fw' \in Partition /\ fw'[0] = EmptySector
    <2>1. /\ chip \in ChipType /\ fw \in Partition
          /\ chip.sec + 1 \in 0..NumSectors /\ chip.sec \in Sectors \ {0}
      BY <1>1, SizeAssumption DEF TypeOK, Sectors
    <2>2. CASE fw[chip.sec] = upd[chip.sec]
      <3>1. fw' = fw /\ chip' = [chip EXCEPT !.sec = chip.sec + 1]
        BY <2>2
      <3>2. QED
        BY <1>1, <2>1, <3>1 DEF ChipType
    <2>3. CASE fw[chip.sec] # upd[chip.sec]
      <3>1. /\ fw' = [fw EXCEPT ![chip.sec] = EmptySector]
            /\ chip' = [chip EXCEPT !.pc = "bl_program", !.page = 0]
        BY <2>3
      <3>2. chip' \in ChipType /\ chip'.pc = "bl_program"
        BY <2>1, <3>1, SectorFacts DEF ChipType, BlStates
      <3>3. fw' \in Partition /\ fw'[0] = EmptySector
        BY <1>1, <2>1, <3>1, SectorFacts DEF Partition
      <3>4. QED
        BY <3>2, <3>3
    <2>4. QED
      BY <2>2, <2>3
  <1>3. TypeOK'
    BY <1>2 DEF TypeOK
  <1>4. FirmwareInv'
    <2>1. ~IsValid(fw')
      BY <1>2, SectorFacts DEF IsValid
    <2>2. QED
      BY <1>2, <2>1 DEF FirmwareInv, BlUpdating, FwStates, IsValid
  <1>5. CopyInv'
    <2>1. CASE fw[chip.sec] = upd[chip.sec]
      <3>1. fw' = fw /\ chip'.pc = "bl_copy" /\ chip'.sec = chip.sec + 1
        BY <2>1 DEF TypeOK, ChipType
      <3>2. QED
        BY <1>1, <2>1, <3>1, SizeAssumption DEF CopyInv
    <2>2. CASE fw[chip.sec] # upd[chip.sec]
      <3>1. /\ fw' = [fw EXCEPT ![chip.sec] = EmptySector]
            /\ chip'.pc = "bl_program" /\ chip'.sec = chip.sec /\ chip'.page = 0
        BY <2>2 DEF TypeOK, ChipType
      <3>2. fw'[chip.sec] = EmptySector /\ \A s \in 1..(chip.sec - 1) : fw'[s] = fw[s]
        BY <1>1, <3>1 DEF TypeOK, Partition, Sectors
      <3>3. ProgrammedTo(fw', chip.sec, 0, upd[chip.sec])
        BY <3>2 DEF ProgrammedTo, EmptySector, Pages
      <3>4. QED
        BY <1>1, <1>2, <3>1, <3>2, <3>3 DEF CopyInv, ProgrammedTo
    <2>3. QED
      BY <2>1, <2>2
  <1>6. FlashOpInv'
    BY <1>2 DEF FlashOpInv
  <1>7. RequestInv'
    BY <1>2 DEF RequestInv, FwStates, Held
  <1>8. UploadInv'
    BY <1>2 DEF UploadInv, HasSectors, BlStates, Held
  <1>9. QED
    BY <1>3, <1>4, <1>5, <1>6, <1>7, <1>8

\* A step of flash_range_program in the bootloader.
LEMMA BlProgramStep ==
    ASSUME IInv, BlProgram
    PROVE  /\ chip.sec \in Sectors /\ chip.page \in Pages
           /\ chip.page + 1 \in 1..NumPages /\ fw' \in Partition
           /\ \A t \in Sectors \ {chip.sec} : fw'[t] = fw[t]
           /\ ProgrammedTo(fw', chip.sec, chip.page + 1, upd[chip.sec])
           /\ chip.page = NumPages - 1 => fw'[chip.sec] = upd[chip.sec]
           /\ chip.pc = "bl_first" /\ chip.page = NumPages - 1 => fw' = upd
  <1> USE DEF IInv, BlProgram
  <1> DEFINE s == chip.sec
             p == chip.page
  <1>1. s \in Sectors /\ p \in Pages /\ p + 1 \in 1..NumPages
    BY SizeAssumption DEF CopyInv, TypeOK, ChipType, Sectors, Pages
  <1>2. ProgrammedTo(fw, s, p, upd[s]) /\ upd[s] \in [Pages -> Data]
    BY <1>1 DEF CopyInv, TypeOK, Partition
  <1>3. /\ fw' \in Partition
        /\ \A t \in Sectors \ {s} : fw'[t] = fw[t]
        /\ ProgrammedTo(fw', s, p + 1, upd[s])
        /\ p = NumPages - 1 => fw'[s] = upd[s]
    <2>1. fw' = ProgramPage(fw, s, p, upd[s]) /\ fw \in Partition
      BY DEF TypeOK
    <2>2. QED
      BY <1>1, <1>2, <2>1, ProgramStep
  <1>4. ASSUME chip.pc = "bl_first", p = NumPages - 1 PROVE fw' = upd
    <2>1. s = 0 /\ \A t \in 1..(NumSectors - 1) : fw[t] = upd[t]
      BY <1>4 DEF CopyInv
    <2>2. \A t \in Sectors : fw'[t] = upd[t]
      BY <1>3, <1>4, <2>1 DEF Sectors
    <2>3. QED
      BY <1>3, <2>2, HeldEqual DEF TypeOK
  <1>5. QED
    BY <1>1, <1>3, <1>4

LEMMA BlProgramInv == ASSUME IInv, BlProgram PROVE IInv'
  <1> USE DEF IInv, BlProgram
  <1> DEFINE s == chip.sec
             p == chip.page
  <1>1. s \in Sectors /\ p \in Pages /\ p + 1 \in 1..NumPages
    BY BlProgramStep
  <1>3. /\ fw' \in Partition
        /\ \A t \in Sectors \ {s} : fw'[t] = fw[t]
        /\ ProgrammedTo(fw', s, p + 1, upd[s])
        /\ p = NumPages - 1 => fw'[s] = upd[s]
    BY BlProgramStep
  <1>4. Held(upd) # {} /\ upd' = upd
    BY DEF FirmwareInv, BlUpdating
  <1>5. CASE p < NumPages - 1
    <2>1. /\ chip'.pc = chip.pc /\ chip'.sec = s /\ chip'.page = p + 1
          /\ chip' \in ChipType
      <3>1. chip' = [chip EXCEPT !.page = p + 1]
        BY <1>5
      <3>2. chip \in ChipType /\ p + 1 \in Pages
        BY <1>1, <1>5, SizeAssumption DEF TypeOK, Pages
      <3>3. QED
        BY <3>1, <3>2 DEF ChipType
    <2>2. TypeOK'
      BY <1>3, <2>1 DEF TypeOK
    <2>3. CopyInv'
      <3>1. CASE chip.pc = "bl_program"
        <4>1. s \in 1..(NumSectors - 1) /\ fw[0] = EmptySector
              /\ \A t \in 1..(s - 1) : fw[t] = upd[t]
          BY <3>1 DEF CopyInv
        <4>2. fw'[0] = EmptySector /\ \A t \in 1..(s - 1) : fw'[t] = upd[t]
          BY <1>3, <4>1, SectorFacts, SizeAssumption DEF Sectors
        <4>3. QED
          BY <1>3, <2>1, <3>1, <4>1, <4>2 DEF CopyInv, ProgrammedTo
      <3>2. CASE chip.pc = "bl_first"
        <4>1. s = 0 /\ \A t \in 1..(NumSectors - 1) : fw[t] = upd[t]
          BY <3>2 DEF CopyInv
        <4>2. \A t \in 1..(NumSectors - 1) : fw'[t] = upd[t]
          BY <1>3, <4>1 DEF Sectors
        <4>3. QED
          BY <1>3, <2>1, <3>2, <4>1, <4>2 DEF CopyInv, ProgrammedTo
      <3>3. QED
        BY <3>1, <3>2
    <2>4. FirmwareInv'
      <3>1. CASE chip.pc = "bl_program"
        <4>1. fw'[0] = EmptySector
          BY <2>1, <2>3, <3>1 DEF CopyInv
        <4>2. ~IsValid(fw')
          BY <4>1, SectorFacts DEF IsValid
        <4>3. QED
          BY <1>4, <2>1, <3>1, <4>2 DEF FirmwareInv, BlUpdating, FwStates, IsValid
      <3>2. CASE chip.pc = "bl_first"
        BY <1>4, <2>1, <3>2 DEF FirmwareInv, BlUpdating, FwStates, IsValid
      <3>3. QED
        BY <3>1, <3>2
    <2>5. FlashOpInv'
      BY <2>1 DEF FlashOpInv
    <2>6. RequestInv'
      BY <2>1 DEF RequestInv, FwStates, Held
    <2>7. UploadInv'
      BY <2>1 DEF UploadInv, HasSectors, BlStates, Held
    <2>8. QED
      BY <2>2, <2>3, <2>4, <2>5, <2>6, <2>7
  <1>6. CASE p = NumPages - 1 /\ chip.pc = "bl_program"
    <2>1. /\ chip'.pc = "bl_copy" /\ chip'.sec = s + 1
          /\ s \in 1..(NumSectors - 1) /\ chip' \in ChipType
      <3>1. chip' = [chip EXCEPT !.pc = "bl_copy", !.sec = s + 1, !.page = 0]
        BY <1>6, SizeAssumption
      <3>2. chip \in ChipType /\ s \in 1..(NumSectors - 1)
        BY <1>6 DEF TypeOK, CopyInv
      <3>3. s + 1 \in 0..NumSectors /\ 0 \in Pages
        BY <3>2, SizeAssumption, SectorFacts
      <3>4. QED
        BY <3>1, <3>2, <3>3 DEF ChipType, BlStates
    <2>2. TypeOK'
      BY <1>3, <2>1 DEF TypeOK
    <2>3. CopyInv'
      <3>1. fw[0] = EmptySector /\ \A t \in 1..(s - 1) : fw[t] = upd[t]
        BY <1>6 DEF CopyInv
      <3>2. fw'[0] = EmptySector
        BY <1>3, <2>1, <3>1, SectorFacts
      <3>3. \A t \in 1..s : fw'[t] = upd[t]
        BY <1>3, <1>6, <2>1, <3>1, SizeAssumption DEF Sectors
      <3>4. QED
        BY <2>1, <3>2, <3>3, SizeAssumption DEF CopyInv
    <2>4. FirmwareInv'
      <3>1. fw'[0] = EmptySector
        BY <2>1, <2>3 DEF CopyInv
      <3>2. ~IsValid(fw')
        BY <3>1, SectorFacts DEF IsValid
      <3>3. QED
        BY <1>4, <2>1, <3>2 DEF FirmwareInv, BlUpdating, FwStates, IsValid
    <2>5. FlashOpInv'
      BY <1>6, <2>1 DEF FlashOpInv
    <2>6. RequestInv'
      BY <1>6, <2>1 DEF RequestInv, FwStates, Held
    <2>7. UploadInv'
      BY <1>6, <2>1 DEF UploadInv, HasSectors, BlStates, Held
    <2>8. QED
      BY <2>2, <2>3, <2>4, <2>5, <2>6, <2>7
  <1>7. CASE p = NumPages - 1 /\ chip.pc = "bl_first"
    <2>1. chip'.pc = "bl_start" /\ chip' \in ChipType
      <3>1. chip' = [chip EXCEPT !.pc = "bl_start", !.page = 0]
        BY <1>7, SizeAssumption
      <3>2. chip \in ChipType /\ 0 \in Pages
        BY SectorFacts DEF TypeOK
      <3>3. QED
        BY <3>1, <3>2 DEF ChipType, BlStates
    <2>2. TypeOK'
      BY <1>3, <2>1 DEF TypeOK
    <2>3. fw' = upd
      BY <1>7, BlProgramStep
    <2>4. FirmwareInv'
      BY <1>4, <2>1, <2>3, HeldIsValid DEF TypeOK, FirmwareInv, BlUpdating, IsValid
    <2>5. CopyInv'
      BY <2>1 DEF CopyInv
    <2>6. FlashOpInv'
      BY <1>7, <2>1 DEF FlashOpInv
    <2>7. RequestInv'
      BY <1>7, <2>1 DEF RequestInv, FwStates, Held
    <2>8. UploadInv'
      BY <1>7, <2>1 DEF UploadInv, HasSectors, BlStates, Held
    <2>9. QED
      BY <2>2, <2>4, <2>5, <2>6, <2>7, <2>8
  <1>8. QED
    BY <1>1, <1>5, <1>6, <1>7, SizeAssumption DEF Pages

\* While the firmware works on the flash there is no reboot request.
LEMMA NoRequestInFlashOp ==
    ASSUME IInv, chip.pc \in FwStates \ {"fw"}
    PROVE  ~pending /\ ~scratch /\ resp = "none"
  BY DEF IInv, TypeOK, RequestInv, FlashOpInv, FwStates

LEMMA FwEraseInv == ASSUME IInv, FwErase PROVE IInv'
  <1> USE DEF IInv, FwErase
  <1>1. /\ chip'.pc = "fw" /\ chip' \in ChipType /\ ~scratch /\ ~pending
        /\ upd' \in Partition /\ upd'[0] = EmptySector /\ IsValid(fw)
    BY NoRequestInFlashOp, SectorFacts
       DEF FlashOpInv, FirmwareInv, TypeOK, ChipType, Partition, FwStates
  <1>2. TypeOK'
    BY <1>1 DEF TypeOK
  <1>3. FirmwareInv'
    BY <1>1 DEF FirmwareInv, BlUpdating, IsValid, Held
  <1>4. CopyInv'
    BY <1>1 DEF CopyInv
  <1>5. FlashOpInv'
    BY <1>1 DEF FlashOpInv
  <1>6. RequestInv'
    BY <1>1 DEF RequestInv
  <1>7. UploadInv'
    BY <1>1 DEF UploadInv, BlStates
  <1>8. QED
    BY <1>2, <1>3, <1>4, <1>5, <1>6, <1>7

LEMMA FwRewriteInv == ASSUME IInv, FwRewrite PROVE IInv'
  <1> USE DEF IInv, FwRewrite
  <1> DEFINE s == chip.sec
  <1>1. /\ chip'.pc = "fw_program" /\ chip'.sec = s /\ chip'.img = chip.img
        /\ chip'.page = 0
    BY DEF TypeOK, ChipType
  <1>2. chip' \in ChipType
    <2>1. chip \in ChipType /\ 0 \in Pages
      BY SectorFacts DEF TypeOK
    <2>2. QED
      BY <2>1 DEF ChipType, FwStates
  <1>3. /\ s \in Sectors /\ upd' \in Partition /\ upd'[s] = EmptySector
        /\ \A t \in Sectors \ {s} : upd'[t] = upd[t]
    BY SectorFacts DEF FlashOpInv, TypeOK, Partition
  <1>4. ~scratch /\ ~pending /\ resp = "none"
    BY NoRequestInFlashOp DEF FwStates
  <1>5. TypeOK'
    BY <1>2, <1>3 DEF TypeOK
  <1>6. FirmwareInv'
    BY <1>1 DEF FirmwareInv, BlUpdating, FwStates, IsValid, Held
  <1>7. CopyInv'
    BY <1>1 DEF CopyInv
  <1>8. FlashOpInv'
    <2>1. ProgrammedTo(upd', s, 0, Content[chip.img][s])
      BY <1>3, ErasedSector
    <2>2. s > 0 => ~IsValid(upd')
      BY <1>3, SectorFacts DEF FlashOpInv, IsValid
    <2>3. QED
      BY <1>1, <1>3, <1>4, <2>1, <2>2 DEF FlashOpInv, ProgrammedTo, IsValid
  <1>9. RequestInv'
    BY <1>4 DEF RequestInv
  <1>10. UploadInv'
    <2>1. CASE menu.pc = "write"
      <3>1. s = menu.sec /\ s \in 1..(NumSectors - 1)
        BY <1>3, <2>1, SizeAssumption DEF UploadInv, Sectors
      <3>2. \A t \in 0..(s - 1) : upd'[t] = upd[t]
        BY <1>3, <3>1, SizeAssumption DEF Sectors
      <3>3. upd[0] = EmptySector /\ HasSectors(upd, menu.img, 1, menu.sec - 1)
        BY <2>1 DEF UploadInv
      <3>4. upd'[0] = EmptySector /\ HasSectors(upd', menu.img, 1, menu.sec - 1)
        BY <3>1, <3>2, <3>3 DEF HasSectors
      <3>5. QED
        BY <1>1, <1>4, <2>1, <3>4 DEF UploadInv, HasSectors
    <2>2. CASE menu.pc = "first"
      <3>1. s = 0 /\ HasSectors(upd, menu.img, 1, ImgLen[menu.img] - 1)
        BY <2>2 DEF UploadInv
      <3>2. ImgLen[menu.img] \in 1..NumSectors
        BY ImageAssumption DEF TypeOK, MenuType
      <3>3. HasSectors(upd', menu.img, 1, ImgLen[menu.img] - 1)
        BY <1>3, <3>1, <3>2, SizeAssumption DEF HasSectors, Sectors
      <3>4. QED
        BY <1>1, <1>4, <2>2, <3>3 DEF UploadInv, HasSectors
    <2>3. CASE menu.pc \notin {"write", "first"}
      BY <1>1, <1>4, <2>3 DEF UploadInv, BlStates
    <2>4. QED
      BY <2>1, <2>2, <2>3
  <1>11. QED
    BY <1>5, <1>6, <1>7, <1>8, <1>9, <1>10

LEMMA FwProgramInv == ASSUME IInv, FwProgram PROVE IInv'
  <1> USE DEF IInv, FwProgram
  <1> DEFINE s == chip.sec
             p == chip.page
             sector == Content[chip.img][s]
  <1>1. /\ s \in Sectors /\ p \in Pages /\ chip \in ChipType /\ upd \in Partition
        /\ sector \in [Pages -> Data] /\ ProgrammedTo(upd, s, p, sector)
    BY ImageAssumption DEF FlashOpInv, TypeOK, ChipType
  <1>2. /\ upd' \in Partition
        /\ \A t \in Sectors \ {s} : upd'[t] = upd[t]
        /\ ProgrammedTo(upd', s, p + 1, sector)
        /\ p = NumPages - 1 => upd'[s] = sector
    <2>1. upd' = ProgramPage(upd, s, p, sector)
      OBVIOUS
    <2>2. QED
      BY <1>1, <2>1, ProgramStep
  <1>3. ~scratch /\ ~pending /\ resp = "none"
    BY NoRequestInFlashOp DEF FwStates
  <1>4. /\ chip'.sec = s /\ chip'.img = chip.img /\ chip' \in ChipType
        /\ \/ /\ chip'.pc = "fw_program" /\ chip'.page = p + 1 /\ resp' = "none"
           \/ chip'.pc = "fw" /\ resp' = "ok" /\ upd'[s] = sector
    <2>1. CASE p < NumPages - 1
      <3>1. chip' = [chip EXCEPT !.page = p + 1] /\ resp' = resp
        BY <2>1
      <3>2. p + 1 \in Pages
        BY <1>1, <2>1, SizeAssumption DEF Pages
      <3>3. QED
        BY <1>1, <1>3, <3>1, <3>2 DEF ChipType
    <2>2. CASE ~(p < NumPages - 1)
      <3>1. chip' = [chip EXCEPT !.pc = "fw", !.page = 0] /\ resp' = "ok"
        BY <2>2
      <3>2. p = NumPages - 1
        BY <1>1, <2>2, SizeAssumption DEF Pages
      <3>3. QED
        BY <1>1, <1>2, <3>1, <3>2, SectorFacts DEF ChipType, FwStates
    <2>3. QED
      BY <2>1, <2>2
  <1>5. s > 0 => upd'[0] = upd[0] /\ ~IsValid(upd')
    BY <1>1, <1>2, SectorFacts DEF FlashOpInv, IsValid
  <1>6. TypeOK'
    BY <1>2, <1>4 DEF TypeOK
  <1>7. FirmwareInv'
    BY <1>4 DEF FirmwareInv, BlUpdating, FwStates, IsValid, Held
  <1>8. CopyInv'
    BY <1>4 DEF CopyInv
  <1>9. FlashOpInv'
    BY <1>1, <1>2, <1>4, <1>5 DEF FlashOpInv, ProgrammedTo, IsValid
  <1>10. RequestInv'
    BY <1>3 DEF RequestInv
  <1>11. UploadInv'
    <2>1. CASE menu.pc = "write"
      <3>1. s = menu.sec /\ s \in 1..(NumSectors - 1) /\ chip.img = menu.img
        BY <1>1, <2>1, SizeAssumption DEF UploadInv, Sectors
      <3>2. \A t \in 0..(s - 1) : upd'[t] = upd[t]
        BY <1>2, <3>1, SizeAssumption DEF Sectors
      <3>3. upd[0] = EmptySector /\ HasSectors(upd, menu.img, 1, menu.sec - 1)
        BY <2>1 DEF UploadInv
      <3>4. upd'[0] = EmptySector /\ HasSectors(upd', menu.img, 1, menu.sec - 1)
        BY <3>1, <3>2, <3>3 DEF HasSectors
      <3>5. QED
        BY <1>4, <2>1, <3>1, <3>4 DEF UploadInv, HasSectors
    <2>2. CASE menu.pc = "first"
      <3>1. /\ s = 0 /\ chip.img = menu.img
            /\ HasSectors(upd, menu.img, 1, ImgLen[menu.img] - 1)
        BY <2>2 DEF UploadInv
      <3>2. ImgLen[menu.img] \in 1..NumSectors
        BY ImageAssumption DEF TypeOK, MenuType
      <3>3. HasSectors(upd', menu.img, 1, ImgLen[menu.img] - 1)
        BY <1>2, <3>1, <3>2, SizeAssumption DEF HasSectors, Sectors
      <3>4. QED
        BY <1>4, <2>2, <3>1, <3>3 DEF UploadInv, HasSectors
    <2>3. CASE menu.pc \notin {"write", "first"}
      BY <1>3, <2>3 DEF UploadInv, BlStates
    <2>4. QED
      BY <2>1, <2>2, <2>3
  <1>12. QED
    BY <1>6, <1>7, <1>8, <1>9, <1>10, <1>11

LEMMA CommandFailedInv == ASSUME IInv, CommandFailed PROVE IInv'
  <1> USE DEF IInv, CommandFailed
  <1>1. /\ menu' \in MenuType
        /\ menu'.img = menu.img /\ menu'.sec = menu.sec /\ menu'.done = menu.done
        /\ \/ menu'.pc = menu.pc
           \/ menu.pc = "relock" /\ menu.done /\ menu'.pc = "reboot"
           \/ menu'.pc = "message"
           \/ menu.pc \notin {"relock", "reboot"} /\ menu'.pc = "relock"
    <2>1. CASE menu.tries + 1 < Retries
      <3>1. /\ menu' = [menu EXCEPT !.tries = menu.tries + 1, !.waiting = FALSE]
            /\ menu \in MenuType
        BY <2>1 DEF TypeOK
      <3>2. menu.tries + 1 \in 0..(Retries - 1)
        BY <2>1, <3>1, SizeAssumption DEF MenuType
      <3>3. QED
        BY <3>1, <3>2 DEF MenuType
    <2>2. CASE ~(menu.tries + 1 < Retries)
      <3>1. CASE menu.pc = "relock"
        <4>1. menu' = Goto(IF menu.done THEN "reboot" ELSE "message")
          BY <2>2, <3>1 DEF GiveUp
        <4>2. QED
          BY <3>1, <4>1, GotoType DEF MenuStates, CmdStates
      <3>2. CASE menu.pc = "reboot"
        <4>1. menu' = Goto("message")
          BY <2>2, <3>2 DEF GiveUp
        <4>2. QED
          BY <4>1, GotoType DEF MenuStates
      <3>3. CASE menu.pc \notin {"relock", "reboot"}
        <4>1. menu' = Goto("relock")
          BY <2>2, <3>3 DEF GiveUp
        <4>2. QED
          BY <3>3, <4>1, GotoType DEF MenuStates, CmdStates
      <3>4. QED
        BY <3>1, <3>2, <3>3
    <2>3. QED
      BY <2>1, <2>2
  <1>2. menu.pc \in {"unlock", "erase", "size", "write", "first"} => ~menu.done
    BY DEF UploadInv
  <1>3. TypeOK'
    BY <1>1 DEF TypeOK
  <1>4. FirmwareInv'
    BY DEF FirmwareInv, IsValid, Held
  <1>5. CopyInv'
    BY DEF CopyInv, ProgrammedTo
  <1>6. FlashOpInv'
    BY DEF FlashOpInv, ProgrammedTo, IsValid
  <1>7. RequestInv'
    BY <1>1 DEF RequestInv, CmdStates, Held
  <1>8. UploadInv'
    BY <1>1, <1>2 DEF UploadInv, HasSectors, Held, CmdStates
  <1>9. QED
    BY <1>3, <1>4, <1>5, <1>6, <1>7, <1>8

LEMMA CommandOkInv == ASSUME IInv, CommandOk PROVE IInv'
  <1> USE DEF IInv, CommandOk
  <1>1. /\ chip.pc = "fw" /\ menu \in MenuType
        /\ ImgLen[menu.img] \in 1..NumSectors
    BY ImageAssumption DEF FlashOpInv, TypeOK, MenuType
  <1>2. FirmwareInv'
    BY DEF FirmwareInv, IsValid, Held
  <1>3. CopyInv'
    BY DEF CopyInv, ProgrammedTo
  <1>4. FlashOpInv'
    BY DEF FlashOpInv, ProgrammedTo, IsValid
  <1>5. SUFFICES menu' \in MenuType /\ RequestInv' /\ UploadInv'
    BY <1>2, <1>3, <1>4 DEF TypeOK
  <1>6. CASE menu.pc = "unlock"
    <2>1. menu' = Goto("erase")
      BY <1>6 DEF Proceed
    <2>2. menu' \in MenuType /\ menu'.pc = "erase" /\ menu'.done = menu.done
      BY <2>1, GotoType DEF MenuStates, CmdStates
    <2>3. QED
      BY <1>1, <1>6, <2>2 DEF RequestInv, UploadInv, CmdStates, Held
  <1>7. CASE menu.pc = "erase"
    <2>1. menu' = Goto("size")
      BY <1>7 DEF Proceed
    <2>2. menu' \in MenuType /\ menu'.pc = "size" /\ menu'.done = menu.done
      BY <2>1, GotoType DEF MenuStates, CmdStates
    <2>3. QED
      BY <1>1, <1>7, <2>2 DEF RequestInv, UploadInv, CmdStates, Held
  <1>8. CASE menu.pc = "size" /\ ImgLen[menu.img] > 1
    <2>1. menu' = [Goto("write") EXCEPT !.sec = 1]
      BY <1>8 DEF Proceed
    <2>2. /\ Goto("write") \in MenuType /\ Goto("write").pc = "write"
          /\ Goto("write").img = menu.img /\ Goto("write").done = menu.done
          /\ 1 \in 0..NumSectors
      BY GotoType, SizeAssumption DEF MenuStates, CmdStates
    <2>3. /\ menu' \in MenuType /\ menu'.pc = "write" /\ menu'.sec = 1
          /\ menu'.img = menu.img /\ menu'.done = menu.done
      BY <2>1, <2>2 DEF MenuType
    <2>4. QED
      BY <1>1, <1>8, <2>3, SizeAssumption
         DEF RequestInv, UploadInv, HasSectors, CmdStates, Held
  <1>9. CASE menu.pc = "size" /\ ImgLen[menu.img] = 1
    <2>1. menu' = Goto("first")
      BY <1>9, <1>1 DEF Proceed
    <2>2. /\ menu' \in MenuType /\ menu'.pc = "first"
          /\ menu'.img = menu.img /\ menu'.done = menu.done
      BY <2>1, GotoType DEF MenuStates, CmdStates
    <2>3. QED
      BY <1>1, <1>9, <2>2 DEF RequestInv, UploadInv, HasSectors, CmdStates, Held
  <1>10. CASE menu.pc = "write" /\ menu.sec + 1 < ImgLen[menu.img]
    <2>1. menu' = [Goto("write") EXCEPT !.sec = menu.sec + 1]
      <3>1. ~(menu.sec + 1 >= ImgLen[menu.img])
        BY <1>1, <1>10 DEF MenuType
      <3>2. menu' = [Goto("write") EXCEPT !.sec = Goto("write").sec + 1]
        BY <1>10, <3>1 DEF Proceed
      <3>3. Goto("write").sec = menu.sec
        BY GotoType DEF MenuStates, CmdStates
      <3>4. QED
        BY <3>2, <3>3
    <2>2. /\ Goto("write") \in MenuType /\ Goto("write").pc = "write"
          /\ Goto("write").img = menu.img /\ Goto("write").done = menu.done
      BY GotoType DEF MenuStates, CmdStates
    <2>3. menu.sec + 1 \in 1..(ImgLen[menu.img] - 1) /\ menu.sec + 1 \in 0..NumSectors
      BY <1>1, <1>10, SizeAssumption DEF UploadInv
    <2>4. /\ menu' \in MenuType /\ menu'.pc = "write" /\ menu'.sec = menu.sec + 1
          /\ menu'.img = menu.img /\ menu'.done = menu.done
      BY <2>1, <2>2, <2>3 DEF MenuType
    <2>5. HasSectors(upd, menu.img, 1, menu.sec) /\ upd[0] = EmptySector
      BY <1>10, SizeAssumption DEF UploadInv, HasSectors
    <2>6. UploadInv'
      BY <1>1, <1>10, <2>3, <2>4, <2>5 DEF UploadInv, HasSectors
    <2>7. RequestInv'
      BY <1>10, <2>4 DEF RequestInv, CmdStates, Held
    <2>8. QED
      BY <2>4, <2>6, <2>7
  <1>11. CASE menu.pc = "write" /\ menu.sec + 1 >= ImgLen[menu.img]
    <2>1. menu' = Goto("first")
      BY <1>1, <1>11 DEF Proceed, MenuType
    <2>2. /\ menu' \in MenuType /\ menu'.pc = "first"
          /\ menu'.img = menu.img /\ menu'.done = menu.done
      BY <2>1, GotoType DEF MenuStates, CmdStates
    <2>3. HasSectors(upd, menu.img, 1, ImgLen[menu.img] - 1)
      BY <1>1, <1>11 DEF UploadInv, HasSectors, MenuType
    <2>4. QED
      BY <1>1, <1>11, <2>2, <2>3 DEF RequestInv, UploadInv, HasSectors, CmdStates, Held
  <1>12. CASE menu.pc = "first"
    <2>1. menu' = [Goto("relock") EXCEPT !.done = TRUE]
      BY <1>12 DEF Proceed
    <2>2. /\ Goto("relock") \in MenuType /\ Goto("relock").pc = "relock"
          /\ Goto("relock").img = menu.img
      BY GotoType DEF MenuStates, CmdStates
    <2>3. menu' \in MenuType /\ menu'.pc = "relock" /\ menu'.img = menu.img
      BY <2>1, <2>2 DEF MenuType
    <2>4. menu.img \in Held(upd)
      <3>1. \A s \in 0..(ImgLen[menu.img] - 1) : upd[s] = Content[menu.img][s]
        BY <1>1, <1>12 DEF UploadInv, HasSectors
      <3>2. QED
        BY <1>1, <3>1 DEF Held, MenuType
    <2>5. QED
      BY <1>1, <1>12, <2>3, <2>4 DEF RequestInv, UploadInv, CmdStates, Held
  <1>13. CASE menu.pc = "relock"
    <2>1. menu' = Goto(IF menu.done THEN "reboot" ELSE "message")
      BY <1>13 DEF Proceed
    <2>2. /\ menu' \in MenuType /\ menu'.img = menu.img /\ menu'.done = menu.done
          /\ menu'.pc = IF menu.done THEN "reboot" ELSE "message"
      BY <2>1, GotoType DEF MenuStates, CmdStates
    <2>3. QED
      BY <1>1, <1>13, <2>2 DEF RequestInv, UploadInv, CmdStates, Held
  <1>14. CASE menu.pc = "reboot"
    <2>1. menu' = Goto("ping")
      BY <1>14 DEF Proceed
    <2>2. menu' \in MenuType /\ menu'.pc = "ping"
      BY <2>1, GotoType DEF MenuStates
    <2>3. QED
      BY <1>1, <2>2 DEF RequestInv, UploadInv, CmdStates, Held
  <1>15. QED
    <2>1. ImgLen[menu.img] = 1 \/ ImgLen[menu.img] > 1
      BY <1>1, SizeAssumption
    <2>2. menu.sec + 1 < ImgLen[menu.img] \/ menu.sec + 1 >= ImgLen[menu.img]
      BY <1>1 DEF MenuType
    <2>3. QED
      BY <1>6, <1>7, <1>8, <1>9, <1>10, <1>11, <1>12, <1>13, <1>14, <2>1, <2>2
         DEF CmdStates

\* A command that is accepted starts at most a flash operation of the sector
\* the menu is at.
LEMMA SendCommandInv == ASSUME IInv, SendCommand PROVE IInv'
  <1> USE DEF IInv, SendCommand
  <1>1. /\ menu' \in MenuType /\ menu'.pc = menu.pc /\ menu'.img = menu.img
        /\ menu'.sec = menu.sec /\ menu'.done = menu.done
        /\ menu.pc \in CmdStates
    BY DEF TypeOK, MenuType
  <1>2. /\ chip \in ChipType /\ chip.pc = "fw" /\ IsValid(fw)
        /\ 0 \in Sectors /\ 0 \in 0..NumSectors
    BY SectorFacts, SizeAssumption DEF TypeOK, FirmwareInv, FwStates
  <1>3. fw' = fw /\ upd' = upd
    BY DEF ExecCommand, ExecWriteLock, ExecEraseFlashSector, ExecGetFlashSectorSize,
           ExecWriteFlashSector, ExecReboot
  <1>4. CASE menu.pc \in {"unlock", "size", "relock"}
    <2>1. /\ chip' = chip /\ scratch' = scratch /\ pending' = pending
          /\ resp' = "ok" /\ lock' \in BOOLEAN
      BY <1>4 DEF ExecCommand, ExecWriteLock, ExecGetFlashSectorSize, TypeOK
    <2>2. QED
      BY <1>1, <1>2, <1>3, <1>4, <2>1
         DEF TypeOK, FirmwareInv, CopyInv, FlashOpInv, RequestInv, UploadInv,
             IsValid, Held, BlUpdating, FwStates
  <1>5. CASE menu.pc = "reboot"
    <2>1. /\ chip' = chip /\ scratch' = TRUE /\ pending' = TRUE
          /\ resp' = "ok" /\ lock' = lock
      BY <1>5 DEF ExecCommand, ExecReboot
    <2>2. Held(upd) # {}
      BY <1>5 DEF UploadInv
    <2>3. QED
      BY <1>1, <1>2, <1>3, <1>5, <2>1, <2>2
         DEF TypeOK, FirmwareInv, CopyInv, FlashOpInv, RequestInv, UploadInv,
             IsValid, Held, BlUpdating, FwStates, CmdStates
  <1>6. CASE menu.pc = "erase"
    <2>1. /\ lock' = lock /\ scratch' = scratch /\ pending' = pending
          /\ \/ /\ chip' = chip
                /\ \/ resp' = "err"
                   \/ resp' = "ok" /\ upd[0] = EmptySector
             \/ resp' = resp /\ chip' = [chip EXCEPT !.pc = "fw_erase", !.sec = 0]
      BY <1>6 DEF ExecCommand, ExecEraseFlashSector
    <2>2. /\ chip' \in ChipType /\ chip'.pc \in {"fw", "fw_erase"}
          /\ chip'.pc = "fw_erase" => chip'.sec = 0 /\ resp' = "none"
          /\ resp' = "ok" => upd[0] = EmptySector
          /\ resp' \in {"none", "ok", "err"}
      BY <1>2, <2>1 DEF ChipType, FwStates
    <2>3. ~pending /\ ~scratch
      BY <1>2, <1>6 DEF RequestInv, CmdStates, FwStates
    <2>4. QED
      BY <1>1, <1>2, <1>3, <1>6, <2>1, <2>2, <2>3
         DEF TypeOK, FirmwareInv, CopyInv, FlashOpInv, RequestInv, UploadInv,
             IsValid, Held, BlUpdating, FwStates, BlStates
  <1>7. CASE menu.pc \in {"write", "first"}
    <2> DEFINE s == IF menu.pc = "write" THEN menu.sec ELSE 0
    <2>1. /\ lock' = lock /\ scratch' = scratch /\ pending' = pending
          /\ \/ /\ chip' = chip
                /\ \/ resp' = "err"
                   \/ resp' = "ok" /\ upd[s] = Content[menu.img][s]
             \/ /\ resp' = resp
                /\ chip' = [chip EXCEPT !.pc = "fw_rewrite", !.sec = s,
                                        !.img = menu.img]
      BY <1>7 DEF ExecCommand, ExecWriteFlashSector
    <2>2. s \in Sectors /\ s \in 0..NumSectors /\ menu.img \in Images
      BY <1>2, <1>7, SizeAssumption, ImageAssumption
         DEF UploadInv, TypeOK, MenuType, Sectors
    <2>3. s > 0 => ~IsValid(upd)
      BY <1>7, SectorFacts DEF UploadInv, IsValid
    <2> HIDE DEF s
    <2>4. /\ chip' \in ChipType /\ chip'.pc \in {"fw", "fw_rewrite"}
          /\ chip'.pc = "fw_rewrite" =>
                chip'.sec = s /\ chip'.img = menu.img /\ resp' = "none"
          /\ resp' = "ok" => upd[s] = Content[menu.img][s]
          /\ resp' \in {"none", "ok", "err"}
      BY <1>2, <2>1, <2>2 DEF ChipType, FwStates
    <2>5. ~pending /\ ~scratch
      BY <1>2, <1>7 DEF RequestInv, CmdStates, FwStates
    <2>6. TypeOK' /\ FirmwareInv' /\ CopyInv'
      BY <1>1, <1>2, <1>3, <2>1, <2>4
         DEF TypeOK, FirmwareInv, CopyInv, IsValid, Held, BlUpdating, FwStates
    <2>7. FlashOpInv' /\ RequestInv'
      BY <1>1, <1>3, <2>1, <2>2, <2>3, <2>4, <2>5
         DEF FlashOpInv, RequestInv, IsValid
    <2>8. UploadInv'
      BY <1>1, <1>2, <1>3, <1>7, <2>4 DEF UploadInv, HasSectors, s
    <2>9. QED
      BY <2>6, <2>7, <2>8
  <1>8. QED
    BY <1>1, <1>4, <1>5, <1>6, <1>7 DEF CmdStates

\* What a power loss leaves in the firmware partition: nothing that starts,
\* if the bootloader was writing it.
LEMMA PowerLossTears ==
    ASSUME SafeFirstSector, IInv, PowerLoss
    PROVE  /\ fw' \in Partition
           /\ chip.pc = "bl_first" => ~IsValid(fw')
           /\ fw' # fw => chip.pc \in BlUpdating /\ ~IsValid(fw')
  <1> USE DEF IInv, PowerLoss
  <1>a. ~(chip.pc = "bl_first" /\ chip.page > 0)
    BY DEF SafeFirstSector
  <1>b. chip \in ChipType
    BY DEF TypeOK
  <1>1. CASE fw' = fw
    <2>1. chip.pc = "bl_first" => fw[0][0] = Erased
      BY <1>a, <1>b, SectorFacts DEF CopyInv, ProgrammedTo, ChipType, Pages
    <2>2. QED
      BY <1>1, <2>1, ImageAssumption DEF TypeOK, IsValid
  <1>2. CASE chip.pc = "bl_erase" /\ fw' = [fw EXCEPT ![0] = TornSector]
    BY <1>2, SectorFacts DEF TypeOK, Partition, IsValid, BlUpdating
  <1>3. CASE /\ chip.pc = "bl_copy" /\ chip.sec < NumSectors
             /\ fw' = [fw EXCEPT ![chip.sec] = TornSector]
    <2>1. chip.sec # 0 /\ chip.sec \in Sectors /\ fw[0] = EmptySector
      BY <1>3, SizeAssumption DEF CopyInv, Sectors
    <2>2. fw' \in Partition /\ fw'[0] = EmptySector
      BY <1>3, <2>1, SectorFacts DEF TypeOK, Partition
    <2>3. QED
      BY <1>3, <2>2, SectorFacts DEF IsValid, BlUpdating
  <1>4. CASE /\ chip.pc \in {"bl_program", "bl_first"}
             /\ fw' = [fw EXCEPT ![chip.sec][chip.page] = Torn]
    <2>1. fw' \in Partition
      BY <1>4, ImageAssumption DEF TypeOK, Partition
    <2>2. CASE chip.pc = "bl_program"
      <3>1. chip.sec # 0 /\ fw[0] = EmptySector
        BY <2>2 DEF CopyInv
      <3>2. fw'[0] = EmptySector
        BY <1>4, <3>1, SectorFacts DEF TypeOK, Partition
      <3>3. QED
        BY <2>1, <2>2, <3>2, SectorFacts DEF IsValid, BlUpdating
    <2>3. CASE chip.pc = "bl_first"
      <3>1. chip.sec = 0 /\ chip.page = 0
        BY <1>a, <1>b, <2>3 DEF CopyInv, ChipType, Pages
      <3>2. fw'[0][0] = Torn
        BY <1>4, <3>1, SectorFacts DEF TypeOK, Partition
      <3>3. QED
        BY <2>1, <2>3, <3>2, ImageAssumption DEF IsValid, BlUpdating
    <2>4. QED
      BY <1>4, <2>2, <2>3
  <1>5. QED
    BY <1>1, <1>2, <1>3, <1>4 DEF TearFw

LEMMA PowerLossInv == ASSUME SafeFirstSector, IInv, PowerLoss PROVE IInv'
  <1> USE DEF IInv, PowerLoss
  <1>2. chip'.pc = "boot" /\ chip' \in ChipType /\ chip \in ChipType
    BY DEF TypeOK, ChipType, BlStates
  <1>3. menu' \in MenuType /\ menu'.pc = "idle"
    <2>1. Goto("idle") \in MenuType /\ Goto("idle").pc = "idle"
      BY GotoType DEF MenuStates
    <2>2. menu' = [Goto("idle") EXCEPT !.done = FALSE]
      BY DEF MenuRestarted
    <2>3. QED
      BY <2>1, <2>2 DEF MenuType
  <1>4. upd' \in Partition
    <2>1. CASE upd' = upd
      BY <2>1 DEF TypeOK
    <2>2. CASE upd' = [upd EXCEPT ![chip.sec] = TornSector]
      BY <2>2, SectorFacts DEF TypeOK, Partition
    <2>3. CASE upd' = [upd EXCEPT ![chip.sec][chip.page] = Torn]
      BY <2>3, ImageAssumption DEF TypeOK, Partition
    <2>4. QED
      BY <2>1, <2>2, <2>3 DEF TearUpd
  <1>5. /\ fw' \in Partition
        /\ chip.pc = "bl_first" => ~IsValid(fw')
        /\ fw' # fw => chip.pc \in BlUpdating /\ ~IsValid(fw')
    BY PowerLossTears
  <1>6. chip.pc \in BlStates => upd' = upd
    BY DEF TearUpd, BlStates
  <1>7. FirmwareInv'
    <2>1. IsValid(fw') => Held(fw') # {}
      BY <1>5 DEF FirmwareInv
    <2>2. ~IsValid(fw') => Held(upd') # {}
      <3>1. CASE chip.pc \in FwStates
        BY <1>5, <3>1 DEF FirmwareInv, BlUpdating, FwStates
      <3>2. CASE chip.pc \in BlStates
        BY <1>5, <1>6, <3>2 DEF FirmwareInv
      <3>3. QED
        BY <1>2, <3>1, <3>2 DEF ChipType
    <2>3. QED
      BY <1>2, <2>1, <2>2 DEF FirmwareInv, BlUpdating, FwStates, IsValid, Held
  <1>8. TypeOK'
    BY <1>2, <1>3, <1>4, <1>5 DEF TypeOK
  <1>9. CopyInv' /\ FlashOpInv' /\ RequestInv' /\ UploadInv'
    BY <1>2, <1>3
       DEF CopyInv, FlashOpInv, RequestInv, UploadInv, FwStates, CmdStates
  <1>10. QED
    BY <1>7, <1>8, <1>9

-----------------------------------------------------------------------------
(***************************************************************************)
(* Theorems                                                                *)
(***************************************************************************)

LEMMA InitInv == Init => IInv
  <1> SUFFICES ASSUME Init PROVE IInv
    OBVIOUS
  <1>1. PICK i \in Images :
           /\ fw = [s \in Sectors |-> IF s < ImgLen[i] THEN Content[i][s]
                                                      ELSE EmptySector]
           /\ chip = [pc |-> "boot", sec |-> 0, page |-> 0, img |-> i]
           /\ menu = [pc |-> "idle", img |-> i, sec |-> 0, tries |-> 0,
                      waiting |-> FALSE, done |-> FALSE]
    BY DEF Init
  <1>2. /\ ImgLen[i] \in 1..NumSectors
        /\ \A s \in Sectors : Content[i][s] \in [Pages -> Data]
    BY ImageAssumption
  <1>3. fw \in Partition
    BY <1>1, <1>2, SectorFacts DEF Partition
  <1>4. upd \in Partition
    BY SectorFacts DEF Init, Partition
  <1>5. chip \in ChipType /\ menu \in MenuType
    BY <1>1, SectorFacts, SizeAssumption
       DEF ChipType, MenuType, BlStates, MenuStates
  <1>6. i \in Held(fw)
    <2>1. \A s \in 0..(ImgLen[i] - 1) : s \in Sectors /\ s < ImgLen[i]
      BY <1>2, SizeAssumption DEF Sectors
    <2>2. QED
      BY <1>1, <2>1 DEF Held
  <1>7. IsValid(fw)
    BY <1>3, <1>6, HeldIsValid
  <1>8. QED
    BY <1>1, <1>3, <1>4, <1>5, <1>6, <1>7
       DEF Init, IInv, TypeOK, FirmwareInv, CopyInv, FlashOpInv, RequestInv,
           UploadInv, BlUpdating, FwStates, CmdStates

LEMMA NextInv == SafeFirstSector /\ IInv /\ [Next]_vars => IInv'
  <1> SUFFICES ASSUME SafeFirstSector, IInv, [Next]_vars PROVE IInv'
    OBVIOUS
  <1>1. CASE Bootloader
    BY <1>1, BlDecideInv, BlEraseFirstInv, BlCopyInv, BlCopyDoneInv,
       BlProgramInv, BlStartInv DEF Bootloader
  <1>2. CASE Firmware
    BY <1>2, FwEraseInv, FwRewriteInv, FwProgramInv, WatchdogRebootInv DEF Firmware
  <1>3. CASE \E i \in Images : StartUpdate(i)
    BY <1>3, StartUpdateInv
  <1>4. CASE Client
    BY <1>4, SendCommandInv, CommandLostInv, CommandOkInv, CommandFailedInv DEF Client
  <1>5. CASE PingOk \/ PingTimeout \/ Dismiss
    BY <1>5, PingOkInv, PingTimeoutInv, DismissInv
  <1>6. CASE ConsoleReset \/ PowerLoss
    BY <1>6, ConsoleResetInv, PowerLossInv
  <1>7. CASE UNCHANGED vars
    BY <1>7 DEF vars, IInv, TypeOK, FirmwareInv, CopyInv, FlashOpInv, RequestInv,
                UploadInv, ProgrammedTo, HasSectors, Held, IsValid
  <1>8. QED
    BY <1>1, <1>2, <1>3, <1>4, <1>5, <1>6, <1>7 DEF Next

\* IInv is inductive: it holds in every reachable state.
THEOREM Invariance == ASSUME SafeFirstSector PROVE Spec => []IInv
  <1>1. Init => IInv
    BY InitInv
  <1>2. IInv /\ [Next]_vars => IInv'
    BY NextInv
  <1>3. QED
    BY <1>1, <1>2, PTL DEF Spec

\* Type correctness of the three programs.
THEOREM TypeCorrect == ASSUME SafeFirstSector PROVE Spec => []TypeOK
  <1>1. IInv => TypeOK
    BY DEF IInv
  <1>2. QED
    BY <1>1, Invariance, PTL

\* The chip never runs a partial image, although it only checks boot2.
THEOREM RunningWhole == ASSUME SafeFirstSector PROVE Spec => []RunningFirmwareWhole
  <1>1. IInv => RunningFirmwareWhole
    BY DEF IInv, FirmwareInv, RunningFirmwareWhole, FwStates
  <1>2. QED
    BY <1>1, Invariance, PTL

\* A firmware partition that fails its check can be repaired from the update
\* partition: an interrupted update can always be retried.
THEOREM RetryAlwaysPossible == ASSUME SafeFirstSector PROVE Spec => []RetryPossible
  <1>1. IInv => RetryPossible
    BY DEF IInv, FirmwareInv, RetryPossible
  <1>2. QED
    BY <1>1, Invariance, PTL

\* What a reboot request installs is a whole image.
THEOREM RequestedWhole == ASSUME SafeFirstSector PROVE Spec => []RequestedUpdateWhole
  <1>1. IInv => RequestedUpdateWhole
    BY DEF IInv, FirmwareInv, RequestInv, RequestedUpdateWhole, BlUpdating
  <1>2. QED
    BY <1>1, Invariance, PTL

\* When the menu asks for the reboot, the chip holds the image it was given,
\* whatever was lost, misread and retried.
THEOREM UploadedHeld == ASSUME SafeFirstSector PROVE Spec => []UploadedImageHeld
  <1>1. IInv => UploadedImageHeld
    BY DEF IInv, UploadInv, UploadedImageHeld
  <1>2. QED
    BY <1>1, Invariance, PTL

\* The firmware partition only changes while a whole image waits in the
\* update partition, which does not change with it.
THEOREM ReplacedFromWhole == ASSUME SafeFirstSector PROVE Spec => FirmwareReplacedFromWhole
  <1>1. ASSUME IInv, [Next]_vars, fw' # fw
        PROVE  Held(upd) # {} /\ upd' = upd
    <2>1. CASE BlEraseFirst \/ BlCopy \/ BlProgram
      BY <1>1, <2>1 DEF BlEraseFirst, BlCopy, BlProgram, IInv, FirmwareInv, BlUpdating
    <2>2. CASE PowerLoss
      <3>1. chip.pc \in BlUpdating
        BY <1>1, <2>2 DEF PowerLoss, TearFw, BlUpdating
      <3>2. QED
        BY <1>1, <2>2, <3>1 DEF PowerLoss, TearUpd, BlUpdating, IInv, FirmwareInv
    <2>3. QED
      BY <1>1, <2>1, <2>2
         DEF Next, Bootloader, Firmware, Client, vars, BlDecide, BlCopyDone,
             BlStart, FwErase, FwRewrite, FwProgram, WatchdogReboot,
             StartUpdate, SendCommand, CommandLost, CommandOk, CommandFailed,
             PingOk, PingTimeout, Dismiss, ConsoleReset
  <1>2. Spec => []IInv
    BY Invariance
  <1>3. QED
    BY <1>1, <1>2, PTL DEF Spec, FirmwareReplacedFromWhole

\* The step of FirmwareStore that a step of the update path implements.
LEMMA StoreStep ==
    ASSUME IInv, IInv', [Next]_vars, SafeFirstSector
    PROVE  [Store!Next]_<<Installed, Held(upd)>>
  <1> USE DEF IInv
  <1> DEFINE Same == fw' = fw /\ (chip'.pc = "bl_first" <=> chip.pc = "bl_first")
  <1>1. Held(upd)' \in SUBSET Images
    BY DEF Held
  <1>2. ASSUME upd' = upd PROVE Held(upd)' = Held(upd)
    BY <1>2 DEF Held
  <1>3. ASSUME upd' = upd, Same PROVE Installed' = Installed
    BY <1>3 DEF Installed, Held, IsValid
  <1>4. ASSUME ~IsValid(fw) \/ chip.pc = "bl_first" PROVE Installed = Held(upd)
    BY <1>4 DEF Installed
  <1>5. ASSUME ~IsValid(fw') \/ chip'.pc = "bl_first" PROVE Installed' = Held(upd)'
    BY <1>5 DEF Installed, IsValid
  <1>6. CASE Bootloader
    <2>1. upd' = upd
      BY <1>6 DEF Bootloader, BlDecide, BlEraseFirst, BlCopy, BlCopyDone,
                  BlProgram, BlStart
    <2>2. CASE BlDecide \/ BlStart
      BY <1>2, <1>3, <2>1, <2>2 DEF BlDecide, BlStart, TypeOK, ChipType
    <2>3. CASE BlEraseFirst
      <3>1. ~IsValid(fw')
        BY <2>3, SectorFacts DEF BlEraseFirst, TypeOK, Partition, IsValid
      <3>2. Held(upd) # {}
        BY <2>3 DEF BlEraseFirst, FirmwareInv, BlUpdating
      <3>3. QED
        BY <1>2, <1>5, <2>1, <3>1, <3>2 DEF Store!Next, Store!Install
    <2>4. CASE BlCopyDone
      <3>1. ~IsValid(fw) /\ chip'.pc = "bl_first"
        BY <2>4, SectorFacts DEF BlCopyDone, CopyInv, IsValid, TypeOK, ChipType
      <3>2. QED
        BY <1>2, <1>4, <1>5, <2>1, <3>1
    <2>5. CASE BlCopy
      <3>1. ~IsValid(fw)
        BY <2>5, SectorFacts DEF BlCopy, CopyInv, IsValid
      <3>2. chip'.pc \in {"bl_copy", "bl_program"}
        BY <2>5 DEF BlCopy, TypeOK, ChipType
      <3>3. ~IsValid(fw')
        BY <3>2, SectorFacts DEF CopyInv, IsValid
      <3>4. QED
        BY <1>2, <1>4, <1>5, <2>1, <3>1, <3>3
    <2>6. CASE BlProgram
      <3>1. CASE chip.pc = "bl_program"
        <4>1. ~IsValid(fw)
          BY <3>1, SectorFacts DEF CopyInv, IsValid
        <4>2. chip'.pc \in {"bl_copy", "bl_program"}
          BY <2>6, <3>1 DEF BlProgram, TypeOK, ChipType
        <4>3. ~IsValid(fw')
          BY <4>2, SectorFacts DEF CopyInv, IsValid
        <4>4. QED
          BY <1>2, <1>4, <1>5, <2>1, <4>1, <4>3
      <3>2. CASE chip.pc = "bl_first" /\ chip.page < NumPages - 1
        <4>1. chip'.pc = "bl_first"
          BY <2>6, <3>2 DEF BlProgram, TypeOK, ChipType
        <4>2. QED
          BY <1>2, <1>4, <1>5, <2>1, <3>2, <4>1
      <3>3. CASE chip.pc = "bl_first" /\ chip.page = NumPages - 1
        <4>1. fw' = upd
          BY <2>6, <3>3, BlProgramStep
        <4>2. Installed' = Held(upd)'
          BY <2>1, <4>1 DEF Installed, Held
        <4>3. QED
          BY <1>2, <1>4, <2>1, <3>3, <4>2
      <3>4. QED
        BY <2>6, <3>1, <3>2, <3>3, BlProgramStep, SizeAssumption DEF BlProgram, Pages
    <2>7. QED
      BY <1>6, <2>2, <2>3, <2>4, <2>5, <2>6 DEF Bootloader
  <1>7. CASE FwErase \/ FwRewrite \/ FwProgram
    <2>1. /\ fw' = fw /\ chip.pc \in FwStates
          /\ chip'.pc # "bl_first" /\ chip.pc # "bl_first"
      BY <1>7 DEF FwErase, FwRewrite, FwProgram, TypeOK, ChipType, FwStates
    <2>2. IsValid(fw)
      BY <2>1 DEF FirmwareInv
    <2>3. Installed' = Installed
      BY <2>1, <2>2 DEF Installed, IsValid, Held
    <2>4. QED
      BY <1>1, <2>3 DEF Store!Next, Store!Upload
  <1>8. CASE WatchdogReboot \/ ConsoleReset
    <2>1. /\ fw' = fw /\ upd' = upd
          /\ chip'.pc # "bl_first" /\ chip.pc # "bl_first"
      BY <1>8 DEF WatchdogReboot, ConsoleReset, RequestInv, TypeOK, ChipType, FwStates
    <2>2. QED
      BY <1>2, <1>3, <2>1
  <1>9. CASE PowerLoss
    <2>1. chip'.pc = "boot"
      BY <1>9 DEF PowerLoss, TypeOK, ChipType
    <2>2. CASE fw' # fw \/ chip.pc = "bl_first"
      <3>1. ~IsValid(fw') /\ chip.pc \in BlUpdating
        BY <1>9, <2>2, PowerLossTears DEF BlUpdating
      <3>2. upd' = upd /\ Held(upd) # {}
        BY <1>9, <3>1 DEF PowerLoss, TearUpd, BlUpdating, FirmwareInv
      <3>3. QED
        BY <1>2, <1>5, <3>1, <3>2 DEF Store!Next, Store!Install
    <2>3. CASE fw' = fw /\ chip.pc # "bl_first"
      <3>1. CASE upd' = upd
        BY <1>2, <1>3, <2>1, <2>3, <3>1
      <3>2. CASE upd' # upd
        <4>1. IsValid(fw)
          BY <1>9, <3>2 DEF PowerLoss, TearUpd, FirmwareInv, FwStates
        <4>2. Installed' = Installed
          BY <2>1, <2>3, <4>1 DEF Installed, IsValid, Held
        <4>3. QED
          BY <1>1, <4>2 DEF Store!Next, Store!Upload
      <3>3. QED
        BY <3>1, <3>2
    <2>4. QED
      BY <2>2, <2>3
  <1>10. CASE SendCommand
    <2>1. fw' = fw /\ upd' = upd
      BY <1>10 DEF SendCommand, ExecCommand, ExecWriteLock, ExecEraseFlashSector,
                   ExecGetFlashSectorSize, ExecWriteFlashSector, ExecReboot
    <2>2. chip.pc # "bl_first" /\ chip'.pc # "bl_first"
      BY <1>10 DEF SendCommand, ExecCommand, ExecWriteLock, ExecEraseFlashSector,
                   ExecGetFlashSectorSize, ExecWriteFlashSector, ExecReboot,
                   TypeOK, ChipType
    <2>3. QED
      BY <1>2, <1>3, <2>1, <2>2
  <1>11. CASE \/ UNCHANGED vars
              \/ \E i \in Images : StartUpdate(i)
              \/ CommandLost \/ CommandOk \/ CommandFailed
              \/ PingOk \/ PingTimeout \/ Dismiss
    <2>1. fw' = fw /\ upd' = upd /\ chip' = chip
      BY <1>11 DEF vars, StartUpdate, CommandLost, CommandOk, CommandFailed,
                   PingOk, PingTimeout, Dismiss
    <2>2. QED
      BY <1>2, <1>3, <2>1
  <1>12. QED
    BY <1>6, <1>7, <1>8, <1>9, <1>10, <1>11 DEF Next, Firmware, Client

\* The update path implements FirmwareStore: an installation is atomic.
THEOREM UpdateIsAtomic == ASSUME SafeFirstSector PROVE Spec => InstallIsAtomic
  <1>1. Init => Store!Init
    <2>1. SUFFICES ASSUME Init PROVE Store!Init
      OBVIOUS
    <2>2. IInv
      BY <2>1, InitInv
    <2>3. chip.pc = "boot"
      BY <2>1 DEF Init
    <2>4. IsValid(fw)
      <3>1. Held(upd) = {}
        <4>1. upd \in Partition /\ ~IsValid(upd)
          BY <2>1, <2>2, SectorFacts DEF Init, IInv, TypeOK, IsValid
        <4>2. QED
          BY <4>1, HeldIsValid
      <3>2. QED
        BY <2>2, <3>1 DEF IInv, FirmwareInv
    <2>5. Installed # {} /\ Installed \in SUBSET Images
      BY <2>2, <2>3, <2>4 DEF Installed, IInv, FirmwareInv, Held
    <2>6. Held(upd) \in SUBSET Images
      BY DEF Held
    <2>7. Installed \in (SUBSET Images) \ {{}}
      BY <2>5
    <2>8. QED
      BY <2>6, <2>7 DEF Store!Init
  <1>2. IInv /\ IInv' /\ [Next]_vars => [Store!Next]_<<Installed, Held(upd)>>
    BY StoreStep
  <1>3. Spec => []IInv
    BY Invariance
  <1>4. QED
    BY <1>1, <1>2, <1>3, PTL DEF Spec, InstallIsAtomic, Store!Spec
=============================================================================
