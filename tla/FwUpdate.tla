------------------------------ MODULE FwUpdate ------------------------------
(***************************************************************************)
(* The firmware update path of the modchip, across the three programs that *)
(* take part in it:                                                        *)
(*                                                                         *)
(*   - the menu on the console (scene/settings/update/writing.c and        *)
(*     rebooting.c) uploads an image into the update partition, one flash  *)
(*     sector per command, and asks the chip to reboot;                    *)
(*   - the firmware on the chip (boot_rom/write/flash.c) executes those    *)
(*     commands: write lock, erase, write sector, reboot;                  *)
(*   - the bootloader (fruitchip-fw-bootloader/src/main.c) copies the      *)
(*     update partition over the firmware partition and starts it.         *)
(*                                                                         *)
(* Flash is modelled page by page, since a power loss can stop it between  *)
(* two pages.  Neither partition carries a checksum of the whole image:    *)
(* the bootloader only checks the CRC of the boot2 page, the first page of *)
(* the first sector.  What makes the update safe is the order in which     *)
(* sectors are written, and that order is what this module is about.       *)
(***************************************************************************)
EXTENDS Integers

CONSTANTS
    Images,            \* firmware images a user may install
    Data,              \* contents of a 256 byte flash page
    Boot2,             \* page contents with a correct CRC in the last word
    Erased,            \* the content of an erased page, all 0xFF
    Torn,              \* the content of a page whose erase or program was cut
    NumSectors,        \* sectors of the firmware and of the update partition
    NumPages,          \* pages of a sector
    ImgLen,            \* ImgLen[i]: sectors image i occupies
    Content,           \* Content[i][s][p]: page p of sector s of image i
    Retries,           \* MODCHIP_CMD_RETRIES
    FirstSectorTears   \* can power fail between two pages of the first
                       \* firmware sector while the bootloader programs it?

Sectors == 0..(NumSectors - 1)
Pages   == 0..(NumPages - 1)

\* Partitions have a first sector that can be written (see IsValidAddr), and
\* a sector has at least its boot2 page.
ASSUME SizeAssumption ==
    /\ NumSectors \in Nat \ {0, 1}
    /\ NumPages \in Nat \ {0}
    /\ Retries \in Nat \ {0}
    /\ FirstSectorTears \in BOOLEAN

\* Every image begins with a boot2 page; an erased or a torn page never has
\* a correct CRC.
ASSUME ImageAssumption ==
    /\ Erased \in Data /\ Torn \in Data
    /\ Boot2 \subseteq Data \ {Erased, Torn}
    /\ ImgLen \in [Images -> 1..NumSectors]
    /\ Content \in [Images -> [Sectors -> [Pages -> Data]]]
    /\ \A i \in Images : Content[i][0][0] \in Boot2

-----------------------------------------------------------------------------
VARIABLES
    fw,       \* firmware partition
    upd,      \* update partition
    lock,     \* flash_write_lock
    scratch,  \* watchdog scratch[0] holds MODCHIP_UPDATE_MAGIC
    pending,  \* watchdog_reboot is counting down its 100 ms
    chip,     \* what the RP2040 executes
    resp,     \* status word waiting in the data out state machine
    menu      \* the update scenes of the menu

vars == <<fw, upd, lock, scratch, pending, chip, resp, menu>>

FwStates == {"fw", "fw_erase", "fw_rewrite", "fw_program"}
BlStates == {"boot", "bl_erase", "bl_copy", "bl_program", "bl_first",
             "bl_start", "usb"}

\* Scenes and the commands issued in them: unlock .. relock are the steps of
\* scene_tick_handler_update_writing, reboot and ping those of
\* scene_tick_handler_update_rebooting.
CmdStates  == {"unlock", "erase", "size", "write", "first", "relock", "reboot"}
MenuStates == CmdStates \cup {"idle", "ping", "complete", "message"}

Partition == [Sectors -> [Pages -> Data]]

ChipType == [pc : FwStates \cup BlStates, sec : 0..NumSectors, page : Pages,
             img : Images]

MenuType == [pc : MenuStates, img : Images, sec : 0..NumSectors,
             tries : 0..(Retries - 1), waiting : BOOLEAN, done : BOOLEAN]

TypeOK ==
    /\ fw \in Partition
    /\ upd \in Partition
    /\ lock \in BOOLEAN
    /\ scratch \in BOOLEAN
    /\ pending \in BOOLEAN
    /\ chip \in ChipType
    /\ resp \in {"none", "ok", "err"}
    /\ menu \in MenuType

\* is_fw_valid and is_update_valid: the CRC of boot2, and nothing else.
IsValid(part) == part[0][0] \in Boot2

\* The images a partition holds completely.
Held(part) ==
    {i \in Images : \A s \in 0..(ImgLen[i] - 1) : part[s] = Content[i][s]}

\* Programming a page only clears bits: it needs a page that is erased.
Burnt(old, new) == IF old \in {Erased, new} THEN new ELSE Torn

\* flash_range_program, one page: page p of sector s of a partition gets page
\* p of the sector buffer.
ProgramPage(part, s, p, sector) ==
    [part EXCEPT ![s][p] = Burnt(@, sector[p])]

EmptySector == [p \in Pages |-> Erased]
TornSector  == [p \in Pages |-> Torn]

-----------------------------------------------------------------------------
\* A chip as it leaves the factory: an image in the firmware partition,
\* nothing in the update partition, the console off.
Init ==
    /\ \E i \in Images :
          /\ fw = [s \in Sectors |-> IF s < ImgLen[i] THEN Content[i][s]
                                                     ELSE EmptySector]
          /\ chip = [pc |-> "boot", sec |-> 0, page |-> 0, img |-> i]
          /\ menu = [pc |-> "idle", img |-> i, sec |-> 0, tries |-> 0,
                     waiting |-> FALSE, done |-> FALSE]
    /\ upd = [s \in Sectors |-> EmptySector]
    /\ lock = TRUE
    /\ scratch = FALSE
    /\ pending = FALSE
    /\ resp = "none"

-----------------------------------------------------------------------------
(***************************************************************************)
(* Bootloader                                                              *)
(***************************************************************************)

\* Mutants of BlDecide: the request is required, or not looked at.
BlDecideOnRequestOnly ==
    /\ chip.pc = "boot"
    /\ chip' = [chip EXCEPT !.pc = IF scratch /\ IsValid(upd)
                                   THEN "bl_erase" ELSE "bl_start"]
    /\ UNCHANGED <<fw, upd, lock, scratch, pending, resp, menu>>

BlDecideWithoutRequest ==
    /\ chip.pc = "boot"
    /\ chip' = [chip EXCEPT !.pc = IF IsValid(upd) /\ upd[0] # fw[0]
                                   THEN "bl_erase" ELSE "bl_start"]
    /\ UNCHANGED <<fw, upd, lock, scratch, pending, resp, menu>>

\* main: decide whether to update.
BlDecide ==
    /\ chip.pc = "boot"
    /\ chip' = [chip EXCEPT !.pc = IF /\ scratch \/ ~IsValid(fw)
                                      /\ IsValid(upd)
                                   THEN "bl_erase" ELSE "bl_start"]
    /\ UNCHANGED <<fw, upd, lock, scratch, pending, resp, menu>>

\* Mutants of BlEraseFirst: the erase is left out, or the loop starts late.
BlEraseNothing ==
    /\ chip.pc = "bl_erase"
    /\ chip' = [chip EXCEPT !.pc = "bl_copy", !.sec = 1]
    /\ UNCHANGED <<fw, upd, lock, scratch, pending, resp, menu>>

BlEraseFirstSkipsOne ==
    /\ chip.pc = "bl_erase"
    /\ fw' = [fw EXCEPT ![0] = EmptySector]
    /\ chip' = [chip EXCEPT !.pc = "bl_copy", !.sec = 2]
    /\ UNCHANGED <<upd, lock, scratch, pending, resp, menu>>

\* Erase the first firmware sector: the old firmware is gone from here on.
BlEraseFirst ==
    /\ chip.pc = "bl_erase"
    /\ fw' = [fw EXCEPT ![0] = EmptySector]
    /\ chip' = [chip EXCEPT !.pc = "bl_copy", !.sec = 1]
    /\ UNCHANGED <<upd, lock, scratch, pending, resp, menu>>

\* One turn of the copy loop: skip an equal sector, or erase it.
BlCopy ==
    /\ chip.pc = "bl_copy"
    /\ chip.sec < NumSectors
    /\ IF fw[chip.sec] = upd[chip.sec]
       THEN /\ chip' = [chip EXCEPT !.sec = @ + 1]
            /\ UNCHANGED fw
       ELSE /\ fw' = [fw EXCEPT ![chip.sec] = EmptySector]
            /\ chip' = [chip EXCEPT !.pc = "bl_program", !.page = 0]
    /\ UNCHANGED <<upd, lock, scratch, pending, resp, menu>>

\* The loop is over, the first sector is next.
BlCopyDone ==
    /\ chip.pc = "bl_copy"
    /\ chip.sec = NumSectors
    /\ chip' = [chip EXCEPT !.pc = "bl_first", !.sec = 0, !.page = 0]
    /\ UNCHANGED <<fw, upd, lock, scratch, pending, resp, menu>>

\* flash_range_program of the bootloader, one page.
BlProgram ==
    /\ chip.pc \in {"bl_program", "bl_first"}
    /\ fw' = ProgramPage(fw, chip.sec, chip.page, upd[chip.sec])
    /\ chip' =
          IF chip.page < NumPages - 1
          THEN [chip EXCEPT !.page = @ + 1]
          ELSE IF chip.pc = "bl_program"
               THEN [chip EXCEPT !.pc = "bl_copy", !.sec = @ + 1, !.page = 0]
               ELSE [chip EXCEPT !.pc = "bl_start", !.page = 0]
    /\ UNCHANGED <<upd, lock, scratch, pending, resp, menu>>

\* Mutant of BlStart: the request survives the update.
BlStartKeepsRequest ==
    /\ chip.pc = "bl_start"
    /\ chip' = [chip EXCEPT !.pc = IF IsValid(fw) THEN "fw" ELSE "usb"]
    /\ lock' = TRUE
    /\ UNCHANGED <<fw, upd, scratch, pending, resp, menu>>

\* Forget the request, then try_start_firmware or fall into USB boot.  The
\* firmware starts with its static state: flash_write_lock is true.
BlStart ==
    /\ chip.pc = "bl_start"
    /\ scratch' = FALSE
    /\ chip' = [chip EXCEPT !.pc = IF IsValid(fw) THEN "fw" ELSE "usb"]
    /\ lock' = TRUE
    /\ UNCHANGED <<fw, upd, pending, resp, menu>>

Bootloader == \/ BlDecide \/ BlEraseFirst \/ BlCopy \/ BlCopyDone
              \/ BlProgram \/ BlStart

-----------------------------------------------------------------------------
(***************************************************************************)
(* Firmware: flash operations that are under way                           *)
(***************************************************************************)

\* erase_flash_sector: flash_range_erase of a sector that was not empty.
FwErase ==
    /\ chip.pc = "fw_erase"
    /\ upd' = [upd EXCEPT ![chip.sec] = EmptySector]
    /\ chip' = [chip EXCEPT !.pc = "fw"]
    /\ resp' = "ok"
    /\ UNCHANGED <<fw, lock, scratch, pending, menu>>

\* write_flash_sector: flash_range_erase, then flash_range_program.
FwRewrite ==
    /\ chip.pc = "fw_rewrite"
    /\ upd' = [upd EXCEPT ![chip.sec] = EmptySector]
    /\ chip' = [chip EXCEPT !.pc = "fw_program", !.page = 0]
    /\ UNCHANGED <<fw, lock, scratch, pending, resp, menu>>

FwProgram ==
    /\ chip.pc = "fw_program"
    /\ upd' = ProgramPage(upd, chip.sec, chip.page, Content[chip.img][chip.sec])
    /\ IF chip.page < NumPages - 1
       THEN /\ chip' = [chip EXCEPT !.page = @ + 1]
            /\ UNCHANGED resp
       ELSE /\ chip' = [chip EXCEPT !.pc = "fw", !.page = 0]
            /\ resp' = "ok"
    /\ UNCHANGED <<fw, lock, scratch, pending, menu>>

\* The watchdog fires 100 ms after the REBOOT command.  It keeps scratch[0].
WatchdogReboot ==
    /\ pending
    /\ pending' = FALSE
    /\ chip' = [chip EXCEPT !.pc = "boot"]
    /\ resp' = "none"
    /\ UNCHANGED <<fw, upd, lock, scratch, menu>>

Firmware == FwErase \/ FwRewrite \/ FwProgram \/ WatchdogReboot

-----------------------------------------------------------------------------
(***************************************************************************)
(* Firmware: what a received command does                                  *)
(***************************************************************************)

\* The address check of the flash commands.  It compares with < where <=
\* would do, so the last sector of the partition is refused.
IsValidAddr(s) == s + 1 < NumSectors

ExecWriteLock(value) ==
    /\ lock' = value
    /\ resp' = "ok"
    /\ UNCHANGED <<upd, scratch, pending, chip>>

ExecGetFlashSectorSize ==
    /\ resp' = "ok"
    /\ UNCHANGED <<upd, lock, scratch, pending, chip>>

ExecEraseFlashSector(s) ==
    /\ IF ~lock /\ IsValidAddr(s)
       THEN IF upd[s] = EmptySector
            THEN resp' = "ok" /\ UNCHANGED chip
            ELSE /\ chip' = [chip EXCEPT !.pc = "fw_erase", !.sec = s]
                 /\ UNCHANGED resp
       ELSE resp' = "err" /\ UNCHANGED chip
    /\ UNCHANGED <<upd, lock, scratch, pending>>

ExecWriteFlashSector(s, i) ==
    /\ IF ~lock /\ IsValidAddr(s)
       THEN IF upd[s] = Content[i][s]
            THEN resp' = "ok" /\ UNCHANGED chip
            ELSE /\ chip' = [chip EXCEPT !.pc = "fw_rewrite", !.sec = s,
                                         !.img = i]
                 /\ UNCHANGED resp
       ELSE resp' = "err" /\ UNCHANGED chip
    /\ UNCHANGED <<upd, lock, scratch, pending>>

ExecReboot ==
    /\ scratch' = TRUE
    /\ pending' = TRUE
    /\ resp' = "ok"
    /\ UNCHANGED <<upd, lock, chip>>

\* The command the menu sends in its current step.
ExecCommand ==
    \/ menu.pc = "unlock" /\ ExecWriteLock(FALSE)
    \/ menu.pc = "erase"  /\ ExecEraseFlashSector(0)
    \/ menu.pc = "size"   /\ ExecGetFlashSectorSize
    \/ menu.pc = "write"  /\ ExecWriteFlashSector(menu.sec, menu.img)
    \/ menu.pc = "first"  /\ ExecWriteFlashSector(0, menu.img)
    \/ menu.pc = "relock" /\ ExecWriteLock(TRUE)
    \/ menu.pc = "reboot" /\ ExecReboot

-----------------------------------------------------------------------------
(***************************************************************************)
(* Menu                                                                    *)
(***************************************************************************)

Goto(state) == [menu EXCEPT !.pc = state, !.tries = 0, !.waiting = FALSE]

\* The user confirms an update file; scene_tick_handler_update_checking has
\* accepted it (it fits the partition).  The walk through the scenes takes a
\* user longer than the 100 ms of a watchdog that is counting down.
StartUpdate(i) ==
    /\ menu.pc = "idle"
    /\ ~pending
    /\ ImgLen[i] <= NumSectors
    /\ menu' = [Goto("unlock") EXCEPT !.img = i, !.sec = 0, !.done = FALSE]
    /\ UNCHANGED <<fw, upd, lock, scratch, pending, chip, resp>>

\* Poke the command of the current step.  The chip only listens when it runs
\* the firmware, has no flash operation under way and no answer left to send:
\* the sniffers are stopped otherwise.
SendCommand ==
    /\ menu.pc \in CmdStates
    /\ ~menu.waiting
    /\ menu' = [menu EXCEPT !.waiting = TRUE]
    /\ chip.pc = "fw"
    /\ resp = "none"
    /\ ExecCommand
    /\ UNCHANGED fw

\* The chip does not listen, or a byte of the command is lost.
CommandLost ==
    /\ menu.pc \in CmdStates
    /\ ~menu.waiting
    /\ menu' = [menu EXCEPT !.waiting = TRUE]
    /\ UNCHANGED <<fw, upd, lock, scratch, pending, chip, resp>>

\* Mutant of Proceed: the last, partly filled sector is not counted.
ProceedTruncated ==
    CASE menu.pc = "unlock" -> Goto("erase")
      [] menu.pc = "erase"  -> Goto("size")
      [] menu.pc = "size"   -> [Goto("write") EXCEPT !.sec = 1]
      [] menu.pc = "write" /\ menu.sec + 2 < ImgLen[menu.img]
                            -> [Goto("write") EXCEPT !.sec = @ + 1]
      [] menu.pc = "write" /\ menu.sec + 2 >= ImgLen[menu.img]
                            -> Goto("first")
      [] menu.pc = "first"  -> [Goto("relock") EXCEPT !.done = TRUE]
      [] menu.pc = "relock" -> Goto(IF menu.done THEN "reboot" ELSE "message")
      [] menu.pc = "reboot" -> Goto("ping")

\* What follows a command that returned true.
Proceed ==
    CASE menu.pc = "unlock" -> Goto("erase")
      [] menu.pc = "erase"  -> Goto("size")
      [] menu.pc = "size" /\ ImgLen[menu.img] > 1
                            -> [Goto("write") EXCEPT !.sec = 1]
      [] menu.pc = "size" /\ ImgLen[menu.img] = 1 -> Goto("first")
      [] menu.pc = "write" /\ menu.sec + 1 < ImgLen[menu.img]
                            -> [Goto("write") EXCEPT !.sec = @ + 1]
      [] menu.pc = "write" /\ menu.sec + 1 >= ImgLen[menu.img]
                            -> Goto("first")
      [] menu.pc = "first"  -> [Goto("relock") EXCEPT !.done = TRUE]
      [] menu.pc = "relock" -> Goto(IF menu.done THEN "reboot" ELSE "message")
      [] menu.pc = "reboot" -> Goto("ping")

\* Mutant of GiveUp: the result of writing the first sector is ignored.
GiveUpUnchecked ==
    CASE menu.pc = "relock" -> Goto(IF menu.done THEN "reboot" ELSE "message")
      [] menu.pc = "reboot" -> Goto("message")
      [] menu.pc = "first"  -> [Goto("relock") EXCEPT !.done = TRUE]
      [] OTHER              -> Goto("relock")

\* What follows when the last attempt returned false: every failure of the
\* writing scene goes to its exit label, which locks again.
GiveUp ==
    CASE menu.pc = "relock" -> Goto(IF menu.done THEN "reboot" ELSE "message")
      [] menu.pc = "reboot" -> Goto("message")
      [] OTHER              -> Goto("relock")

\* The peeked status word is MODCHIP_CMD_RESULT_OK.
CommandOk ==
    /\ menu.pc \in CmdStates
    /\ menu.waiting
    /\ resp = "ok"
    /\ resp' = "none"
    /\ menu' = Proceed
    /\ UNCHANGED <<fw, upd, lock, scratch, pending, chip>>

\* Mutants of CommandFailed: one attempt too many, and retries not counted.
CommandFailedOffByOne ==
    /\ menu.pc \in CmdStates
    /\ menu.waiting
    /\ resp' = "none"
    /\ menu' = IF menu.tries < Retries
               THEN [menu EXCEPT !.tries = @ + 1, !.waiting = FALSE]
               ELSE GiveUp
    /\ UNCHANGED <<fw, upd, lock, scratch, pending, chip>>

CommandFailedForever ==
    /\ menu.pc \in CmdStates
    /\ menu.waiting
    /\ resp' = "none"
    /\ menu' = [menu EXCEPT !.waiting = FALSE]
    /\ UNCHANGED <<fw, upd, lock, scratch, pending, chip>>

\* The peeked word is anything else: an error status, a status that was
\* misread on the bus, BUSY for a command that does not expect it, or the
\* content of the ROM when the chip drives nothing.  A status word that was
\* there is consumed all the same.
CommandFailed ==
    /\ menu.pc \in CmdStates
    /\ menu.waiting
    /\ resp' = "none"
    /\ menu' = IF menu.tries + 1 < Retries
               THEN [menu EXCEPT !.tries = @ + 1, !.waiting = FALSE]
               ELSE GiveUp
    /\ UNCHANGED <<fw, upd, lock, scratch, pending, chip>>

\* modchip_ping in the loop that waits for the reboot.
PingOk ==
    /\ menu.pc = "ping"
    /\ chip.pc = "fw"
    /\ resp = "none"
    /\ menu' = Goto("complete")
    /\ UNCHANGED <<fw, upd, lock, scratch, pending, chip, resp>>

\* REBOOT_DEADLINE_SEC is over, while the ping still fails.
PingTimeout ==
    /\ menu.pc = "ping"
    /\ menu' = Goto("message")
    /\ UNCHANGED <<fw, upd, lock, scratch, pending, chip, resp>>

\* The user leaves the "Update complete" or the message scene.
Dismiss ==
    /\ menu.pc \in {"complete", "message"}
    /\ menu' = Goto("idle")
    /\ UNCHANGED <<fw, upd, lock, scratch, pending, chip, resp>>

Client == SendCommand \/ CommandLost \/ CommandOk \/ CommandFailed

-----------------------------------------------------------------------------
(***************************************************************************)
(* Environment: console reset and power loss                               *)
(***************************************************************************)

MenuRestarted == menu' = [Goto("idle") EXCEPT !.done = FALSE]

\* The reset button of the console: the menu starts over and reset_pressed
\* reboots the chip through the watchdog, which keeps scratch[0].  The flash
\* chip finishes the page it is at.  Only the firmware listens to the button.
ConsoleReset ==
    /\ chip.pc \in FwStates
    /\ chip' = [chip EXCEPT !.pc = "boot"]
    /\ pending' = FALSE
    /\ resp' = "none"
    /\ MenuRestarted
    /\ UNCHANGED <<fw, upd, lock, scratch>>

\* What a power loss leaves of the page or sector that is being changed.
TearFw ==
    \/ UNCHANGED fw
    \/ /\ chip.pc = "bl_erase"
       /\ fw' = [fw EXCEPT ![0] = TornSector]
    \/ /\ chip.pc = "bl_copy"
       /\ chip.sec < NumSectors
       /\ fw[chip.sec] # upd[chip.sec]
       /\ fw' = [fw EXCEPT ![chip.sec] = TornSector]
    \/ /\ chip.pc \in {"bl_program", "bl_first"}
       /\ fw' = [fw EXCEPT ![chip.sec][chip.page] = Torn]

TearUpd ==
    \/ UNCHANGED upd
    \/ /\ chip.pc \in {"fw_erase", "fw_rewrite"}
       /\ upd' = [upd EXCEPT ![chip.sec] = TornSector]
    \/ /\ chip.pc = "fw_program"
       /\ upd' = [upd EXCEPT ![chip.sec][chip.page] = Torn]

\* Power is lost and comes back.  The watchdog scratch register is cleared.
PowerLoss ==
    /\ FirstSectorTears \/ ~(chip.pc = "bl_first" /\ chip.page > 0)
    /\ TearFw
    /\ TearUpd
    /\ chip' = [chip EXCEPT !.pc = "boot"]
    /\ scratch' = FALSE
    /\ pending' = FALSE
    /\ resp' = "none"
    /\ MenuRestarted
    /\ UNCHANGED lock

-----------------------------------------------------------------------------
Next ==
    \/ Bootloader
    \/ Firmware
    \/ \E i \in Images : StartUpdate(i)
    \/ Client
    \/ PingOk
    \/ PingTimeout
    \/ Dismiss
    \/ ConsoleReset
    \/ PowerLoss

Spec == Init /\ [][Next]_vars

\* The BUSY loop of modchip_erase_flash_sector and modchip_write_flash_sector:
\* only the end of the flash operation lets the menu go on.
InBusyLoop == /\ menu.waiting
              /\ menu.pc \in {"erase", "write", "first"}
              /\ chip.pc \in FwStates \ {"fw"}

\* The chip and the menu keep running while they have power, the menu outside
\* of its BUSY loop; the user may do nothing, and power and reset are left
\* alone from some point on.
FairSpec ==
    /\ Spec
    /\ WF_vars(Bootloader)
    /\ WF_vars(Firmware)
    /\ WF_vars(~InBusyLoop /\ Client)
    /\ <>[][~(PowerLoss \/ ConsoleReset)]_vars

-----------------------------------------------------------------------------
(***************************************************************************)
(* Properties                                                              *)
(***************************************************************************)

\* The firmware that runs is an image in one piece, although the bootloader
\* checks only its boot2 page before it jumps into it.
RunningFirmwareWhole == chip.pc \in FwStates => Held(fw) # {}

\* "in case update is interrupted, this should allow to retry the update"
\* (bootloader main.c:156): whenever the firmware partition fails its check,
\* the update partition still holds the whole image.  So the chip never ends
\* in the USB boot loader.
RetryPossible ==
    /\ ~IsValid(fw) => Held(upd) # {}
    /\ chip.pc # "usb"

\* An update that was requested installs an image in one piece: neither a
\* second upload nor a flash operation that outlived its command changes the
\* update partition between the request and the copy.
RequestedUpdateWhole ==
    (scratch \/ chip.pc \in {"bl_erase", "bl_copy", "bl_program", "bl_first"})
        => Held(upd) # {}

\* What writing.c has done when it leaves for the rebooting scene: the update
\* partition holds the very image the user picked, whatever was retried, lost
\* or misread on the way.
UploadedImageHeld ==
    (menu.done /\ menu.pc \in {"relock", "reboot"}) => menu.img \in Held(upd)

\* The firmware partition only changes while a whole image waits in the
\* update partition, and the update partition does not change with it.
FirmwareReplacedFromWhole ==
    [][fw' # fw => Held(upd) # {} /\ upd' = upd]_vars

\* An interrupted installation is finished once power holds.
InterruptedUpdateFinishes == ~IsValid(fw) ~> (chip.pc = "fw" /\ Held(fw) # {})

\* The upload scene ends: every retry loop and the BUSY loop terminate.
UploadEnds == (menu.pc \in CmdStates) ~> (menu.pc \notin CmdStates)

\* The image the chip is committed to.  Erasing the first firmware sector is
\* the commit point: from there on it is the one in the update partition,
\* until the first sector is programmed to its last page.
Installed == IF IsValid(fw) /\ chip.pc # "bl_first" THEN Held(fw) ELSE Held(upd)

Store == INSTANCE FirmwareStore WITH installed <- Installed, staged <- Held(upd)

\* The update path implements FirmwareStore: for all its page by page writing,
\* its retries and its interruptions, an installation happens in one step.
InstallIsAtomic == Store!Spec

\* "wait for reboot" (rebooting.c:38): "Update complete" is shown when the
\* chip has been through its reboot.
CompleteAfterReboot == menu.pc = "complete" => ~pending
=============================================================================
