# fruitchip in TLA+

fruitchip is a modchip for the PlayStation 2, built from an RP2040, and the
programs that run with it on the console. The chip sits on the data bus of the
boot ROM: it watches what the console reads and writes there ("pokes") and can
answer a read itself ("peeks"). Its own flash holds a bootloader, the firmware,
an update partition, a partition of apps, and a settings partition.

This directory holds TLA+ specifications of that system, translated from its
source, the TLC configurations that check them on small instances, and proofs
of the most important theorems for every instance, checked by TLAPS. Paths in
this file are relative to the root of the repository, and `PROJECT.json` maps
every definition to the lines it models.

 1. [The system](#1-the-system)
 2. [The modules](#2-the-modules)
 3. [The runs](#3-the-runs)
 4. [The proofs](#4-the-proofs)
 5. [Where code and documentation disagree](#5-where-code-and-documentation-disagree)
 6. [What is not modelled, and the plan](#6-what-is-not-modelled-and-the-plan)

    tlc -workers 2 -config FwUpdate.cfg MCFwUpdate    # a run
    tlapm FwUpdate_proofs.tla                         # the proofs of a module

## 1. The system

### 1.1 Inventory

| Component | Source | State | Operations | Model |
|---|---|---|---|---|
| bootloader | `fruitchip-fw-bootloader/src/main.c` | the firmware and the update partition, the watchdog scratch register with the update request, an erased, copied or programmed sector | decide, copy sector by sector, check boot2, jump | `FwUpdate` |
| flash commands of the firmware | `fruitchip-fw/src/boot_rom/write/flash.c` | write lock, sector buffer, update partition, DMA channel for the CRC | sector size, erase, write, lock, reboot | `FwUpdate`, `Commands`, `DataOut` |
| update scenes of the menu | `fruitchip-menu/src/scene/settings/update/` | the file and its blocks, the image, the next sector, retries | find, ask, check, write, reboot, complete | `Menu`, `UpdateFile`; the upload itself `FwUpdate` |
| flash client library | `fruitchip-include/modchip/flash.h` | attempts of a call | one call per command, with retries and BUSY loop | `FwUpdate`, `Commands` |
| console reset | `fruitchip-fw/src/reset.c` | pulses of the reset line | reboots the chip through the watchdog | `FwUpdate`, `Commands` |
| wear leveling | `fruitchip-fw/lib/wear_leveling/` | consolidated copy and its hash, log, cache, write address | init and playback, append, consolidate | `WearLeveling` |
| settings | `fruitchip-fw/src/settings.c` | `settings_t` in RAM, a version magic | init, reset, one setter per field | `Settings` |
| data out | `fruitchip-fw/src/boot_rom/data_out.c`, `boot_rom.pio` | the DMA lists and channels, TX FIFO, state machine, PING and PONG, sniffers | start, stop, BUSY, interrupt handler | `DataOut` |
| command parser | `fruitchip-fw/src/boot_rom/write/`, `handler.c` | handler pointer, byte counter, argument buffers, hook flag | one handler per command and argument | `Commands` |
| self test commands | `fruitchip-fw/src/boot_rom/write/test.c`, `fruitchip-test-ps2/` | none of its own | answers of every shape | `Commands`, `DataOut` |
| client library | `fruitchip-include/modchip/` | attempts of a call | peeks and pokes of each call, CRC, retries | `Commands` |
| fwfs | `fruitchip-fwfs/src/fwfs.c` | file handles, semaphore | open, close, read, lseek, getstat | `Fwfs` |
| read handlers | `fruitchip-fw/src/boot_rom/read/` | handler pointer, counter, flag that skips the next injection | recognise OSDSYS or IOPBOOT byte by byte, put stage 1 in the place of a system call | `ReadHandlers`, `Boot` |
| start of the firmware | `fruitchip-fw/src/main.c`, `reset.c` | what each core has initialised | init of core 0 and core 1, restart after a long reset | `Boot` |
| loaders | `fruitchip-loader/ee/` | what is in memory, attempts, color of the screen | stage 1 reads and checks stage 2, stage 2 reads the menu segment by segment | `Boot` |
| menu | `fruitchip-menu/src/` | scene stack, lists and their highlighted index, autoboot countdown, settings, callbacks | input, tick and paint handlers of every scene, alarm, launch | `Menu` |
| masswatch | `fruitchip-menu/lib/masswatch/` | events on their way | notification from the IOP to the EE | `Menu` |
| apps partition builder | `fruitchip-fw-apps/build_apps_partition.py` | none | layout of the apps partition | not a state machine |
| drawing, fonts, pads, LED | menu sources, vendored code | presentation | | not modelled |

### 1.2 How the components interact

    console (EE, IOP)                      bus                 chip (RP2040)
    -----------------                      ---                 -------------
    menu, loaders --+
                    +-> client library --pokes--> write sniffer -> command parser
    fwfs -----------+        (Commands)  <-peeks-- data out  <---- (core 0)
      (Fwfs)                                     (DataOut:             |
                                                  DMA, SM, core 1)     |
                                                                       v
                             settings -> wear leveling -> flash   flash commands
                           (Settings)   (WearLeveling)              (FwUpdate)
                                                                       |
                            bootloader <-- scratch register, flash <---+

- The console and the chip share nothing but bytes on a bus. Commands are not
  framed and not acknowledged byte by byte; each argument is followed by its
  complement, each answer begins with a status word, and some answers end in a
  CRC. The library retries; the chip cannot tell a retry from a new call.
- While the chip answers, its sniffers are off: pokes are not seen.
- Slow commands (erase, write, settings) answer BUSY words round and round until
  the command is done; the library polls.
- The firmware and the bootloader communicate through flash and one scratch
  register that survives a watchdog reboot, not a power loss.
- From power on the console only reads. The read handlers see OSDSYS go by and
  answer the last bytes of it with stage 1 of the loader, which loads stage 2,
  which loads the menu. The menu asks the chip to let one OSDSYS through when
  that is what the user wants next.
- In the menu the main loop, the alarm of the countdown and the events of drives
  (masswatch on the IOP, through an interrupt of the EE) work on the same
  variables.
- The menu, the loaders and fwfs are clients of the same modchip. On the IOP a
  semaphore keeps the threads of fwfs apart; the EE does not take it.

### 1.3 What is hard

- **Crashes.** Power can fail, and the reset button can be pressed, between any
  two flash operations, of the settings, of an upload and of an installation.
  There is no journal; the order of the writes is all there is.
- **Unreliable delivery and retries.** A lost byte shifts the parser; a lost
  answer makes a client send a command that has been executed; an answer that
  was late is read by the next call.
- **Concurrency without locks.** Core 0, the DMA, the PIO state machine and the
  interrupt handler on core 1 take part in each answer, and the end of it is
  recognised by an empty FIFO.
- **Interrupts between the steps of a loop.** The menu's list, its countdown and
  its flag for drives change while a handler of the top scene is half way.
- **Recognition without framing.** The read handlers have to find one program in
  everything the console reads, with resets in the middle of it.
- **Limits.** A log that is full in the middle of a write, the last sector of a
  partition, more files open than there are handles.

`PROJECT.json` lists the hazards that matter most, at the lines where they bite,
with the properties that would catch them, or why none does yet.

### 1.4 What makes each component correct

- *Update path*: the chip always runs a firmware in one piece; an interrupted
  installation can be retried and is; an update is only requested when the
  partition holds all of the image; to an observer an installation is atomic.
- *Settings*: what a setter has answered for is found after a restart; a restart
  in a setter finds the old or the new value; a restart in a consolidation finds
  all settings or none, never a mixture; the library programs erased flash only.
- *Commands*: the firmware executes what is asked and nothing else, whatever is
  lost; a call that reports success was executed and returns its own answer; a
  lost byte costs two attempts at most (one exception: section 2.3); calls end.
- *Data out*: the console reads the bytes of its answer, in order, all of them
  and nothing else; sniffing restarts exactly when the answer is over; nothing
  of an answer is left for the next one.
- *fwfs*: files that are open do not disturb each other; handles are given back
  on every path; the semaphore is.
- *Read handlers and loaders*: stage 1 goes in the place of one system call and
  nowhere else; each OSDSYS is replaced but the one that was to be let through;
  nothing runs that is not whole, and what the screen says is the reason.
- *Menu*: what is launched is what the user sees, or has saved; the list follows
  the drive through every order of events; the countdown never acts from below
  another scene, and it ends; what is written is what was checked.

## 2. The modules

| Module | Kind | About |
|---|---|---|
| `FwUpdate` | detailed | menu, firmware and bootloader during an update |
| `FirmwareStore` | abstract | atomic installation; `FwUpdate` implements it (`InstallIsAtomic`) |
| `WearLeveling` | component | the flash layout, playback and the steps of the library, without Init and Next |
| `Settings` | detailed | composes `WearLeveling` with `settings.c` |
| `SettingsStore` | abstract | one setting at a time, or all defaults; `Settings` implements it (`SettingsAtomic`) |
| `Commands` | detailed | client library and command parser, byte by byte |
| `DataOut` | detailed | the four actors that produce an answer |
| `Fwfs` | detailed | threads, handles and the semaphore |
| `FileService` | abstract | calls answered as if made alone; `Fwfs` implements it (`ServesFiles`) |
| `UpdateFile` | component | what a `.uf2` file has to be, without state |
| `Menu` | detailed | the scenes of the menu, its interrupts and the drive; uses `UpdateFile` |
| `ReadHandlers` | component | one action per handler of a byte that is read |
| `Boot` | detailed | composes `ReadHandlers` with the start of the chip, the console and the loader |
| `MC*` | instances | constants of the runs, no definitions of behaviour |
| `FwUpdate_proofs`, `Settings_proofs`, `Boot_proofs`, `Fwfs_proofs`, `FwfsService_proofs`, `Menu_proofs`, `DataOut_proofs`, `Commands_proofs` | proofs | see section 4 |

In each detailed module some actions stand twice: a definition and, before it,
the same with a plausible mistake (a guard dropped, a step skipped, a count off
by one: `BlEraseFirstSkipsOne`, `LockFree`, `TransferUnpaced`, ...). The
specification never uses the latter. They document which mistake each property
catches, and `PROJECT.json` ("mutants") says which one breaks which property.

### 2.1 `FwUpdate`

| Variable | Code |
|---|---|
| `fw`, `upd` | the two partitions, a page (256 bytes, the unit of programming) at a time |
| `lock` | `flash_write_lock` of the firmware |
| `scratch` | the watchdog scratch register holds the update request |
| `pending` | `watchdog_reboot` is counting down its 100 ms |
| `chip` | what the chip executes: bootloader (`boot`, `bl_*`) or firmware (`fw`, `fw_*`), the sector and page it is at |
| `resp` | the status word that waits for the menu |
| `menu` | `writing.c` and `rebooting.c`: call, sector, attempts, `waiting` in the BUSY loop |

`BlDecide` ... `BlStart` are the parts of `main` of the bootloader between two
flash operations, `ExecCommand` the handlers of the firmware (with the sector
erase, program and re-program of `flash.c` as steps of their own),
`SendCommand`, `CommandOk`, `CommandFailed`, `CommandLost` the calls of the
library with their retries, `Proceed` and `GiveUp` the scene. `ConsoleReset` and
`PowerLoss` may happen in every state.

Abstractions. An attempt of a command is lost, refused or executed, and its
answer is read or misread: how bytes get there is `Commands`. A flash operation
that is cut leaves each of its pages erased, programmed, as it was, or `Torn`
(`TearFw`, `TearUpd`): for a sector erase unchanged or torn, for programming a
page boundary. `Data` is a set of page contents and `Boot2` those with a right
CRC, the only check the bootloader makes. Only updates of the firmware are
modelled; updates of apps go through the same commands to a partition that
nobody copies. An upload begins when no reboot is pending.

`FirstSectorTears` says whether power can fail between two pages of the *first*
firmware sector while it is programmed. It can, and then the chip may start a
partial firmware (run `fwupdate_tears`, section 5); the other runs and the
theorems are about all other power losses.

### 2.2 `WearLeveling`, `Settings`

| Variable | Code |
|---|---|
| `data`, `hash`, `log` | flash: the consolidated copy, what its FNV-1a hash was computed of, the write log |
| `cache`, `waddr` | `wear_leveling.cache`, `wear_leveling.write_address` |
| `pc`, `op`, `pos`, `stop` | where the library is (`idle`, `append`, `erase_data`, ...), for whom (init, reset, a setter), and the addresses it is at and ends at |

One action per flash operation: `Append` programs one 16 bit word, `EraseData`
and `EraseLog` erase the two sectors in this order, `ProgramBatch` and
`ProgramHash` write the cache back; `InitCache` is the playback with the checks
of `wear_leveling_init`. `Settings` adds `Boot`, `Accept`, `Reset`, `Set` and
`Restart`, which stands for any loss of the RAM. The copy of the settings in RAM
equals the cache from `settings_init` on, so one variable stands for both.

Two forms of playback are stated: `Recovered` says for each address which entry
wins, `PlaybackLoop` walks through the log as the C does, and
`PlaybackIsLastWrite` says that they agree.

Abstractions. A log word is programmed entirely or not at all, an erase takes
place or not, and two different copies have different hashes. All settings are
below address 64, so the optimised log entries are the only ones; multi-byte
entries, `wear_leveling_erase` and failures of a backing store are never used.
The high byte of the autoboot delay is always 0 (`AUTOBOOT_DELAY_MAX`).
`ResetTears` says whether the chip may restart while `settings_reset` writes the
defaults behind a magic that is already there; only `LossIsTotal` and
`SettingsAtomic` need that it does not.

### 2.3 `Commands`

| Variable | Code |
|---|---|
| `call` | the call of the library: bytes poked, attempts, words read, what it returned |
| `rx` | the bytes the parser has accepted: handler pointer, byte counter and argument buffers in one |
| `answer` | words data out still has for the console |
| `busy` | a slow command the firmware executes behind BUSY words |
| `settings`, `lock`, `hook_off`, `reboot` | what commands change |
| `owed` | history: failures that lost bytes still excuse, minus those that happened |
| `flash_failed` | history: an erase or a write has failed in all its attempts since the last call that succeeded |

The bytes are real: command codes, groups, prefix and complements are those of
`modchip/cmd.h`, and arguments are encoded as the library does. A handler pointer
with a counter *is* the sequence of bytes accepted since the last reset of the
parser, so `Receive` states which continuations it accepts, `Args` what it reads
from them, `Execute` what a command does, with `Reply` its answer. `PokeLost`
loses a byte; it is bounded by `owed <= MaxOwed`.

Abstractions. A byte is only lost while the sniffers are on; answers are not late
(a miss of the XIP cache can delay one, section 1.3), and a console that reads
when the chip has no answer reads the ROM. Up to `MaxBusyLeft` = 3 BUSY words
are read after a slow command is done: the bound `StatusComesSoon` of `DataOut`.
The two self tests that answer without a status word are left out. A sector has
two bytes instead of 4096, and its CRC tells all contents apart. A restart that
the console asked for takes place when no call is under way; the reset button is
pressed at any moment.

An answer of no words may still have a CRC (`StatusOK`): the loader reads sections
of no bytes. `OpsAssumption` says what the library pokes: as many arguments as
the command has, each within its width, flags that are 0 or 1, and with a
sector its CRC. It is all the proofs know of the calls.

A failed attempt is charged to `owed` (`Fail`) with two exceptions. What the firmware
refuses by itself is one. The other, `LeftByFlash`, is a word BUSY read while
`flash_failed`: an erase or a write whose *last* attempt loses a byte has no attempt
of its own left to complete what the parser waits for, so the next call does that with
its first byte and finds the refusal of the flash command behind BUSY words. A quick
call reads one of them in each attempt and can fail in all three though none of its
bytes is lost. So `EveryFailureExcused` does *not* say that a single lost byte never
defeats a call; it does when no flash command has been given up.

One precondition on the data is not ensured by the code, `Unmistakable`: without
framing, some data is taken for other data when a byte is lost. The calls of the
passing run satisfy it (TLC evaluates `MCUnmistakable`), and the theorems assume it:
- `NoCommandInside`: behind its first byte a call contains no whole command and does
  not end in the beginning of one. A sector that ends in the prefix does; the
  run `commands_prefix` shows what happens then. Prefix and group, and a third
  byte, may occur anywhere else: the offset of a READ_APP in the passing run begins
  with prefix and group;
- `ArgumentsApart`: the last argument does not begin with the prefix, nor end in its
  complement, 48. Of the calls in the code only KV_SET of an app number from 207 on
  breaks this: the last arguments of the others are flags, keys, pins, modes and
  partitions, all small, the delay has a maximum, and one sector is erased at a time;
- `SectorApart`: the sector, shifted by one byte with a prefix at its end, has another
  CRC.

### 2.4 `DataOut`

| Variable | Code |
|---|---|
| `core0`, `req`, `code` | the routine of `data_out.c` core 0 is in, the answer it is for, the status word |
| `dma`, `list1`, `list2`, `data` | the active channel, the control blocks the two control channels have yet to load, what the data block points to |
| `ctrl2_ok` | the registers of control channel 2 are as they were initialised |
| `ping_at`, `pong`, `sniffed` | the BUSY loop, the CRC of the DMA's sniffer |
| `fifo`, `sm`, `osr`, `pins`, `drive` | TX FIFO, state machine and its shift register, the byte on its pins and whether it drives them |
| `sniffing`, `core1`, `irq` | sniffer state machines, interrupt handler, interrupt flag |
| `oe` | the console is in a read cycle |
| `got`, `late` | history: what the console has read since its last BUSY word; BUSY words it began to read after the command was over |

The FIFO has its real depth (8) and words their real size (4). Control lists are
sequences of blocks as in the code (`WITH_STATUS_WITH_DATA_WITH_CRC`, ...).
`Start` ... `StopBusyChain` are core 0, `Ctrl1`, `Ctrl2`, `Transfer`, `Chain`,
`Pong` the DMA, `OeLow` and `OeHigh` the state machine during a read of the
console, `Handler*` the statements of the interrupt handler on core 1.

The program relies on time: `InTime` is that assumption, in one place. The DMA
is ahead of the console, the handler is done before the next read begins, it
releases the pins after the console has sampled them, and an answer has begun
before the console reads. All other interleavings are checked.

Assumed of the constants (`FifoAssumption`, `RequestsAssumption`): the FIFO holds
two bytes or more and a word has three or more; an answer with a status word and
nothing else has no data, and a patch has two bytes or more, because the first
read raises no interrupt and could not end an answer (the two patches of
`osdsys.c` and `iopboot.c` are longer). The bytes of the data are told apart from
those of BUSY words, which only concerns the history `got`: in the code no
byte's value decides anything.

### 2.5 `Fwfs`, `FileService`

| Variable | Code |
|---|---|
| `fd_handle` | the handles; a size other than 0 is the only mark of use |
| `fwfs_sema` | the semaphore |
| `iob` | descriptors of ioman (external: modelled from how fwfs is called) |
| `pc`, `call`, `fd` | each thread's place, its call or its answer, its handle |
| `damage` | history: answers of the modchip that were damaged |

Each call is a sequence of steps between `Lock` and `Return`; in `OpenLoad` the
modchip's answer goes into the handle before its CRC is known, as in the code,
and `OpenLoadFails` leaves `Junk` there. `FileService` has one action per call;
`FilesSeen` and `CallsSeen` are what its callers see of the handles and the calls. Any
call may fail (`Fail`), because the modchip may refuse it: what `ServesFiles` says is
what the calls that succeed return, and that no call disturbs another.
Abstractions: a descriptor is used by the thread that opened it; attribute files
are read and closed, not sought; apps are not empty; seeks to 1 to 8 bytes before
the beginning of a file are left out (`fwfs.c:332`: the test for negative
offsets misses them, and the header of the app would be read).

### 2.6 `Menu`, `UpdateFile`

| Variable | Code |
|---|---|
| `scenes`, `messages`, `hilites` | `superscene.scenes`, the texts of the messages on it, `hilite_idx` of each list |
| `items`, `attrs`, `rescue_item_idx` | `boot_list.items`, `boot_list_attr`, the item of `RESCUE.ELF` |
| `mass_event_received`, `repaint`, `phase` | the flag of the drive callback, `queue_repaint`, where the main loop is |
| `autoboot`, `countdown` | the settings of `boot_list.c`, and the countdown with its alarm |
| `osdsys`, `opened`, `adjusting` | the OSDSYS options and what they were when their scene was opened; the delay being adjusted, and whether it needs saving |
| `update_type`, `upload` | what is looked for, and what the writing scene was given |
| `stored`, `hook` | in the modchip: the settings, `disable_next_osdsys_hook` |
| `running`, `drive`, `events` | what the console runs, the drive, events that have not reached the EE |
| `touched`, `returned`, `missed` | history: an input reached the boot list; a launch came back; an event was dropped or erased |
| `lost` | history: settings of which the last command failed |
| `unasked` | history: the menu has not read the OSDSYS options yet |

A round of the main loop is `Tick`, `Input` or `NoInput`, `Paint`, each an action
of its own, for `Alarm` and `MountEvent` come between them; `add_or_remove_rescue_elf`
is two (`RefreshOpen`, `RefreshFinish`), as it opens a file on the drive. `Handle`
has one disjunct per button and scene, with the whole handler: switching to
another scene includes that scene's initialisation (`SwitchToBootList`,
`CheckPassed`, ...). `UpdateFile` has the tests of `checking.c` and
`pin_config.c` as operators.

Two properties name what the code leaves open. `SavedIsShown` excepts a setting that
is being edited, one whose last command failed (`lost`), and the OSDSYS options as
long as they are `unasked`: `main.c:30-41` does not read them, only opening their
scene does (`boot_options.c:140`), so until then all of them are off, whatever is
stored. `HookAsAsked` goes both ways: the hook is disabled if the item that starts
asks for it and only then, except where the command failed each time (its result is
not looked at, `boot_list.c:35`, `57`), for RESCUE.ELF, whose attribute
`boot_rescue_elf` does not look at (`boot_list.c:72-77`, `105`), and in a launch after
one that came back with the hook disabled.

Abstractions. A command to the modchip or the drive fails or not (`Faults`,
bounded); a failed setter leaves open whether the value was stored. A file is
its blocks with what is checked of them, and the pins of the image. A drive with
no file that the menu looks for is the same as none. Strings and drawing are
left out; that a `paint` handler launches the countdown's item is not.

### 2.7 `ReadHandlers`, `Boot`

| Variable | Code |
|---|---|
| `read_handler`, `counter` | `read_handler` and the static counter of the file it is in |
| `disable_next_osdsys_hook` | the flag, set by `patch_control.c` |
| `data_out`, `injected` | what `boot_rom_data_out_set_data` was given, that it was sent |
| `core1`, `listens` | steps of `main_core1` that are left, core 0 is in its loop |
| `stuck` | data out was started before core 1 had initialised its DMA: it keeps the bus and sends nothing until the chip restarts |
| `pc`, `pos` | what the console runs, how much of OSDSYS it has read |
| `attempt`, `segment`, `header`, `memory`, `color` | the loader: failed attempts, the program header it is at, what is in memory, the color it stops with |
| `due`, `owed`, `damage`, `cut` | history: what must come of this OSDSYS; the next must be let through; damage the loader cannot repair; the handler still counts from a table of system calls in which the firmware missed a reset |

OSDSYS is read byte by byte with the offsets of the code: 52 bytes of an ELF
header, of which 11 are looked at, then 508 up to the end of `ExecPS2`.
Any other bytes may come before it, and the handlers may be in any state when it
starts (`due = "unseen"` if that state cannot see it). It may start at any point of
the start of both cores: nothing in `main.c` makes the console wait for one.

`ConsoleReset` either restarts the firmware or is too short for it (or too early, before
core 1 has come to `reset_init_irq`). Then nothing in the chip changes: a count goes
on, the flag is kept, and an answer that is being sent is still sent, with the
sniffers off, and the console reads it in the place of its ROM. Such a console, or
one that gets stage 1 anywhere but at the end of `ExecPS2`, is `lost`: it may read
anything, until it is reset again. `cut` marks the one count that a missed reset has
left in the middle of the table; it ends with that count, which may put stage 1
elsewhere or use up the flag (`Misspent`). It excuses nothing in
`HooksAllButNext`: every OSDSYS whose start was seen behind it is as it should be.

Abstractions. Commands are whole attempts, lost or answered; a payload is whole
or damaged, and a checksum tells which; a stage 1 that is damaged still gets to the
check of itself or hangs, and does nothing else. What nobody checks of OSDSYS is 255. No
other code the console reads looks like OSDSYS up to the last byte of its
header, and the handler for IOPBOOT that nothing can reach is left out.

## 3. The runs

| Run | Checks | Distinct states | Shows |
|---|---|---|---|
| `fwupdate` | `TypeOK`, `RunningFirmwareWhole`, `RetryPossible`, `RequestedUpdateWhole`, `UploadedImageHeld`, `InstallIsAtomic`, `InterruptedUpdateFinishes`, `UploadEnds` | 588 000 | uploads of two images with lost, failed and misread commands, resets and power losses at every page; once power holds the bootloader finishes what was interrupted, and the upload scene ends |
| `settings` | `TypeOK`, `Durable`, `WritesErased`, `LossIsTotal`, `PlaybackIsLastWrite`, `SettingsAtomic` | 92 000 | setters are durable and atomic through several consolidations, with a restart between any two flash operations |
| `commands` | `ParserInv`, `EveryFailureExcused`, `SuccessIsTrue`, `OnlyWhatIsAsked`, `CallsEnd` | 292 000 | every call of the console, one byte lost at a time, resets; retries, BUSY loops and refusals end |
| `data_out` | `PathInv`, `ReadsAnswer`, `StatusComesSoon`, `StopsAtEnd`, `AnswersEnd` | 45 000 | every interleaving over answers of every shape |
| `fwfs` | `TypeOK`, `HandlesAccounted`, `ServesFiles` | 288 000 | two threads, every order of calls, refused and damaged answers |
| `fwfs_live` | `CallsReturn` | 6 800 | every call returns |
| `menu` | `MenuInv`, `SavedIsShown`, `CountdownAlone`, `WritesWhatWasChecked`, `LaunchesAsAsked`, `CountdownEnds`, `ListCatchesUp` | 588 000 | six kinds of users, with drives that come and go, the alarm, and a command that fails |
| `boot` | `TypeOK`, `InjectsAtExecPS2`, `RunsOnlyWhole`, `ColorTells`, `HooksAllButNext` | 958 000 | four starts of OSDSYS after any other reads and anywhere in the start of the chip, two resets, seen or missed, answers lost or damaged |
| `fwupdate_tears`, `fwupdate_ping`, `commands_prefix`, `data_out_write` | one property each, violated | | section 5 |

`ParserInv`, `PathInv`, `WritesErased`, `HandlesAccounted` and `MenuInv` are
conjunctions of a module's named invariants, the type invariant among them where
it is not a property of its own.

### 3.1 Bounds, and why they are enough

- *FwUpdate*: partitions of five sectors of two pages, three attempts per
  command, as in the code. There has to be a first sector, which is written last, a sector in between, a sector that both images
  share (the copy skips equal sectors), a sector behind the shorter image, and
  the last sector, which the address check refuses; a sector needs a page that is
  checked and one that is not. Two images are enough for one to be half
  written over the other. The theorems hold for any sizes.
- *Settings*: magic of two bytes, a field of one byte, a padding byte and a field
  of two, in a log of six words. `settings_reset` does not fit behind a few
  entries, so the log fills up in resets and in setters, at each of their words.
  A batch of four bytes makes a consolidation program two. Restarts inside of
  `settings_reset`, behind the magic, are left to the theorems on `Durable`
  and `WritesErased`, which include them, as they hold for any
  layout that satisfies the assumptions.
- *Commands*: calls of every shape: with no argument, with flags, one and two
  bytes, words; refused ones; slow ones; with data and a CRC; with a sector.
  The values are those that are dangerous for a parser without framing (48 is
  the complement of the prefix, sectors contain the prefix and the group).
  `MaxOwed` lets a byte be lost once the failures that the last one excuses have
  happened (at most two, the attempt it is lost in and the one whose bytes
  complete the arguments that are still awaited; what `LeftByFlash` excepts is not
  counted, section 2.3).
  Two bytes lost close together are outside of what the protocol protects: with
  the last byte of DISABLE_NEXT_OSDSYS_HOOK lost, and the first of the call that
  follows it, the parser completes the former with the group of the latter,
  both being 28 (`MaxOwed = 3` in `Commands.cfg` finds it).
  The theorems hold for any calls that are unmistakable, sectors of any size and any
  CRC; `MaxOwed` is bounded for this reason.
- *DataOut*: data of 1, 4 and 9 bytes is shorter and longer than what fits into
  the FIFO behind a status word, so the DMA stalls in some and never in others.
  Any request may follow any other, which is what `CleanStart` (in `PathInv`) needs.
  The theorems hold for data of any length, any depth of the FIFO and size of a word.
- *Fwfs*: three descriptors on two handles, so that they run out; two threads; one
  damaged answer, one app whose length is no multiple of a read. Threads and
  descriptors are symmetric (they are only compared, and the run has no liveness
  property: `FileService` states no fairness).

- *Menu*: `Users` are six profiles, because the product of all buttons, drives
  and settings is out of reach and most of it says nothing: the boot list with a
  drive that changes three times and a countdown; the same with a message about
  the list on it, which is how a second rescue item comes about that matters; the
  settings (delay at both
  ends of 1 to 3 seconds, with a big step of 2, in words of 16, so that it can
  wrap); the options; an update with every kind of file that is in order, or
  not; an update during which the drive is swapped. Nine presses are what a
  whole update takes, with its messages. One app is enough to be mistaken for
  OSDSYS and for the rescue item; one command fails.
- *Boot*: `OtherBytes` are all bytes the handlers tell apart and one they do not,
  so every state of the handlers is there when OSDSYS starts. Four starts are
  one with the hook, one that is let through, the one after it, and one that a
  reset interrupts. Two resets are one that is missed and one that helps a console
  that is lost by it. Reset is pressed in the header, before and between the two
  bytes of the table that are checked, and behind the last of them, while stage 1 is
  sent; and in every state of the loader, of the menu and of the ROM. Four faults are more than the three attempts of a command, so
  that a command fails for good and there is one to spare. A segment is
  loaded before and after one that is not. The theorems hold for any of these.

### 3.2 Deadlock

That no run stops is no property of a module (the type invariants say nothing of it):
TLC checks it by itself in all runs but two, for there is always somebody who can act
(the user, a thread, the reset button). In `menu` the console leaves the menu
for what it has launched, and in `boot` a loader that has stopped stays so,
when the bounds on resets and starts are used up. That no *call* is stuck is what
the liveness properties say.

### 3.3 Fairness

- `FwUpdate`: weak fairness of the bootloader and of the firmware, which are
  straight-line code on a core of their own, and of the client except for its
  wait in the BUSY loop, in which reading BUSY again is a legal step forever: it
  leaves the loop because the firmware is fair. The user is not fair, nor is
  the loss of power, the reset button or of commands; `FairSpec` says that power
  losses and resets stop at some time (`<>[][~(PowerLoss \/ ConsoleReset)]_vars`),
  without which nothing ever finishes.
- `Commands`: weak fairness of the library's next byte or word and of the end of
  a slow command. `StartCall` (a user), `PokeLost` and resets are not fair.
- `DataOut`: weak fairness of core 0, of the DMA, of core 1 and of the bus, that
  is of the console, which reads the answer to its command.
- `Fwfs`: weak fairness of a thread in a call, strong fairness of `Lock`: the
  kernel of the IOP keeps the waiters of a semaphore in a queue, so one that
  waits is not passed over forever.
- `Menu`: the main loop goes round (it waits for the vsync only), the alarm of a
  timer goes off, and an event that masswatch has sent arrives. The user and the
  drive are not fair. `ListCatchesUp` assumes that the boot list stays on the
  screen, for it is the only scene that looks at the drive, and that no event was
  dropped or erased: both happen in the code (hazards of `boot_list.c`).
- `Boot` has no liveness property: nobody has to turn the console on.

## 4. The proofs

TLC's instances are small; these theorems hold for every value of the constants
that satisfies the named assumptions. Each proof module extends its
specification, has one lemma per action, and under it one step per conjunct that
the action can disturb.

`FwUpdate_proofs` (1 484 obligations). All assume `SafeFirstSector`
(`FirstSectorTears = FALSE`, see 2.1) besides the assumptions of the module.

| Theorem | Property |
|---|---|
| `TypeCorrect` | `TypeOK` |
| `RunningWhole` | `RunningFirmwareWhole` |
| `RetryAlwaysPossible` | `RetryPossible` |
| `RequestedWhole` | `RequestedUpdateWhole` |
| `UploadedHeld` | `UploadedImageHeld` |
| `ReplacedFromWhole` | `FirmwareReplacedFromWhole` |
| `UpdateIsAtomic` | `InstallIsAtomic`, the refinement of `FirmwareStore` |

The inductive invariant is `IInv`, a conjunction of six parts. None of the
properties is inductive: that the running firmware is whole needs to know why a
first sector that passes its check implies the rest, which is the loop invariant
of the copy.
- `FirmwareInv`: outside of the last step of a copy, a firmware with a valid boot2
  is a whole image; without one, the update partition holds a whole image;
- `CopyInv`: while the bootloader copies, the sectors it has passed equal those of
  the update partition, and the first sector stays erased until the last step;
- `FlashOpInv`: which sector of the update partition the firmware erases or
  programs and how far it is, and that a later sector is only programmed while
  boot2 is erased;
- `RequestInv`: while an update is requested the update partition is whole, and
  while a reboot is pending no command is executed that changes it;
- `UploadInv`: the sectors the menu has passed hold the image, whatever attempts
  failed after they were executed.

`Settings_proofs` (about 2 050 obligations). The first four assume nothing but
the assumptions of the modules, the last two `~ResetTears`.

| Theorem | Property |
|---|---|
| `TypeCorrect` | `TypeOK` |
| `SettingsDurable` | `Durable` |
| `PlaybackCorrect` | `PlaybackIsLastWrite` |
| `ErasedBeforeProgrammed` | `WritesErased` |
| `LossTotal` | `LossIsTotal` |
| `AtomicSettings` | `SettingsAtomic`, the refinement of `SettingsStore` |

`Inv` says that the log has no holes (`FlashInv`), what has been erased and
programmed at each point of a write or consolidation (`WriteInv`), and that what
a restart would recover is the cache, up to the bytes that are still being
written (`CacheInv`). Atomicity needs more (`AtomInv`): what a restart finds when
the copy is gone and the log is not (`LogAlone`, the playback of the log over
zeros). A log with the last byte of the magic, which is not 0, was begun by
`settings_reset` and has all of the settings (`LogInv`, from `ResetInv`); one
without it is not accepted, and the defaults are restored. A setter changes the
bytes of one field (`SetInv`), of which only the first is ever not 0 (`HighInv`).

`PlaybackCorrect` takes induction over the slots of the log. The induction theorems of
the library have an operator as a parameter, which the installed backends cannot
instantiate, but `WFMin` has a set: `LeastNumber` gets from it that a set of numbers
has a smallest one. The loop after n slots is what a log of n slots would leave
(`Truncated`); that satisfies the recursion (`LiveSlot`, `DeadSlot`), and the recursion
has one solution (`OneLoop`), as two would differ first at some n.

`Boot_proofs` (1 796 obligations) assumes `BootAssumption` only: any number of
attempts, any program headers, any bytes in front of OSDSYS, any bounds.

| Theorem | Property |
|---|---|
| `TypeCorrect` | `TypeOK` |
| `InjectsOnlyThere` | `InjectsAtExecPS2` |
| `HooksAllButOne` | `HooksAllButNext` |
| `RunsWhole` | `RunsOnlyWhole` |
| `ColorsTell` | `ColorTells` |

Three inductive invariants, each proved with the ones before it.
- `TypeInv` is the types with `ReadInv`: each counter is within the bytes its
  handler looks for, and past the first byte of the table stage 1 is what will
  be sent.
- `LoaderInv` says what is whole at each step of the loader: `MemoryInv` that
  stage 2 is only there behind its check, `SegmentInv` that the segments behind
  the loop are loaded, which is why the loop leaves none out, and `ColorTells`,
  which is inductive as it stands with them.
- `HookInv` says where the handlers are while OSDSYS is read. `Follows` relates
  position and counter of a start that was seen; `Unseen` says that a start that
  was not leaves the handlers where none of the remaining bytes can take them to
  the table (no byte of OSDSYS but the first is 127, lemma `OsdsysBytes`);
  `Outside` that other reads come to the table only in a count that was `cut`, and
  `Seen` that the flag is what is owed. It always is, over missed resets too: the
  step that ends such a count uses up both. `cut` lasts as long as that count
  (`cut => handler = table`), so a start of OSDSYS that is seen is never `cut`.

`Fwfs_proofs` (1 070 obligations) and `FwfsService_proofs` (711) assume
`FwfsAssumption` only: any threads, descriptors and handles, any apps of at least
one byte, any sizes to read and positions to seek.

| Theorem | Property |
|---|---|
| `Invariant` | `Inv`, the inductive invariant |
| `TypeCorrect` | `TypeOK` |
| `EveryHandleAccounted` | `HandlesAccounted` |
| `ImplementsService` | `ServesFiles`, the refinement of `FileService` |

`HandlesAccounted` is not inductive: that a close or a read is done to the handle
of its own file, and that no thread fills a handle that another has found, needs
to know where each thread is and who has the semaphore.
- `SemaInv`: only the thread that has the semaphore is behind `fs_lock`;
- `CallInv`, `UseInv`, `OpenInv`: what each thread does is the call it made; a call
  about an open file has that file's handle, an open has a descriptor without a
  handle and, once it has found one, a handle with size 0;
- `FileInv`: a descriptor is free, being opened, or has a handle of its own that
  is `Good`: the size is that of the app or the attribute, and the offset is
  between the first byte and the end;
- `HandleInv`: a handle in use has a file or was lost to a damaged answer.

An action touches one thread, one file and one handle at most (`Frame`), and
`FrameInv` shows once that all other threads, files and handles are then left in
order and look the same to their callers (`Rest`). `Seek` and `Tell`, between
which another thread may come, are safe since a descriptor is used by one thread.
The refinement then looks at one thread and one file per action. `OpenNone` maps
to `TooMany` by counting: when no handle is free, each is that of an open file,
one to one, or has been lost, and `HandlesGivenBack` bounds those (`NoneFree`).

`Menu_proofs` (3 281 obligations) assumes `MenuAssumption`, `UsersAssumption` and
`UpdateFileAssumption`: any list of apps, any delays and steps that do not wrap,
any stored settings, drives, presses and failures.

| Theorem | Property |
|---|---|
| `Inductive` | `IInv`, the inductive invariant |
| `MenuInOrder` | `MenuInv` |
| `ShownIsSaved` | `SavedIsShown` |
| `CountdownIsAlone` | `CountdownAlone` |
| `WrittenIsChecked` | `WritesWhatWasChecked` |
| `LaunchedAsAsked` | `LaunchesAsAsked` |

The stack of scenes is a path from a fixed set with messages on it
(`StackShape`); the lemmas up to `StackContains` say what pushing, popping and
adding a message make of such a stack, so that the step of a button has only to
name its path. `IInv` has, besides the types and `StackShape`:
- `Before`: nothing has touched the list before the boot list is registered, so
  that what it comes to show is known;
- `ListInv`, `HilitesInv`: the list is OSDSYS, the apps, and rescue items, of which
  `rescue_item_idx` names the last; there are all apps or none, without which the
  index of a launch would say nothing about its item;
- `RescueInv`: what is known of the drive between the two steps of
  `add_or_remove_rescue_elf`, in which another event may come;
- `CountdownInv`: while a countdown runs, the hilite is where the saved setting put
  it; it ends before anything moves it;
- `SavedInv`: `opened`, what the options were when their scene was opened, is what
  is stored; this is why leaving the scene without a change need not save;
- `CheckedInv`: the checks of a file hold as long as the scene that writes it is
  on the stack (`LinearInPlace`, `PinsAgree`: what the tests of `checking.c` say
  of the blocks and pins of a file);
- `HookInv`: the hook is only disabled in the menu if a launch came back.

`ShownIsSaved` and `LaunchedAsAsked` have the exceptions of section 2.6 and no other.
In particular the former says what the options are while they are `unasked`, and the
latter is about both directions: no launch has the hook disabled that did not ask for
it, and none that asked for it goes without.

`DataOut_proofs` (4 583 obligations) assumes `FifoAssumption` and
`RequestsAssumption`: any set of requests, any data, any depth of the FIFO, any
size of a word.

| Theorem | Property |
|---|---|
| `Inductive` | `IInv`, the inductive invariant |
| `CleanBetweenAnswers` | `PathInv` |
| `ConsoleReadsAnswer` | `ReadsAnswer` |
| `StatusInTime` | `StatusComesSoon` |
| `StopsWhenRead` | `StopsAtEnd` |

`ReadsAnswer` looks at the end of a pipe and says nothing of what is in it, and an
empty FIFO is the only sign of the end, so the invariant is a law of conservation.
All that is ever put out is one stream of bytes, `Byte`: BUSY words at the
positions up to 0, the answer from 1 on, the dummy byte behind it. `Answering`
says that there is a position `e` such that
- `Plan(e)`: what the DMA does next, by the lists and the chaining of its
  channels, is the stream from `e` on, and nothing else;
- `Pipe(e)`: the shift register, the FIFO and the active channel hold, in this order
  and without a gap, the bytes in front of `e`;
- `Shown`: the pins and what the console has read are the bytes in front of those;
- `EndSeen`: at an interrupt the FIFO is empty only if the DMA is done, and
  after it there are two bytes left or more, the last the dummy byte;
- `Soon`: the BUSY words on their way are those `late` has still to count.

`QuietInv`, `PreparedInv` and `OverInv` say the same of the moments before and after
an answer, `CoresInv` where each core can be when the other one is somewhere, and
`BusyInv` that PING starts at the beginning of a word again, which is why the
first command after a slow one does not get half a word. In the last steps
most of the work is arithmetic of positions in words (`ModStep`, `ModBack`).

Two theorems have a hypothesis besides, because without it they are false.
`StatusInTime` needs `RoomForThree`: the FIFO and the shift register hold less than
three words (9 bytes, less than 12, in the chip); with 12 bytes TLC finds a
fourth BUSY word. `StopsWhenRead` needs that no request writes a sector: from
then on `CTRL2` is broken and answers with data are cut, the run `data_out_write`.
The other theorems include those requests: the stream then ends at `End`, and
what is read is still the beginning of the answer.

`Commands_proofs` (about 5 250 obligations). All assume `OneLoss`
(`MaxOwed <= LossCost`: a byte may be lost once the two attempts have failed that
the last loss excuses) and `AllUnmistakable` (section 2.3). Without the first,
or without the second, TLC finds a counterexample (section 3.1 and
`commands_prefix`).

| Theorem | Property |
|---|---|
| `Inductive` | the inductive invariant `IInv`, with `LeftInv` |
| `ParserIsClean` | `ParserInv` |
| `LossIsBounded` | `EveryFailureExcused` |
| `SuccessIsReal` | `SuccessIsTrue` |
| `NothingElseIsDone` | `OnlyWhatIsAsked` |

Nothing in the protocol tells the chip where a call begins, so the invariant has to
say what the parser can hold whenever the library pokes. `Parsing` lists it:
- the bytes of the call so far, and then the chip executes what is asked;
- the same without one (`Misses`), while the loss excuses two attempts;
- nothing, or the beginning of a command that the call contains (`Dropped`), from
  where nothing of this call can be executed: `NoCommandInside`;
- at the first byte of an attempt, all bytes but one of an earlier attempt, of any
  call (`Awaits`). The prefix of the new attempt completes them, and they are
  refused: `LateArguments` and `LateSector`, the only places where the complements and
  the CRC are needed.

`AnswerInv` says what the chip sends when it does not listen: the rest of the answer
to this call (`Serving`, with `Done`: what it is for has been done) or a refusal,
of this call if it is out of range or of what the prefix completed. `owed` counts
down from one case to the next, which is why one byte costs no more than two
attempts, those not counted that section 2.3 names. `LeftInv` bounds these: unless a
flash command has been given up, the parser holds none when another call begins, and
no refusal has BUSY words in front. `OwnArgs` and `OwnSector` say that what a call pokes is read back as it
was meant, for every command and value: the encoding and the parser agree.

Only model-checked:
- liveness (`InterruptedUpdateFinishes`, `UploadEnds`, `CallsEnd`, `AnswersEnd`,
  `CallsReturn`, `CountdownEnds`, `ListCatchesUp`): the prover has no support for
  ENABLED and fairness. Every other property of a passing run is stated by a theorem.

## 5. Where code and documentation disagree

Each is a run whose property states what a comment, a name or a definition of
the repository says, and which TLC violates.

- **`fwupdate_tears`**: the first sector of the firmware is programmed with one
  `flash_range_program`, page by page, boot2 first
  (`src/fruitchip-fw-bootloader/src/main.c:197`). boot2 is all that
  `is_fw_valid` checks; after a power loss behind this page the bootloader starts
  a firmware with a partial first sector and does not retry the update.
- **`fwupdate_ping`**: the ping that is to notice the end of the reboot
  (`src/fruitchip-menu/src/scene/settings/update/rebooting.c:41`) is sent at once
  and answered by the old firmware, which runs on for 100 ms.
- **`commands_prefix`**: `handle_write_cmd` drops a byte that is not a group
  without looking whether it is a prefix
  (`src/fruitchip-fw/src/boot_rom/write/idle.c:81`). A stray prefix swallows the
  next command; when each attempt leaves another one behind, as the upload of a
  sector that ends in 0xcf does, one lost byte makes a whole call fail.
- **`data_out_write`**: `dma_crc32` keeps the number of its DMA channel in a
  `bool` (`src/fruitchip-fw/src/boot_rom/write/flash.c:32`), so it takes channel
  1, a control channel of the answers, and a later answer with data stops after
  its status word.

Other oddities of the code have no run of their own, since what they are about is
left out, or no line says precisely what should hold:
- the color of the LED for settings that failed is overwritten at once
  (`src/fruitchip-fw/src/main.c:50`);
- a second event of the same drive adds a second rescue item
  (`src/fruitchip-menu/src/scene/boot_list.c:99`) and forgets the first; launched,
  that one is taken for the app of its index (line 142), which is even there if
  the list of apps could not be read. The proof of `LaunchesAsAsked` came upon the
  latter; the property excepts it by name, `TakenForApp`. An event that comes
  while the drive is looked at is erased (line 114). `Menu` does all of it;
- a failed query of one partition's size is forgotten when the next one succeeds
  (`src/fruitchip-menu/src/scene/settings/update/checking.c:111`), and the pins of
  an image are compared as one set (line 173); `Menu` does both;
- the OSDSYS options are not read when the menu starts (`src/fruitchip-menu/src/main.c:30-41`)
  but when their scene is opened (`src/fruitchip-menu/src/scene/boot_options.c:140`),
  so OSDSYS, and apps that take its arguments, are launched with none of the stored
  options until then; `Menu` does so (`unasked`);
- a DISABLE_NEXT_OSDSYS_HOOK that failed is not noticed
  (`src/fruitchip-menu/src/scene/boot_list.c:35`, `57`), and the attribute with which
  RESCUE.ELF is listed (line 105) is not looked at when it is launched (lines 72-77);
  `Menu` does both, and `HookAsAsked` excepts both by name;
- an erase or a write of which the last attempt lost a byte is completed by the prefix
  of the next call and refused behind BUSY words, which a quick call does not wait for:
  it can fail in all its attempts though none of its bytes is lost
  (`src/fruitchip-fw/src/boot_rom/write/flash.c:142`, `src/fruitchip-include/modchip/io.h:74`;
  `LeftByFlash` in `Commands`);
- core 0 sniffs before core 1 has initialised the DMA of the answers
  (`src/fruitchip-fw/src/main.c:26`, `66`): stage 1 sent that early never arrives, and
  data out keeps the bus until the chip restarts (`stuck` in `Boot`);
- errors are taken for the attributes of an app, being unsigned
  (`src/fruitchip-menu/src/apps.c:97`); `Menu` does so;
- a 0x07 in front of the first byte of OSDSYS hides it
  (`src/fruitchip-fw/src/boot_rom/read/iopboot.c:47`; `due = "unseen"` in `Boot`);
- the sniffed stream has no framing: a sector whose header is lost is parsed as
  commands, and a value of KV_SET that begins with the prefix can be shifted
  (section 2.3).

## 6. What is not modelled, and the plan

Never modelled: drawing, fonts, pads, the status LED, vendored code, build
scripts. There is no state in them that a property of the system depends on.

The order of the plan is that of the damage a mistake does: what can brick a
chip, then what loses data, then what can hang, then what annoys.

Done: `FwUpdate` with `FirmwareStore`, `WearLeveling` with `Settings` and
`SettingsStore`, `ReadHandlers` with `Boot`, `Fwfs` with `FileService`, `Menu` with
`UpdateFile`, `DataOut`, `Commands`, all with proofs.

Left out of what is modelled, and why:
- commands served by core 0 before core 1 has read the settings: the console takes
  seconds to come to the first program that sends one (`Boot` has the steps of
  both cores);
- writing the apps partition: the same commands as for the firmware, to a
  partition that nobody copies, without a last step that makes it valid;
- the timing of data out against the bus (`InTime`) and of late answers;
- multi-byte log entries and the erase of the wear leveling library, which
  nothing calls.

Next: the calls that are not unmistakable, to say how many attempts a lost byte can
cost them.
