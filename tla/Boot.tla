-------------------------------- MODULE Boot --------------------------------
(***************************************************************************)
(* From power on to the menu: the start of the firmware on its two cores,  *)
(* the read handlers that put stage 1 of the loader into OSDSYS, and the   *)
(* loader on the console, stage 1 (fruitchip-loader/ee/stage1) and stage 2 *)
(* (fruitchip-loader/ee/stage2), which loads the menu.                     *)
(*                                                                         *)
(* Commands are whole attempts here: how they are parsed and answered is   *)
(* Commands and DataOut.  Payloads are whole or damaged, and a checksum    *)
(* tells which.                                                            *)
(***************************************************************************)
EXTENDS ReadHandlers, Sequences, FiniteSets

CONSTANTS
    Retries,      \* MODCHIP_CMD_RETRIES
    Segments,     \* types of the program headers of the menu
    OtherBytes,   \* bytes the console reads besides OSDSYS
    StopAt,       \* bound: how far OSDSYS has been read when reset is pressed
    MaxFaults,    \* bound: answers that are lost or damaged
    MaxResets,    \* bound: presses of reset
    MaxBoots      \* bound: starts of OSDSYS

ASSUME BootAssumption ==
    /\ Retries \in Nat \ {0}
    /\ Segments \in Seq({"PT_LOAD", "other"})
    /\ OtherBytes \subseteq 0..255
    /\ StopAt \subseteq 0..560
    /\ {MaxFaults, MaxResets, MaxBoots} \subseteq Nat

VARIABLES
    core1,    \* steps of main_core1 that are left
    listens,  \* core 0 has done boot_rom_data_out_init
    stuck,    \* data out was started with no DMA to feed it
    pc,       \* what the console runs
    pos,      \* bytes of OSDSYS that have been read
    attempt,  \* attempts of the command that have failed
    segment,  \* program header stage 2 is at
    header,   \* its program header has been read
    memory,   \* of the console: stage 1, the sizes, stage 2 and the segments
    color,    \* of the screen when the loader has stopped
    faults, resets, boots,
    \* History: what must come of the OSDSYS that is read, "hook", "skip", or
    \* "unseen" if the chip could not see its start; whether the next one must
    \* be skipped; damage the loader cannot repair; whether the handler still
    \* counts from a table of system calls in which the firmware missed a reset
    due, owed, damage, cut

console == <<pc, pos, attempt, segment, header, memory, color, damage>>
chip    == <<core1, listens, stuck>>
bounds  == <<faults, resets, boots>>
hook    == <<due, owed, cut>>
vars    == <<readVars, chip, console, bounds, hook>>

-----------------------------------------------------------------------------
(***************************************************************************)
(* The firmware starts                                                     *)
(***************************************************************************)
\* main_core1: clocks, DMA of data_out, settings and apps, interrupt of reset
StartUp == <<"clocks", "dma", "settings", "apps", "reset">>

Ready(step) == \A i \in DOMAIN core1 : core1[i] # step

Core0Starts ==
    /\ ~listens
    /\ listens' = TRUE
    /\ UNCHANGED <<readVars, core1, stuck, console, bounds, hook>>

Core1Step ==
    /\ core1 # <<>>
    /\ core1' = Tail(core1)
    /\ UNCHANGED <<readVars, listens, stuck, console, bounds, hook>>

-----------------------------------------------------------------------------
(***************************************************************************)
(* The console reads its ROM                                               *)
(***************************************************************************)
\* The end of ExecPS2 in OSDSYS, and its bytes up to there: the ELF header,
\* and jr ra, nop; those nobody checks are 255.
OsdsysLast == 559

OsdsysByte(n) ==
    CASE n = 0                     -> 127
      [] n \in DOMAIN OsdsysElf    -> OsdsysElf[n]
      [] n = OsdsysLast - 5        -> 224
      [] n > OsdsysLast - 5        -> 0
      [] OTHER                     -> 255

\* The sniffers of core 0 see a byte, unless they are off while data out has the
\* bus.  It keeps it if the DMA of core 1 is not there to feed it.
Sniffed(r) ==
    /\ IF listens /\ ~injected THEN Read(r) ELSE UNCHANGED readVars
    /\ stuck' = (stuck \/ (injected' /\ ~injected /\ ~Ready("dma")))
    /\ cut' = (cut /\ read_handler' = "find_osdsys_syscall_table")

\* The flag was used up by a count that began before the console started again.
Misspent == cut /\ disable_next_osdsys_hook /\ ~disable_next_osdsys_hook'

\* Any other code or data, which may look like the header of OSDSYS, but not up
\* to its last byte.  If it is answered with stage 1 the console is lost.
ReadOther ==
    /\ pc \in {"rom", "lost"}
    /\ \E r \in OtherBytes :
          /\ read_handler = "find_osdsys_elf" /\ counter = 50 => r # 0
          /\ Sniffed(r)
    /\ pc' = IF injected' THEN "lost" ELSE pc
    /\ owed' = (owed /\ ~Misspent)
    /\ UNCHANGED <<core1, listens, pos, attempt, segment, header, memory, color,
                   damage, bounds, due>>

\* byte_out_irq_handler: stage 1 was sent to a console that has no use for it.
AnswerEnds ==
    /\ pc = "lost"
    /\ injected /\ ~stuck
    /\ injected' = FALSE
    /\ UNCHANGED <<read_handler, counter, disable_next_osdsys_hook, data_out,
                   chip, console, bounds, hook>>

\* The first byte of OSDSYS.  It is found unless core 0 does not listen yet, or
\* is in the middle of something that looked like IOPBOOT, or of an earlier
\* OSDSYS.
StartOsdsys ==
    /\ pc = "rom"
    /\ boots < MaxBoots
    /\ boots' = boots + 1
    /\ pc' = "load"
    /\ pos' = 1
    /\ due' = IF listens /\ read_handler \in {"idle", "find_osdsys_elf"}
              THEN (IF owed THEN "skip" ELSE "hook") ELSE "unseen"
    /\ Sniffed(OsdsysByte(0))
    /\ UNCHANGED <<core1, listens, attempt, segment, header, memory, color,
                   damage, faults, resets, owed>>

\* Stage 1 in the place of anything but the end of ExecPS2 breaks OSDSYS.
ReadOsdsys ==
    /\ pc = "load"
    /\ pos <= OsdsysLast
    /\ pos' = pos + 1
    /\ Sniffed(OsdsysByte(pos))
    /\ pc' = IF injected' /\ pos # OsdsysLast THEN "lost" ELSE "load"
    /\ owed' = (owed /\ ~Misspent /\ (due = "unseen" \/ pos # OsdsysLast - 5))
    /\ UNCHANGED <<core1, listens, attempt, segment, header, memory, color,
                   damage, bounds, due>>

\* ExecPS2 of OSDSYS is what has been read: stage 1 if it was injected, which a
\* fault may damage, or the system call.  Data out that is stuck sends neither.
EndOsdsys ==
    /\ pc = "load"
    /\ pos = OsdsysLast + 1
    /\ \/ /\ injected /\ ~stuck
          /\ injected' = FALSE
          /\ pc' = "stage1 size"
          /\ \/ /\ memory' = [memory EXCEPT !.stage1 = data_out]
                /\ UNCHANGED <<faults, damage>>
             \/ /\ faults < MaxFaults /\ faults' = faults + 1
                /\ memory' = [memory EXCEPT !.stage1 = "damaged"]
                /\ damage' = TRUE
       \/ /\ injected /\ stuck
          /\ pc' = "lost"
          /\ UNCHANGED <<injected, memory, faults, damage>>
       \/ /\ ~injected
          /\ pc' = "osdsys"
          /\ UNCHANGED <<injected, memory, faults, damage>>
    /\ UNCHANGED <<read_handler, counter, disable_next_osdsys_hook, data_out,
                   chip, pos, attempt, segment, header, color, resets, boots,
                   hook>>

Cold == [stage1 |-> "none", size1 |-> "none", size2 |-> "none",
         stage2 |-> "none", segments |-> [i \in DOMAIN Segments |-> "none"]]

\* The console starts again from its ROM.
ConsoleStarts(at) ==
    /\ pc' = at
    /\ pos' = 0
    /\ attempt' = 0
    /\ segment' = 0
    /\ header' = FALSE
    /\ memory' = Cold
    /\ color' = "none"
    /\ damage' = FALSE

\* OSDSYS or the menu starts a program, OSDSYS from the ROM among them.
BackToRom ==
    /\ pc \in {"osdsys", "menu"}
    /\ ConsoleStarts("rom")
    /\ UNCHANGED <<readVars, chip, bounds, hook>>

\* handle_write_disable_next_osdsys_hook: the menu is about to start OSDSYS.
DisableNextOsdsysHook ==
    /\ pc = "menu"
    /\ disable_next_osdsys_hook' = TRUE
    /\ owed' = TRUE
    /\ ConsoleStarts("rom")
    /\ UNCHANGED <<read_handler, counter, data_out, injected, chip, bounds,
                   due, cut>>

-----------------------------------------------------------------------------
(***************************************************************************)
(* The loader                                                              *)
(***************************************************************************)
Panic(c) ==
    /\ pc' = "panic"
    /\ color' = c

Fault == faults < MaxFaults /\ faults' = faults + 1

\* modchip_cmd_or_panic and what is read behind its status
CmdAnswered(next) ==
    /\ pc' = next
    /\ attempt' = 0

\* No answer is seen, or another one.
CmdFails(panic) ==
    /\ Fault
    /\ attempt' = attempt + 1
    /\ IF attempt + 1 = Retries THEN panic ELSE UNCHANGED <<pc, color>>

\* A size is not protected by a checksum of its own.
ReadSize(at, size, next) ==
    /\ pc = at
    /\ \/ /\ CmdAnswered(next)
          /\ \/ /\ memory' = [memory EXCEPT ![size] = "right"]
                /\ UNCHANGED <<faults, damage>>
             \/ /\ Fault
                /\ memory' = [memory EXCEPT ![size] = "wrong"]
                /\ damage' = TRUE
          /\ UNCHANGED color
       \/ CmdFails(Panic("red")) /\ UNCHANGED <<memory, damage>>
    /\ UNCHANGED <<readVars, chip, pos, segment, header, resets, boots, hook>>

Stage1Size == ReadSize("stage1 size", "size1", "stage1 check")
Stage2Size == ReadSize("stage2 size", "size2", "stage2 data")

\* The checksum behind stage 1 in memory; what is damaged may never get here, and
\* a wrong size may not be an address that can be read.
Stage1Check ==
    /\ pc = "stage1 check"
    /\ \/ /\ memory.stage1 = "stage1" /\ memory.size1 = "right"
          /\ pc' = "stage2 size" /\ UNCHANGED color
       \/ /\ memory.stage1 # "stage1" \/ memory.size1 # "right"
          /\ Panic("blue")
       \/ /\ memory.stage1 # "stage1" \/ memory.size1 # "right"
          /\ pc' = "hang" /\ UNCHANGED color
    /\ UNCHANGED <<readVars, chip, pos, attempt, segment, header, memory,
                   damage, bounds, hook>>

\* GET_EE_STAGE2 and its data, of which stage2 size bytes are taken: with a wrong
\* size there may be no end of them.
Stage2Data ==
    /\ pc = "stage2 data"
    /\ \/ /\ CmdAnswered("stage2 check")
          /\ \/ /\ memory.size2 = "right"
                /\ memory' = [memory EXCEPT !.stage2 = "stage2"]
                /\ UNCHANGED <<faults, damage>>
             \/ /\ memory.size2 = "wrong"
                /\ memory' = [memory EXCEPT !.stage2 = "damaged"]
                /\ UNCHANGED <<faults, damage>>
             \/ /\ Fault
                /\ memory' = [memory EXCEPT !.stage2 = "damaged"]
                /\ damage' = TRUE
          /\ UNCHANGED color
       \/ /\ memory.size2 = "wrong"
          /\ CmdAnswered("hang")
          /\ UNCHANGED <<memory, color, faults, damage>>
       \/ CmdFails(Panic("red")) /\ UNCHANGED <<memory, damage>>
    /\ UNCHANGED <<readVars, chip, pos, segment, header, resets, boots, hook>>

\* crc == ee_stage2_crc
Stage2Matches == memory.stage2 = "stage2"

\* Stage 2 clears the memory of the menu when it starts.
Stage2Check ==
    /\ pc = "stage2 check"
    /\ \/ /\ Stage2Matches
          /\ pc' = "header"
          /\ memory' = [memory EXCEPT !.segments = [i \in DOMAIN Segments |-> "clear"]]
          /\ UNCHANGED color
       \/ ~Stage2Matches /\ Panic("blue") /\ UNCHANGED memory
    /\ UNCHANGED <<readVars, chip, pos, attempt, segment, header, damage,
                   bounds, hook>>

\* Mutant: the first attempt that fails is the last one.
GivesUp(n) == TRUE

\* No attempt of modchip_stage3_read_with_retry is left.
Exhausted(n) == n + 1 = Retries

\* modchip_stage3_read fails: no answer, or the checksum does not match.
Stage3Fails ==
    /\ Fault
    /\ IF Exhausted(attempt)
       THEN Panic("green")
       ELSE UNCHANGED <<pc, color>>
    /\ attempt' = attempt + 1

\* The ELF header of the menu, whose magic is right
ReadHeader ==
    /\ pc = "header"
    /\ \/ /\ pc' = "segments" /\ attempt' = 0
          /\ segment' = 1 /\ header' = FALSE
          /\ UNCHANGED <<color, faults>>
       \/ Stage3Fails /\ UNCHANGED <<segment, header>>
    /\ UNCHANGED <<readVars, chip, pos, memory, damage, resets, boots, hook>>

\* A program header: what is not PT_LOAD is skipped.
ReadProgramHeader ==
    /\ pc = "segments"
    /\ segment <= Len(Segments)
    /\ ~header
    /\ \/ /\ attempt' = 0
          /\ IF Segments[segment] = "PT_LOAD"
             THEN header' = TRUE /\ UNCHANGED segment
             ELSE segment' = segment + 1 /\ UNCHANGED header
          /\ UNCHANGED <<pc, color, faults>>
       \/ Stage3Fails /\ UNCHANGED <<segment, header>>
    /\ UNCHANGED <<readVars, chip, pos, memory, damage, resets, boots, hook>>

\* Mutant: the next segment is read whether or not this one was.
Skipped(ok) == segment + 1

\* Only a segment that was read lets the loop go on.
NextSegment(ok) == IF ok THEN segment + 1 ELSE segment

\* A segment goes to its place in memory as it comes, the bad ones too.
ReadSegment ==
    /\ pc = "segments"
    /\ segment <= Len(Segments)
    /\ header
    /\ \/ /\ attempt' = 0
          /\ memory' = [memory EXCEPT !.segments[segment] = "loaded"]
          /\ segment' = NextSegment(TRUE)
          /\ header' = FALSE
          /\ UNCHANGED <<pc, color, faults>>
       \/ /\ Stage3Fails
          /\ memory' \in {memory, [memory EXCEPT !.segments[segment] = "damaged"]}
          /\ segment' = NextSegment(FALSE)
          /\ header' = (segment' = segment)
    /\ UNCHANGED <<readVars, chip, pos, damage, resets, boots, hook>>

\* ExecPS2 of the menu
ExecPS2 ==
    /\ pc = "segments"
    /\ segment > Len(Segments)
    /\ pc' = "menu"
    /\ UNCHANGED <<readVars, chip, pos, attempt, segment, header, memory,
                   color, damage, bounds, hook>>

-----------------------------------------------------------------------------
FirmwareStarts ==
    /\ read_handler' = "idle"
    /\ counter' = 0
    /\ disable_next_osdsys_hook' = FALSE
    /\ data_out' = "none"
    /\ injected' = FALSE
    /\ stuck' = FALSE
    /\ core1' = StartUp
    /\ listens' = FALSE
    /\ owed' = FALSE
    /\ cut' = FALSE

\* An answer to it may be on its way.
Asks == pc \in {"stage1 size", "stage2 size", "stage2 data", "header",
                "segments", "menu"}

\* Reset is pressed: reset_pressed restarts the firmware if it was for longer
\* than 10 ms and core 1 has come to reset_init_irq.  Otherwise it goes on with
\* what it does, and the console reads the answer that is being sent for its ROM.
ConsoleReset ==
    /\ resets < MaxResets
    /\ resets' = resets + 1
    /\ pc = "load" => pos \in StopAt
    /\ \/ Ready("reset") /\ FirmwareStarts /\ ConsoleStarts("rom")
       \/ /\ \/ ~injected /\ ConsoleStarts("rom")
             \/ (injected \/ Asks) /\ ConsoleStarts("lost")
          /\ cut' = (cut \/ read_handler = "find_osdsys_syscall_table")
          /\ UNCHANGED <<readVars, chip, owed>>
    /\ UNCHANGED <<faults, boots, due>>

Init ==
    /\ ReadInit
    /\ core1 = StartUp
    /\ listens = FALSE
    /\ stuck = FALSE
    /\ pc = "rom"
    /\ pos = 0
    /\ attempt = 0
    /\ segment = 0
    /\ header = FALSE
    /\ memory = Cold
    /\ color = "none"
    /\ faults = 0 /\ resets = 0 /\ boots = 0
    /\ due = "hook"
    /\ owed = FALSE
    /\ cut = FALSE
    /\ damage = FALSE

Loads == ReadOsdsys \/ EndOsdsys

Loader ==
    \/ Stage1Size
    \/ Stage1Check
    \/ Stage2Size
    \/ Stage2Data
    \/ Stage2Check
    \/ ReadHeader
    \/ ReadProgramHeader
    \/ ReadSegment
    \/ ExecPS2

Next ==
    \/ Core0Starts
    \/ Core1Step
    \/ ReadOther
    \/ AnswerEnds
    \/ StartOsdsys
    \/ Loads
    \/ Loader
    \/ BackToRom
    \/ DisableNextOsdsysHook
    \/ ConsoleReset

Spec == Init /\ [][Next]_vars

-----------------------------------------------------------------------------
(***************************************************************************)
(* Properties                                                              *)
(***************************************************************************)
\* The variables keep within their types.
TypeOK ==
    /\ read_handler \in {"idle", "find_osdsys_elf", "find_osdsys_syscall_table",
                         "find_iopboot", "find_iopboot2"}
    /\ counter \in 0..ExecPS2Last
    /\ read_handler = "idle" => counter = 0
    /\ disable_next_osdsys_hook \in BOOLEAN
    /\ data_out \in {"none", "stage1"}
    /\ injected \in BOOLEAN
    /\ \E n \in 1..(Len(StartUp) + 1) : core1 = SubSeq(StartUp, n, Len(StartUp))
    /\ listens \in BOOLEAN /\ stuck \in BOOLEAN
    /\ pc \in {"rom", "load", "osdsys", "stage1 size", "stage1 check",
               "stage2 size", "stage2 data", "stage2 check", "header",
               "segments", "menu", "panic", "hang", "lost"}
    /\ pos \in 0..(OsdsysLast + 1)
    /\ attempt \in 0..Retries
    /\ segment \in 0..(Len(Segments) + 1)
    /\ header \in BOOLEAN
    /\ memory \in [stage1 : {"none", "stage1", "damaged"},
                   size1 : {"none", "right", "wrong"},
                   size2 : {"none", "right", "wrong"},
                   stage2 : {"none", "stage2", "damaged"},
                   segments : [DOMAIN Segments -> {"none", "clear", "damaged", "loaded"}]]
    /\ color \in {"none", "red", "green", "blue"}
    /\ faults \in 0..MaxFaults /\ resets \in 0..MaxResets /\ boots \in 0..MaxBoots
    /\ due \in {"hook", "skip", "unseen"}
    /\ owed \in BOOLEAN /\ damage \in BOOLEAN /\ cut \in BOOLEAN

\* Stage 1 is put in the place of ExecPS2 and nowhere else: the chip answers
\* when the last byte of the system call has been read, and the data it was
\* given five bytes before is stage 1 (osdsys.c:14-43).  A reset in the middle of
\* the table that was too short for the firmware to see lets it count on through
\* other bytes, up to the end of that one count (reset.c:21).
InjectsAtExecPS2 ==
    [][injected' /\ ~injected =>
          /\ data_out' = "stage1"
          /\ cut \/ (pc' = "load" /\ pos' = OsdsysLast + 1)]_vars

\* The loader only goes on with what it has checked: stage 2 runs if stage 1 and
\* stage 2 are whole, and the menu runs with every segment loaded and nothing
\* else in its memory (stage1/src/main.c:53-99, load_elf.h:44-110).
RunsOnlyWhole ==
    /\ pc \in {"header", "segments", "menu"} =>
          memory.stage1 = "stage1" /\ memory.stage2 = "stage2"
    /\ pc = "menu" => \A i \in DOMAIN Segments :
          memory.segments[i] = (IF Segments[i] = "PT_LOAD" THEN "loaded" ELSE "clear")

\* The color the loader stops with is what the README says of it: red after a
\* command that failed as often as it is tried, blue after data that is damaged,
\* green once stage 2 is there and whole (README.md:68-74).  It stops for nothing
\* less, and hangs only after data that is damaged.
ColorTells ==
    /\ pc = "panic" =>
          /\ color \in {"red", "blue", "green"}
          /\ color \in {"red", "green"} => attempt = Retries
          /\ color = "blue" => damage
          /\ color = "green" <=> memory.stage2 = "stage2"
    /\ pc = "hang" => damage

\* The menu takes the place of each OSDSYS whose start the chip could see, and
\* DISABLE_NEXT_OSDSYS_HOOK is good for exactly one of them, whatever else was
\* read before, and however often reset was pressed: a reset clears it if the
\* firmware has seen it, and leaves it alone otherwise, but for one in the middle
\* of the table of system calls, whose count may still use it up.  The console
\* is lost only if all of OSDSYS was read before core 1 had started the DMA
\* (osdsys.c:13-109, patch_control.c:11-28, reset.c:5-34, main.c:18-77).
HooksAllButNext ==
    [][(Loads /\ pc' # "load") =>
          \/ due = "unseen" \/ stuck
          \/ pc' = (IF due = "hook" THEN "stage1 size" ELSE "osdsys")]_vars
=============================================================================
