----------------------------- MODULE Boot_proofs ----------------------------
(***************************************************************************)
(* Theorems about Boot, for every number of attempts, every list of        *)
(* program headers of the menu, every set of bytes that the console reads  *)
(* besides OSDSYS, and all bounds.                                         *)
(*                                                                         *)
(* Three inductive invariants: TypeInv, with what the read handlers keep   *)
(* (ReadInv); LoaderInv, what is whole in the memory of the console at     *)
(* each step of the loader; and HookInv, where the read handlers are in    *)
(* the OSDSYS that is read, and that the flag is what is owed.             *)
(***************************************************************************)
EXTENDS Boot, TLAPS

\* What the patterns are, once, so that no other proof unfolds them.
LEMMA ElfFacts ==
    /\ DOMAIN OsdsysElf \subseteq 1..51
    /\ 51 \in DOMAIN OsdsysElf
    /\ OsdsysElf[51] = 0
    /\ \A n \in DOMAIN OsdsysElf : OsdsysElf[n] # 127
BY DEF OsdsysElf

LEMMA TableFacts ==
    /\ DOMAIN SyscallTable = {503, 508}
    /\ SyscallTable[503] = 224 /\ SyscallTable[508] = 0
    /\ ExecPS2High = 503 /\ ExecPS2Last = 508 /\ OsdsysLast = 559
BY DEF SyscallTable, ExecPS2High, ExecPS2Last, OsdsysLast

LEMMA IopFacts ==
    /\ DOMAIN IopBoot = 1..19
    /\ \A n \in 1..19 : IopBoot[n] # 127
BY DEF IopBoot

\* OSDSYS matches its patterns, and no byte of it but the first is 127.
LEMMA OsdsysBytes ==
    /\ OsdsysByte(0) = 127
    /\ \A n \in DOMAIN OsdsysElf : OsdsysByte(n) = OsdsysElf[n]
    /\ \A n \in 1..559 : OsdsysByte(n) # 127
    /\ OsdsysByte(554) = 224 /\ OsdsysByte(559) = 0
    /\ \A n \in 555..559 : OsdsysByte(n) = 0
<1>1. OsdsysByte(0) = 127
    BY ElfFacts, TableFacts DEF OsdsysByte
<1>2. ASSUME NEW n \in DOMAIN OsdsysElf
      PROVE  OsdsysByte(n) = OsdsysElf[n]
    <2>1. n \in 1..51
        BY ElfFacts
    <2>2. n # 0 /\ n # OsdsysLast - 5 /\ ~(n > OsdsysLast - 5)
        BY <2>1, TableFacts
    <2> QED BY <2>2 DEF OsdsysByte
<1>3. ASSUME NEW n \in 1..559
      PROVE  OsdsysByte(n) # 127
    <2>1. CASE n \in DOMAIN OsdsysElf
        BY <1>2, <2>1, ElfFacts
    <2>2. CASE n \notin DOMAIN OsdsysElf
        BY <2>2, TableFacts DEF OsdsysByte
    <2> QED BY <2>1, <2>2
<1>4. OsdsysByte(554) = 224 /\ \A n \in 555..559 : OsdsysByte(n) = 0
    BY ElfFacts, TableFacts DEF OsdsysByte
<1> QED BY <1>1, <1>2, <1>3, <1>4

-----------------------------------------------------------------------------
(***************************************************************************)
(* What a byte does to the read handlers                                   *)
(***************************************************************************)
Handlers == {"idle", "find_osdsys_elf", "find_osdsys_syscall_table",
             "find_iopboot", "find_iopboot2"}

\* Each counter stays within the bytes that its handler looks for, and stage 1
\* has been made ready before it is due.
ReadInv ==
    /\ read_handler \in Handlers
    /\ counter \in Nat
    /\ read_handler = "idle" => counter = 0
    /\ read_handler = "find_osdsys_elf" => counter <= 50
    /\ read_handler = "find_osdsys_syscall_table" =>
          counter <= 507 /\ (counter >= 503 => data_out = "stage1")
    /\ read_handler \in {"find_iopboot", "find_iopboot2"} => counter <= 19
    /\ disable_next_osdsys_hook \in BOOLEAN
    /\ data_out \in {"none", "stage1"}
    /\ injected \in BOOLEAN
    /\ injected => data_out = "stage1"

\* A byte keeps the read handlers within their patterns.
LEMMA ReadKeepsInv ==
    ASSUME NEW r, ReadInv, Read(r)
    PROVE  ReadInv'
<1>1. CASE Idle(r)
    BY <1>1 DEF ReadInv, Handlers, Idle, HandlerIs
<1>2. CASE FindOsdsysElf(r)
    BY <1>2, ElfFacts DEF ReadInv, Handlers, FindOsdsysElf, HandlerIs, StartsOver
<1>3. CASE FindOsdsysSyscallTable(r)
    <2> DEFINE n == counter + 1
    <2>1. n \in Nat /\ n <= 508 /\ (n > 503 => data_out = "stage1")
        BY <1>3 DEF ReadInv, FindOsdsysSyscallTable
    <2>2. CASE read_handler' = "idle" /\ counter' = 0
        <3>1. /\ disable_next_osdsys_hook' \in BOOLEAN
              /\ data_out' \in {"none", "stage1"}
              /\ injected' \in BOOLEAN
            BY <1>3 DEF ReadInv, FindOsdsysSyscallTable, FlagAfterSkip
        <3>2. injected' => data_out' = "stage1"
            <4>1. \/ UNCHANGED <<data_out, injected>>
                  \/ data_out' = "stage1"
                  \/ n = 508 /\ UNCHANGED data_out
                BY <1>3, TableFacts DEF FindOsdsysSyscallTable
            <4>2. n = 508 => data_out = "stage1"
                BY <2>1
            <4>3. injected => data_out = "stage1"
                BY DEF ReadInv
            <4> HIDE DEF n
            <4> QED BY <4>1, <4>2, <4>3
        <3> QED BY <2>2, <3>1, <3>2 DEF ReadInv, Handlers
    <2>3. CASE n = 503 /\ HandlerIs("find_osdsys_syscall_table", n)
        BY <1>3, <2>3, TableFacts
           DEF ReadInv, Handlers, FindOsdsysSyscallTable, HandlerIs, FlagAfterSkip
    <2>4. CASE n \notin {503, 508} /\ HandlerIs("find_osdsys_syscall_table", n)
        BY <1>3, <2>1, <2>4, TableFacts
           DEF ReadInv, Handlers, FindOsdsysSyscallTable, HandlerIs
    <2> QED
        BY <1>3, <2>2, <2>3, <2>4, TableFacts
           DEF FindOsdsysSyscallTable, HandlerIs
<1>4. CASE FindIopboot(r)
    BY <1>4, IopFacts DEF ReadInv, Handlers, FindIopboot, HandlerIs
<1> QED BY <1>1, <1>2, <1>3, <1>4 DEF Read

\* What is not the end of a header of OSDSYS does not lead to the table of system
\* calls, and only there the chip answers.
LEMMA ReadElsewhere ==
    ASSUME NEW r, ReadInv, Read(r),
           read_handler # "find_osdsys_syscall_table",
           ~(read_handler = "find_osdsys_elf" /\ counter = 50 /\ r = 0)
    PROVE  /\ read_handler' # "find_osdsys_syscall_table"
           /\ UNCHANGED <<disable_next_osdsys_hook, injected>>
<1>1. CASE Idle(r)
    BY <1>1 DEF ReadInv, Idle, HandlerIs
<1>2. CASE FindOsdsysElf(r)
    BY <1>2, ElfFacts DEF ReadInv, FindOsdsysElf, HandlerIs, StartsOver, Differs
<1>3. CASE FindIopboot(r)
    BY <1>3 DEF ReadInv, FindIopboot, HandlerIs
<1> QED BY <1>1, <1>2, <1>3 DEF Read, FindOsdsysSyscallTable

\* A search for the header of OSDSYS begins with 127 only.
LEMMA ReadNoStart ==
    ASSUME NEW r, ReadInv, Read(r), r # 127,
           read_handler \notin {"find_osdsys_elf", "find_osdsys_syscall_table"}
    PROVE  /\ read_handler' \notin {"find_osdsys_elf", "find_osdsys_syscall_table"}
           /\ UNCHANGED <<disable_next_osdsys_hook, injected>>
<1>1. CASE Idle(r)
    BY <1>1 DEF ReadInv, Idle, HandlerIs
<1>2. CASE FindIopboot(r)
    BY <1>2 DEF ReadInv, FindIopboot, HandlerIs
<1> QED BY <1>1, <1>2 DEF Read, FindOsdsysSyscallTable, FindOsdsysElf

\* The first byte of OSDSYS
LEMMA ReadStart ==
    ASSUME ReadInv, Read(127), read_handler # "find_osdsys_syscall_table"
    PROVE  /\ IF read_handler \in {"idle", "find_osdsys_elf"}
              THEN read_handler' = "find_osdsys_elf" /\ counter' = 0
              ELSE read_handler' = "idle"
           /\ UNCHANGED <<disable_next_osdsys_hook, injected>>
<1>1. CASE Idle(127)
    BY <1>1 DEF Idle, HandlerIs
<1>2. CASE FindOsdsysElf(127)
    BY <1>2 DEF FindOsdsysElf, HandlerIs, StartsOver
<1>3. CASE FindIopboot(127)
    BY <1>3, IopFacts DEF ReadInv, FindIopboot, HandlerIs, Differs
<1> QED BY <1>1, <1>2, <1>3 DEF Read, FindOsdsysSyscallTable

\* The header of OSDSYS
LEMMA ReadHeaderByte ==
    ASSUME NEW n \in 1..51, Read(OsdsysByte(n)), ReadInv,
           read_handler = "find_osdsys_elf", counter = n - 1
    PROVE  /\ IF n = 51
              THEN read_handler' = "find_osdsys_syscall_table" /\ counter' = 0
              ELSE read_handler' = "find_osdsys_elf" /\ counter' = n
           /\ UNCHANGED <<disable_next_osdsys_hook, injected>>
<1>1. FindOsdsysElf(OsdsysByte(n))
    BY DEF Read, Idle, FindOsdsysSyscallTable, FindIopboot
<1>2. counter + 1 = n
    OBVIOUS
<1>3. ~StartsOver(n, OsdsysByte(n))
    BY OsdsysBytes DEF StartsOver, Differs
<1> QED BY <1>1, <1>2, <1>3 DEF FindOsdsysElf, HandlerIs

\* The table of system calls, whose byte n is counted as n - 51
LEMMA ReadTableByte ==
    ASSUME NEW n \in 52..559, Read(OsdsysByte(n)), ReadInv,
           read_handler = "find_osdsys_syscall_table", counter = n - 52
    PROVE  /\ n \notin {554, 559} =>
                 /\ read_handler' = "find_osdsys_syscall_table"
                 /\ counter' = n - 51
                 /\ UNCHANGED <<disable_next_osdsys_hook, injected>>
           /\ n = 554 /\ disable_next_osdsys_hook =>
                 /\ read_handler' = "idle"
                 /\ disable_next_osdsys_hook' = FALSE
                 /\ injected' = injected
           /\ n = 554 /\ ~disable_next_osdsys_hook =>
                 /\ read_handler' = "find_osdsys_syscall_table"
                 /\ counter' = n - 51
                 /\ UNCHANGED <<disable_next_osdsys_hook, injected>>
           /\ n = 559 =>
                 /\ read_handler' = "idle"
                 /\ disable_next_osdsys_hook' = FALSE
                 /\ injected' = TRUE
<1>1. FindOsdsysSyscallTable(OsdsysByte(n))
    BY DEF Read, Idle, FindOsdsysElf, FindIopboot
<1>2. counter + 1 = n - 51
    OBVIOUS
<1>3. ~Differs(SyscallTable, n - 51, OsdsysByte(n))
    BY TableFacts, OsdsysBytes DEF Differs
<1>4. n - 51 \in DOMAIN SyscallTable <=> n \in {554, 559}
    BY TableFacts
<1> QED
    BY <1>1, <1>2, <1>3, <1>4, TableFacts
       DEF FindOsdsysSyscallTable, HandlerIs, FlagAfterSkip

-----------------------------------------------------------------------------
(***************************************************************************)
(* Types                                                                   *)
(***************************************************************************)
\* What core 1 has left to do is an end of the list of its steps.
Left == {SubSeq(StartUp, n, Len(StartUp)) : n \in 1..(Len(StartUp) + 1)}

LEMMA StartUpEnds ==
    /\ StartUp \in Left
    /\ \A s \in Left : s # <<>> => Tail(s) \in Left
<1> DEFINE s == StartUp
<1>1. s \in Seq({"clocks", "dma", "settings", "apps", "reset"}) /\ Len(s) = 5
    BY DEF StartUp
<1>2. Left = {SubSeq(s, n, 5) : n \in 1..6}
    BY <1>1 DEF Left
<1> HIDE DEF s
<1>3. SubSeq(s, 1, 5) = s
    BY <1>1
<1>4. SubSeq(s, 6, 5) = <<>>
    BY <1>1
<1>5. ASSUME NEW n \in 1..6, SubSeq(s, n, 5) # <<>>
      PROVE  n + 1 \in 1..6 /\ Tail(SubSeq(s, n, 5)) = SubSeq(s, n + 1, 5)
    <2>1. n # 6
        BY <1>4, <1>5
    <2> QED BY <1>1, <1>5, <2>1
<1>6. s \in Left
    BY <1>2, <1>3
<1> QED BY <1>2, <1>5, <1>6 DEF s

Memories == [stage1 : {"none", "stage1", "damaged"},
             size1 : {"none", "right", "wrong"},
             size2 : {"none", "right", "wrong"},
             stage2 : {"none", "stage2", "damaged"},
             segments : [DOMAIN Segments -> {"none", "clear", "damaged", "loaded"}]]

ChipTypes == core1 \in Left

ConsoleTypes ==
    /\ pc \in {"rom", "load", "osdsys", "stage1 size", "stage1 check",
               "stage2 size", "stage2 data", "stage2 check", "header",
               "segments", "menu", "panic", "hang", "lost"}
    /\ memory \in Memories
    /\ color \in {"none", "red", "green", "blue"}

\* A command that has failed as often as it is tried has stopped the loader.
CountTypes ==
    /\ pos \in Nat /\ pos <= 560
    /\ attempt \in Nat /\ attempt <= Retries
    /\ pc # "panic" => attempt < Retries
    /\ segment \in Nat /\ segment <= Len(Segments) + 1

OtherTypes ==
    /\ faults \in 0..MaxFaults /\ resets \in 0..MaxResets /\ boots \in 0..MaxBoots
    /\ due \in {"hook", "skip", "unseen"}

FlagTypes ==
    /\ listens \in BOOLEAN /\ header \in BOOLEAN /\ damage \in BOOLEAN
    /\ owed \in BOOLEAN /\ cut \in BOOLEAN /\ stuck \in BOOLEAN

TypeInv ==
    /\ ReadInv
    /\ ChipTypes
    /\ ConsoleTypes
    /\ CountTypes
    /\ OtherTypes
    /\ FlagTypes

LEMMA Constants ==
    /\ Retries \in Nat /\ Retries > 0
    /\ MaxFaults \in Nat /\ MaxResets \in Nat /\ MaxBoots \in Nat
    /\ Len(Segments) \in Nat
    /\ DOMAIN Segments = 1..Len(Segments)
BY BootAssumption

LEMMA ColdIsMemory == Cold \in Memories
BY DEF Cold, Memories

LEMMA Unchanged ==
    /\ ReadInv /\ UNCHANGED readVars => ReadInv'
    /\ ChipTypes /\ UNCHANGED chip => ChipTypes'
    /\ ConsoleTypes /\ UNCHANGED <<pc, memory, color>> => ConsoleTypes'
    /\ CountTypes /\ UNCHANGED <<pc, pos, attempt, segment>> => CountTypes'
<1>1. ReadInv /\ UNCHANGED readVars => ReadInv'
    BY DEF ReadInv, readVars
<1>2. ChipTypes /\ UNCHANGED chip => ChipTypes'
    BY DEF ChipTypes, chip
<1>3. ConsoleTypes /\ UNCHANGED <<pc, memory, color>> => ConsoleTypes'
    BY Zenon DEF ConsoleTypes
<1>4. CountTypes /\ UNCHANGED <<pc, pos, attempt, segment>> => CountTypes'
    BY DEF CountTypes
<1> QED BY <1>1, <1>2, <1>3, <1>4

LEMMA TypeInvIsOK == TypeInv => TypeOK
<1> SUFFICES ASSUME TypeInv PROVE TypeOK
    OBVIOUS
<1>1. \E n \in 1..(Len(StartUp) + 1) : core1 = SubSeq(StartUp, n, Len(StartUp))
    BY DEF TypeInv, ChipTypes, Left
<1>2. /\ read_handler \in Handlers
      /\ counter \in 0..ExecPS2Last
      /\ read_handler = "idle" => counter = 0
    BY TableFacts DEF TypeInv, ReadInv, Handlers
<1>3. /\ pos \in 0..(OsdsysLast + 1)
      /\ attempt \in 0..Retries
      /\ segment \in 0..(Len(Segments) + 1)
    BY TableFacts, Constants DEF TypeInv, CountTypes
<1>4. /\ pc \in {"rom", "load", "osdsys", "stage1 size", "stage1 check",
                 "stage2 size", "stage2 data", "stage2 check", "header",
                 "segments", "menu", "panic", "hang", "lost"}
      /\ memory \in Memories
      /\ color \in {"none", "red", "green", "blue"}
    BY Zenon DEF TypeInv, ConsoleTypes
<1>5. /\ disable_next_osdsys_hook \in BOOLEAN
      /\ data_out \in {"none", "stage1"}
      /\ injected \in BOOLEAN
      /\ FlagTypes /\ OtherTypes
    BY Zenon DEF TypeInv, ReadInv
<1> QED
    BY <1>1, <1>2, <1>3, <1>4, <1>5, Zenon
       DEF TypeOK, Handlers, Memories, FlagTypes, OtherTypes

LEMMA TypeInit == Init => TypeInv
<1> SUFFICES ASSUME Init PROVE TypeInv
    OBVIOUS
<1>1. ReadInv
    BY DEF Init, ReadInit, ReadInv, Handlers
<1>2. ChipTypes
    BY StartUpEnds DEF Init, ChipTypes
<1>3. ConsoleTypes
    BY ColdIsMemory, Constants DEF Init, ConsoleTypes
<1>4. OtherTypes
    BY Constants DEF Init, OtherTypes
<1>5. FlagTypes
    BY DEF Init, FlagTypes
<1>6. CountTypes
    BY Constants DEF Init, CountTypes
<1> QED BY <1>1, <1>2, <1>3, <1>4, <1>5, <1>6 DEF TypeInv

LEMMA SniffedKeepsInv ==
    ASSUME NEW r, ReadInv, Sniffed(r)
    PROVE  ReadInv'
BY ReadKeepsInv, Unchanged DEF Sniffed

LEMMA FirmwareStartsTypes ==
    ASSUME FirmwareStarts
    PROVE  ReadInv' /\ ChipTypes'
BY StartUpEnds DEF FirmwareStarts, ReadInv, Handlers, ChipTypes

LEMMA ConsoleStartsTypes ==
    ASSUME NEW at \in {"rom", "lost"}, ConsoleStarts(at)
    PROVE  ConsoleTypes' /\ CountTypes'
<1>1. ConsoleTypes'
    BY ColdIsMemory, Zenon DEF ConsoleStarts, ConsoleTypes
<1>2. CountTypes'
    BY Constants DEF ConsoleStarts, CountTypes
<1> QED BY <1>1, <1>2

\* The loader sends whole commands: the read handlers see none of it.
LEMMA LoaderKeepsChip ==
    ASSUME Loader
    PROVE  UNCHANGED <<readVars, core1, listens, stuck, pos, resets, boots, due, owed, cut>>
<1>1. CASE Stage1Size \/ Stage2Size \/ Stage2Data \/ ReadHeader
              \/ ReadProgramHeader \/ ReadSegment
    BY <1>1, Zenon DEF Stage1Size, Stage2Size, ReadSize, Stage2Data, ReadHeader,
                       ReadProgramHeader, ReadSegment, chip, hook
<1>2. CASE Stage1Check \/ Stage2Check \/ ExecPS2
    BY <1>2, Zenon DEF Stage1Check, Stage2Check, ExecPS2, chip, bounds, hook
<1> QED BY <1>1, <1>2, Zenon DEF Loader

\* The console starts again, in its ROM or in the middle of an answer.
LEMMA Restarts ==
    ASSUME BackToRom \/ DisableNextOsdsysHook \/ ConsoleReset
    PROVE  /\ \E at \in {"rom", "lost"} : ConsoleStarts(at)
           /\ ConsoleTypes' /\ CountTypes'
<1>1. \E at \in {"rom", "lost"} : ConsoleStarts(at)
    BY Zenon DEF BackToRom, DisableNextOsdsysHook, ConsoleReset
<1> QED BY <1>1, ConsoleStartsTypes, Zenon

LEMMA ReadTypesNext ==
    ASSUME TypeInv, [Next]_vars
    PROVE  ReadInv' /\ ChipTypes'
<1> USE DEF TypeInv
<1>1. CASE ReadOther \/ StartOsdsys \/ ReadOsdsys
    <2>1. (\E r : Sniffed(r)) /\ UNCHANGED core1
        BY <1>1, Zenon DEF ReadOther, StartOsdsys, ReadOsdsys
    <2>2. PICK r : Sniffed(r)
        BY <2>1
    <2>3. ReadInv'
        BY <2>2, SniffedKeepsInv
    <2>4. ChipTypes'
        BY <2>1, Zenon DEF ChipTypes
    <2> QED BY <2>3, <2>4
<1>2. CASE EndOsdsys \/ AnswerEnds
    <2>1. UNCHANGED <<read_handler, counter, disable_next_osdsys_hook, data_out>>
        BY <1>2, Zenon DEF EndOsdsys, AnswerEnds
    <2>2. UNCHANGED chip /\ (injected' = FALSE \/ UNCHANGED injected)
        BY <1>2, Zenon DEF EndOsdsys, AnswerEnds
    <2>3. CASE injected' = FALSE
        BY <2>1, <2>2, <2>3, Unchanged, Zenon DEF ReadInv
    <2>4. CASE UNCHANGED injected
        BY <2>1, <2>2, <2>4, Unchanged, Zenon DEF readVars
    <2> QED BY <2>2, <2>3, <2>4
<1>3. CASE DisableNextOsdsysHook
    BY <1>3, Unchanged, Zenon DEF DisableNextOsdsysHook, ReadInv
<1>4. CASE ConsoleReset
    <2>1. CASE FirmwareStarts
        BY <2>1, FirmwareStartsTypes
    <2>2. CASE ~FirmwareStarts
        <3>1. UNCHANGED readVars /\ UNCHANGED chip
            BY <1>4, <2>2, Zenon DEF ConsoleReset
        <3> QED BY <3>1, Unchanged, Zenon
    <2> QED BY <2>1, <2>2
<1>5. CASE Core1Step
    BY <1>5, Unchanged, StartUpEnds, Zenon DEF Core1Step, ChipTypes
<1>6. CASE Core0Starts
    BY <1>6, Unchanged, Zenon DEF Core0Starts, ChipTypes
<1>7. CASE Loader
    BY <1>7, LoaderKeepsChip, Unchanged, Zenon DEF chip
<1>8. CASE BackToRom \/ UNCHANGED vars
    BY <1>8, Unchanged, Zenon DEF BackToRom, vars
<1> QED
    BY <1>1, <1>2, <1>3, <1>4, <1>5, <1>6, <1>7, <1>8, Zenon DEF Next, Loads

\* The memory of the console
LEMMA MemoryUpdates ==
    ASSUME NEW m \in Memories
    PROVE  /\ \A v \in {"none", "stage1", "damaged"} :
                 [m EXCEPT !.stage1 = v] \in Memories
           /\ \A f \in {"size1", "size2"}, v \in {"right", "wrong"} :
                 [m EXCEPT ![f] = v] \in Memories
           /\ \A v \in {"stage2", "damaged"} : [m EXCEPT !.stage2 = v] \in Memories
           /\ [m EXCEPT !.segments = [i \in DOMAIN Segments |-> "clear"]] \in Memories
           /\ \A i, v : v \in {"loaded", "damaged"} =>
                 [m EXCEPT !.segments[i] = v] \in Memories
<1>1. \A v \in {"none", "stage1", "damaged"} : [m EXCEPT !.stage1 = v] \in Memories
    BY DEF Memories
<1>2. \A f \in {"size1", "size2"}, v \in {"right", "wrong"} :
          [m EXCEPT ![f] = v] \in Memories
    BY DEF Memories
<1>3. \A v \in {"stage2", "damaged"} : [m EXCEPT !.stage2 = v] \in Memories
    BY DEF Memories
<1>4. [m EXCEPT !.segments = [i \in DOMAIN Segments |-> "clear"]] \in Memories
    BY DEF Memories
<1>5. ASSUME NEW i, NEW v \in {"loaded", "damaged"}
      PROVE  [m EXCEPT !.segments[i] = v] \in Memories
    <2>1. [m.segments EXCEPT ![i] = v]
             \in [DOMAIN Segments -> {"none", "clear", "damaged", "loaded"}]
        BY DEF Memories
    <2> DEFINE s == [m.segments EXCEPT ![i] = v]
    <2>2. [m EXCEPT !.segments[i] = v] = [m EXCEPT !.segments = s]
        OBVIOUS
    <2> HIDE DEF s
    <2>3. s \in [DOMAIN Segments -> {"none", "clear", "damaged", "loaded"}]
        BY <2>1 DEF s
    <2>4. [m EXCEPT !.segments = s] \in Memories
        BY <2>3 DEF Memories
    <2> QED BY <2>2, <2>4
<1> QED BY <1>1, <1>2, <1>3, <1>4, <1>5

LEMMA ConsoleTypesNext ==
    ASSUME TypeInv, [Next]_vars
    PROVE  ConsoleTypes'
<1> memory \in Memories /\ data_out \in {"none", "stage1"}
    BY Zenon DEF TypeInv, ConsoleTypes, ReadInv
<1> USE DEF TypeInv, Panic, CmdFails, CmdAnswered, Stage3Fails
<1>1. CASE Core0Starts \/ Core1Step \/ UNCHANGED vars
    BY <1>1, Unchanged, Zenon DEF Core0Starts, Core1Step, vars, console
<1>2. CASE ReadOther \/ AnswerEnds
    BY <1>2, Zenon DEF ReadOther, AnswerEnds, ConsoleTypes, console
<1>3. CASE StartOsdsys
    BY <1>3, Zenon DEF StartOsdsys, ConsoleTypes
<1>4. CASE ReadOsdsys
    BY <1>4, Zenon DEF ReadOsdsys, ConsoleTypes
<1>5. CASE EndOsdsys
    BY <1>5, MemoryUpdates, Zenon DEF EndOsdsys, ConsoleTypes
<1>6. CASE Stage1Size \/ Stage2Size
    BY <1>6, MemoryUpdates, Zenon DEF Stage1Size, Stage2Size, ReadSize, ConsoleTypes
<1>7. CASE Stage1Check
    BY <1>7, Zenon DEF Stage1Check, ConsoleTypes
<1>8. CASE Stage2Data
    BY <1>8, MemoryUpdates, Zenon DEF Stage2Data, ConsoleTypes
<1>9. CASE Stage2Check
    BY <1>9, MemoryUpdates, Zenon DEF Stage2Check, ConsoleTypes
<1>10. CASE ReadHeader
    BY <1>10, Zenon DEF ReadHeader, ConsoleTypes
<1>11. CASE ReadProgramHeader
    BY <1>11, Zenon DEF ReadProgramHeader, ConsoleTypes
<1>12. CASE ReadSegment
    <2>1. memory' \in Memories
        <3>1. \/ memory' = memory
              \/ \E v \in {"loaded", "damaged"} :
                    memory' = [memory EXCEPT !.segments[segment] = v]
            BY <1>12, Zenon DEF ReadSegment
        <3>2. ASSUME NEW v \in {"loaded", "damaged"}
              PROVE  [memory EXCEPT !.segments[segment] = v] \in Memories
            BY MemoryUpdates
        <3> QED BY <3>1, <3>2, Zenon
    <2> QED BY <1>12, <2>1, Zenon DEF ReadSegment, ConsoleTypes
<1>13. CASE ExecPS2
    BY <1>13, Zenon DEF ExecPS2, ConsoleTypes
<1>14. CASE BackToRom \/ DisableNextOsdsysHook \/ ConsoleReset
    BY <1>14, Restarts, Zenon
<1> QED
    BY <1>1, <1>2, <1>3, <1>4, <1>5, <1>6, <1>7, <1>8, <1>9, <1>10, <1>11,
       <1>12, <1>13, <1>14, Zenon DEF Next, Loads, Loader

LEMMA CountTypesNext ==
    ASSUME TypeInv, [Next]_vars
    PROVE  CountTypes'
<1>11. CASE BackToRom \/ DisableNextOsdsysHook \/ ConsoleReset
    BY <1>11, Restarts, Zenon
<1> USE DEF TypeInv, CountTypes, Panic, CmdFails, CmdAnswered, Stage3Fails, Exhausted
<1> USE Constants
<1>1. CASE Core0Starts \/ Core1Step \/ UNCHANGED vars
    BY <1>1, Unchanged, Zenon DEF Core0Starts, Core1Step, vars, console
<1>2. CASE ReadOther \/ AnswerEnds
    BY <1>2 DEF ReadOther, AnswerEnds, console
<1>3. CASE StartOsdsys
    BY <1>3 DEF StartOsdsys
<1>4. CASE ReadOsdsys
    BY <1>4, TableFacts DEF ReadOsdsys
<1>5. CASE EndOsdsys
    BY <1>5 DEF EndOsdsys
<1>6. CASE Stage1Size \/ Stage2Size \/ Stage2Data
    <2>1. pc # "panic" /\ UNCHANGED <<pos, segment>>
        BY <1>6, Zenon DEF Stage1Size, Stage2Size, ReadSize, Stage2Data
    <2>2. \/ attempt' = 0
          \/ attempt' = attempt + 1 
             /\ IF attempt + 1 = Retries THEN pc' = "panic" ELSE pc' = pc
        BY <1>6, Zenon DEF Stage1Size, Stage2Size, ReadSize, Stage2Data
    <2> QED BY <2>1, <2>2
<1>7. CASE Stage1Check \/ Stage2Check \/ ExecPS2
    BY <1>7 DEF Stage1Check, Stage2Check, ExecPS2
<1>8. CASE ReadHeader
    BY <1>8 DEF ReadHeader
<1>9. CASE ReadProgramHeader
    BY <1>9 DEF ReadProgramHeader
<1>10. CASE ReadSegment
    BY <1>10 DEF ReadSegment, NextSegment
<1> QED
    BY <1>1, <1>2, <1>3, <1>4, <1>5, <1>6, <1>7, <1>8, <1>9, <1>10,
       <1>11, Zenon DEF Next, Loads, Loader

LEMMA OtherTypesNext ==
    ASSUME TypeInv, [Next]_vars
    PROVE  OtherTypes'
<1> USE DEF TypeInv, OtherTypes, CmdFails, Stage3Fails, Fault
<1> USE Constants
<1>1. CASE Core0Starts \/ Core1Step \/ ReadOther \/ AnswerEnds \/ BackToRom
             \/ DisableNextOsdsysHook \/ UNCHANGED vars
    BY <1>1, Zenon DEF Core0Starts, Core1Step, ReadOther, AnswerEnds, BackToRom,
                       DisableNextOsdsysHook, vars, bounds, hook
<1>2. CASE StartOsdsys
    BY <1>2 DEF StartOsdsys
<1>3. CASE ReadOsdsys
    BY <1>3, Zenon DEF ReadOsdsys, bounds
<1>4. CASE EndOsdsys
    <2>1. /\ UNCHANGED <<resets, boots, due>>
          /\ faults' = faults \/ (faults < MaxFaults /\ faults' = faults + 1)
        BY <1>4, Zenon DEF EndOsdsys, hook
    <2> QED BY <2>1
<1>5. CASE Stage1Check \/ Stage2Check \/ ExecPS2
    BY <1>5, Zenon DEF Stage1Check, Stage2Check, ExecPS2, bounds, hook
<1>6. CASE Stage1Size \/ Stage2Size \/ Stage2Data \/ ReadHeader
              \/ ReadProgramHeader \/ ReadSegment
    <2>1. UNCHANGED <<resets, boots, due>>
        BY <1>6, LoaderKeepsChip, Zenon DEF Loader
    <2>2. faults' = faults \/ (faults < MaxFaults /\ faults' = faults + 1)
        BY <1>6, Zenon DEF Stage1Size, Stage2Size, ReadSize, Stage2Data, ReadHeader,
                    ReadProgramHeader, ReadSegment
    <2> QED BY <2>1, <2>2
<1>7. CASE ConsoleReset
    BY <1>7 DEF ConsoleReset
<1> QED
    BY <1>1, <1>2, <1>3, <1>4, <1>5, <1>6, <1>7, Zenon DEF Next, Loads, Loader

LEMMA FlagTypesNext ==
    ASSUME TypeInv, [Next]_vars
    PROVE  FlagTypes'
<1> USE DEF TypeInv, FlagTypes, Stage3Fails
<1>1. CASE Core0Starts \/ Core1Step \/ AnswerEnds \/ UNCHANGED vars
    BY <1>1, Zenon DEF Core0Starts, Core1Step, AnswerEnds, vars, console, chip, hook
<1>2. CASE ReadOther \/ StartOsdsys \/ ReadOsdsys
    <2>1. UNCHANGED <<listens, header, damage>>
        BY <1>2, Zenon DEF ReadOther, StartOsdsys, ReadOsdsys
    <2>2. owed' \in BOOLEAN
        BY <1>2, Zenon DEF ReadOther, StartOsdsys, ReadOsdsys
    <2>3. cut' \in BOOLEAN /\ stuck' \in BOOLEAN
        BY <1>2, Zenon DEF ReadOther, StartOsdsys, ReadOsdsys, Sniffed
    <2> QED BY <2>1, <2>2, <2>3, Zenon
<1>3. CASE EndOsdsys
    BY <1>3, Zenon DEF EndOsdsys, chip, hook
<1>4. CASE Loader
    <2>1. UNCHANGED <<listens, owed, cut, stuck>>
        BY <1>4, LoaderKeepsChip, Zenon
    <2>2. header' \in BOOLEAN
        BY <1>4, Zenon
           DEF Loader, Stage1Size, Stage2Size, ReadSize, Stage1Check, Stage2Data,
               Stage2Check, ReadHeader, ReadProgramHeader, ReadSegment, ExecPS2
    <2>3. damage' \in BOOLEAN
        BY <1>4, Zenon
           DEF Loader, Stage1Size, Stage2Size, ReadSize, Stage1Check, Stage2Data,
               Stage2Check, ReadHeader, ReadProgramHeader, ReadSegment, ExecPS2
    <2> QED BY <2>1, <2>2, <2>3, Zenon
<1>5. CASE BackToRom
    BY <1>5, Zenon DEF BackToRom, ConsoleStarts, chip, hook
<1>6. CASE DisableNextOsdsysHook
    BY <1>6, Zenon DEF DisableNextOsdsysHook, ConsoleStarts, chip
<1>7. CASE ConsoleReset
    BY <1>7, Zenon DEF ConsoleReset, ConsoleStarts, FirmwareStarts, chip
<1> QED
    BY <1>1, <1>2, <1>3, <1>4, <1>5, <1>6, <1>7, Zenon DEF Next, Loads

LEMMA TypeNext == TypeInv /\ [Next]_vars => TypeInv'
BY ReadTypesNext, ConsoleTypesNext, CountTypesNext, OtherTypesNext, FlagTypesNext
   DEF TypeInv

\* The variables keep within their types, whatever the number of attempts, the
\* segments of the menu and the bytes that are read: the counters of the read
\* handlers among them (osdsys.c, iopboot.c).
THEOREM TypeCorrect == Spec => []TypeOK
<1>1. Spec => []TypeInv
    BY TypeInit, TypeNext, PTL DEF Spec
<1> QED BY <1>1, TypeInvIsOK, PTL

-----------------------------------------------------------------------------
(***************************************************************************)
(* The loader                                                              *)
(***************************************************************************)
\* What of the memory is whole where the loader is, and what it was damaged by.
MemoryInv ==
    /\ pc \in {"rom", "load", "osdsys", "lost", "stage1 size", "stage1 check",
               "stage2 size", "stage2 data"} => memory.stage2 = "none"
    /\ pc \in {"stage1 size", "stage1 check"} => memory.stage1 # "none"
    /\ pc = "stage1 check" => memory.size1 # "none"
    /\ pc \in {"stage2 size", "stage2 data", "stage2 check", "header",
               "segments", "menu"} => memory.stage1 = "stage1"
    /\ pc = "stage2 check" => memory.stage2 # "none"
    /\ pc \in {"header", "segments", "menu"} => memory.stage2 = "stage2"
    /\ memory.stage1 = "damaged" => damage
    /\ memory.stage2 = "damaged" => damage
    /\ memory.size1 = "wrong" => damage
    /\ memory.size2 = "wrong" => damage

\* The segments before the one that is read are in their places, and those that
\* are not loaded are clear.
Right(i) == IF Segments[i] = "PT_LOAD" THEN "loaded" ELSE "clear"

SegmentInv ==
    /\ pc = "header" => \A i \in DOMAIN Segments : memory.segments[i] = "clear"
    /\ pc = "segments" =>
          /\ segment >= 1
          /\ \A i \in DOMAIN Segments :
                /\ i < segment => memory.segments[i] = Right(i)
                /\ Segments[i] # "PT_LOAD" => memory.segments[i] = "clear"
          /\ header => segment <= Len(Segments) /\ Segments[segment] = "PT_LOAD"
    /\ pc = "menu" => \A i \in DOMAIN Segments : memory.segments[i] = Right(i)

LoaderInv == MemoryInv /\ SegmentInv /\ ColorTells

LEMMA MemoryFields ==
    ASSUME NEW m \in Memories
    PROVE  /\ m.stage1 \in {"none", "stage1", "damaged"}
           /\ m.size1 \in {"none", "right", "wrong"}
           /\ m.size2 \in {"none", "right", "wrong"}
           /\ m.stage2 \in {"none", "stage2", "damaged"}
           /\ DOMAIN m.segments = DOMAIN Segments
BY DEF Memories

\* What becomes of the fields of the memory
LEMMA Stage1Becomes ==
    ASSUME memory \in Memories, NEW v, memory' = [memory EXCEPT !.stage1 = v]
    PROVE  /\ memory'.stage1 = v
           /\ memory'.size1 = memory.size1
           /\ memory'.size2 = memory.size2
           /\ memory'.stage2 = memory.stage2
           /\ memory'.segments = memory.segments
BY DEF Memories

LEMMA Size1Becomes ==
    ASSUME memory \in Memories, NEW v, memory' = [memory EXCEPT !["size1"] = v]
    PROVE  /\ memory'.stage1 = memory.stage1
           /\ memory'.size1 = v
           /\ memory'.size2 = memory.size2
           /\ memory'.stage2 = memory.stage2
           /\ memory'.segments = memory.segments
BY DEF Memories

LEMMA Size2Becomes ==
    ASSUME memory \in Memories, NEW v, memory' = [memory EXCEPT !["size2"] = v]
    PROVE  /\ memory'.stage1 = memory.stage1
           /\ memory'.size1 = memory.size1
           /\ memory'.size2 = v
           /\ memory'.stage2 = memory.stage2
           /\ memory'.segments = memory.segments
BY DEF Memories

LEMMA Stage2Becomes ==
    ASSUME memory \in Memories, NEW v, memory' = [memory EXCEPT !.stage2 = v]
    PROVE  /\ memory'.stage1 = memory.stage1
           /\ memory'.size1 = memory.size1
           /\ memory'.size2 = memory.size2
           /\ memory'.stage2 = v
           /\ memory'.segments = memory.segments
BY DEF Memories

LEMMA SegmentsBecome ==
    ASSUME memory \in Memories, NEW v, memory' = [memory EXCEPT !.segments = v]
    PROVE  /\ memory'.stage1 = memory.stage1
           /\ memory'.size1 = memory.size1
           /\ memory'.size2 = memory.size2
           /\ memory'.stage2 = memory.stage2
           /\ memory'.segments = v
BY DEF Memories

LEMMA SegmentBecomes ==
    ASSUME memory \in Memories, NEW i \in DOMAIN Segments, NEW v,
           memory' = [memory EXCEPT !.segments[i] = v]
    PROVE  /\ memory'.stage1 = memory.stage1
           /\ memory'.size1 = memory.size1
           /\ memory'.size2 = memory.size2
           /\ memory'.stage2 = memory.stage2
           /\ memory'.segments[i] = v
           /\ \A j \in DOMAIN Segments \ {i} :
                 memory'.segments[j] = memory.segments[j]
BY DEF Memories

LEMMA ColdFields ==
    /\ Cold.stage1 = "none" /\ Cold.size1 = "none"
    /\ Cold.stage2 = "none" /\ Cold.size2 = "none"
BY DEF Cold

LEMMA LoaderInit == Init => LoaderInv
BY ColdFields, Zenon DEF Init, LoaderInv, MemoryInv, SegmentInv, ColorTells

LEMMA LoaderRestarts ==
    ASSUME NEW at \in {"rom", "lost"}, ConsoleStarts(at)
    PROVE  LoaderInv'
BY ColdFields, Zenon
   DEF ConsoleStarts, LoaderInv, MemoryInv, SegmentInv, ColorTells

LEMMA LoaderUnchanged ==
    ASSUME LoaderInv, UNCHANGED <<pc, attempt, segment, header, memory, color, damage>>
    PROVE  LoaderInv'
BY Zenon DEF LoaderInv, MemoryInv, SegmentInv, ColorTells

\* Where the loader is not, only the memory matters.
LEMMA LoaderElsewhere ==
    ASSUME LoaderInv, UNCHANGED <<memory, damage>>,
           pc \in {"rom", "load", "osdsys", "lost"},
           pc' \in {"rom", "load", "osdsys", "lost"}
    PROVE  LoaderInv'
BY Zenon DEF LoaderInv, MemoryInv, SegmentInv, ColorTells

\* Each step of the loader keeps what the memory is at its place.
LEMMA MemoryNext ==
    ASSUME TypeInv, LoaderInv, Loader \/ EndOsdsys
    PROVE  MemoryInv'
<1> memory \in Memories
    BY Zenon DEF TypeInv, ConsoleTypes
<1> USE DEF LoaderInv, MemoryInv
<1>1. CASE EndOsdsys /\ (~injected \/ stuck)
    <2>1. pc = "load" /\ pc' \in {"osdsys", "lost"} /\ UNCHANGED <<memory, damage>>
        BY <1>1, Zenon DEF EndOsdsys
    <2> QED BY <2>1, Zenon
<1>2. CASE EndOsdsys /\ injected /\ ~stuck
    <2>1. data_out = "stage1"
        BY <1>2, Zenon DEF TypeInv, ReadInv
    <2>2. memory.stage2 = "none"
        BY <1>2, Zenon DEF EndOsdsys
    <2>3. \/ memory' = [memory EXCEPT !.stage1 = "stage1"] /\ UNCHANGED damage
          \/ memory' = [memory EXCEPT !.stage1 = "damaged"] /\ damage'
        BY <1>2, <2>1, Zenon DEF EndOsdsys
    <2>4. pc' = "stage1 size"
        BY <1>2, Zenon DEF EndOsdsys
    <2> QED BY <2>2, <2>3, <2>4, Stage1Becomes, Zenon
<1>3. CASE Stage1Size
    <2>1. \/ UNCHANGED <<pc, memory, damage>>
          \/ pc' = "panic" /\ UNCHANGED <<memory, damage>>
          \/ /\ pc' = "stage1 check"
             /\ \/ memory' = [memory EXCEPT !["size1"] = "right"] /\ UNCHANGED damage
                \/ memory' = [memory EXCEPT !["size1"] = "wrong"] /\ damage'
        BY <1>3, Zenon DEF Stage1Size, ReadSize, CmdAnswered, CmdFails, Panic
    <2>2. pc = "stage1 size"
        BY <1>3, Zenon DEF Stage1Size, ReadSize
    <2> QED BY <2>1, <2>2, Size1Becomes, Zenon
<1>4. CASE Stage2Size
    <2>1. \/ UNCHANGED <<pc, memory, damage>>
          \/ pc' = "panic" /\ UNCHANGED <<memory, damage>>
          \/ /\ pc' = "stage2 data"
             /\ \/ memory' = [memory EXCEPT !["size2"] = "right"] /\ UNCHANGED damage
                \/ memory' = [memory EXCEPT !["size2"] = "wrong"] /\ damage'
        BY <1>4, Zenon DEF Stage2Size, ReadSize, CmdAnswered, CmdFails, Panic
    <2>2. pc = "stage2 size"
        BY <1>4, Zenon DEF Stage2Size, ReadSize
    <2> QED BY <2>1, <2>2, Size2Becomes, Zenon
<1>5. CASE Stage1Check
    BY <1>5, Zenon DEF Stage1Check, Panic
<1>6. CASE Stage2Data
    <2>1. \/ UNCHANGED <<pc, memory, damage>>
          \/ pc' \in {"panic", "hang"} /\ UNCHANGED <<memory, damage>>
          \/ /\ pc' = "stage2 check"
             /\ \/ memory' = [memory EXCEPT !.stage2 = "stage2"] /\ UNCHANGED damage
                \/ /\ memory' = [memory EXCEPT !.stage2 = "damaged"]
                   /\ damage' \/ (memory.size2 = "wrong" /\ UNCHANGED damage)
        BY <1>6, Zenon DEF Stage2Data, CmdAnswered, CmdFails, Panic
    <2>2. pc = "stage2 data"
        BY <1>6, Zenon DEF Stage2Data
    <2> QED BY <2>1, <2>2, Stage2Becomes, Zenon
<1>7. CASE Stage2Check
    <2>1. \/ pc' = "panic" /\ UNCHANGED <<memory, damage>>
          \/ /\ pc' = "header" /\ memory.stage2 = "stage2"
             /\ memory' = [memory EXCEPT !.segments = [i \in DOMAIN Segments |-> "clear"]]
             /\ UNCHANGED damage
        BY <1>7, Zenon DEF Stage2Check, Stage2Matches, Panic
    <2>2. pc = "stage2 check"
        BY <1>7, Zenon DEF Stage2Check
    <2> QED BY <2>1, <2>2, SegmentsBecome, Zenon
<1>8. CASE ReadHeader \/ ReadProgramHeader \/ ExecPS2
    <2>1. /\ UNCHANGED <<memory, damage>>
          /\ pc \in {"header", "segments"}
          /\ pc' \in {"header", "segments", "menu", "panic"}
        BY <1>8, Zenon DEF ReadHeader, ReadProgramHeader, ExecPS2, Stage3Fails, Panic
    <2> QED BY <2>1, Zenon
<1>9. CASE ReadSegment
    <2>1. /\ pc = "segments" /\ pc' \in {"segments", "panic"}
          /\ UNCHANGED damage
          /\ \/ UNCHANGED memory
             \/ \E v : memory' = [memory EXCEPT !.segments[segment] = v]
        BY <1>9, Zenon DEF ReadSegment, Stage3Fails, Panic
    <2>2. segment \in DOMAIN Segments
        BY <1>9, <2>1, Constants DEF SegmentInv, ReadSegment, TypeInv, CountTypes
    <2> QED BY <2>1, <2>2, SegmentBecomes, Zenon
<1> QED
    BY <1>1, <1>2, <1>3, <1>4, <1>5, <1>6, <1>7, <1>8, <1>9, Zenon DEF Loader

\* Segments come one after the other, and a bad one again.
LEMMA SegmentNext ==
    ASSUME TypeInv, LoaderInv, Loader \/ EndOsdsys
    PROVE  SegmentInv'
<1> memory \in Memories
    BY Zenon DEF TypeInv, ConsoleTypes
<1> segment \in Nat /\ (pc = "segments" => segment >= 1)
    BY DEF TypeInv, CountTypes, LoaderInv, SegmentInv
<1>1. CASE pc' \notin {"header", "segments", "menu"}
    BY <1>1, Zenon DEF SegmentInv
<1>2. CASE Stage2Check /\ pc' = "header"
    <2>1. memory' = [memory EXCEPT !.segments = [i \in DOMAIN Segments |-> "clear"]]
        BY <1>2, Zenon DEF Stage2Check, Panic
    <2>2. memory'.segments = [i \in DOMAIN Segments |-> "clear"]
        BY <2>1, SegmentsBecome, Zenon
    <2> QED BY <1>2, <2>2, Zenon DEF SegmentInv
<1>3. CASE UNCHANGED <<pc, segment, header, memory>>
    BY <1>3, Zenon DEF LoaderInv, SegmentInv
<1>4. CASE ReadHeader /\ pc' = "segments"
    <2>1. pc = "header" /\ segment' = 1 /\ ~header' /\ UNCHANGED memory
        BY <1>4, Zenon DEF ReadHeader, Stage3Fails, Panic
    <2>2. \A i \in DOMAIN Segments : memory.segments[i] = "clear" /\ ~(i < 1)
        BY <2>1, Constants DEF LoaderInv, SegmentInv
    <2> QED BY <1>4, <2>1, <2>2 DEF SegmentInv
<1>5. CASE ReadProgramHeader /\ pc' = "segments" /\ segment' = segment + 1
    <2>1. /\ pc = "segments" /\ segment <= Len(Segments) /\ ~header
          /\ Segments[segment] # "PT_LOAD" /\ ~header' /\ UNCHANGED memory
        BY <1>5 DEF ReadProgramHeader
    <2>2. \A i \in DOMAIN Segments :
              /\ i < segment + 1 => memory.segments[i] = Right(i)
              /\ Segments[i] # "PT_LOAD" => memory.segments[i] = "clear"
        BY <2>1, Constants DEF LoaderInv, SegmentInv, Right
    <2> QED BY <1>5, <2>1, <2>2 DEF SegmentInv, Right
<1>6. CASE ReadProgramHeader /\ pc' = "segments" /\ segment' = segment /\ header'
    <2>1. /\ pc = "segments" /\ segment <= Len(Segments) /\ UNCHANGED memory
          /\ Segments[segment] = "PT_LOAD"
        BY <1>6 DEF ReadProgramHeader
    <2> QED BY <1>6, <2>1 DEF LoaderInv, SegmentInv, Right
<1>7. CASE ReadSegment /\ pc' = "segments"
    <2>1. /\ pc = "segments" /\ segment \in DOMAIN Segments
          /\ Segments[segment] = "PT_LOAD" /\ segment <= Len(Segments)
        BY <1>7, Constants DEF ReadSegment, LoaderInv, SegmentInv
    <2>2. CASE segment' = segment + 1
        <3>1. memory' = [memory EXCEPT !.segments[segment] = "loaded"] /\ ~header'
            BY <1>7, <2>2 DEF ReadSegment, NextSegment
        <3>2. \A i \in DOMAIN Segments :
                  /\ i < segment + 1 => memory'.segments[i] = Right(i)
                  /\ Segments[i] # "PT_LOAD" => memory'.segments[i] = "clear"
            <4>1. memory'.segments[segment] = "loaded"
                BY <2>1, <3>1, SegmentBecomes, Zenon
            <4>2. \A j \in DOMAIN Segments \ {segment} :
                      memory'.segments[j] = memory.segments[j]
                BY <2>1, <3>1, SegmentBecomes, Zenon
            <4>3. \A j \in DOMAIN Segments : j < segment + 1 => j < segment \/ j = segment
                BY Constants
            <4> QED BY <2>1, <4>1, <4>2, <4>3, Zenon DEF LoaderInv, SegmentInv, Right
        <3> QED BY <1>7, <2>2, <3>1, <3>2 DEF SegmentInv, Right
    <2>3. CASE segment' = segment
        <3>1. \/ UNCHANGED memory
              \/ memory' = [memory EXCEPT !.segments[segment] = "damaged"]
            BY <1>7, <2>3 DEF ReadSegment, NextSegment
        <3>2. \A i \in DOMAIN Segments :
                  /\ i < segment => memory'.segments[i] = Right(i)
                  /\ Segments[i] # "PT_LOAD" => memory'.segments[i] = "clear"
            <4>1. \A j \in DOMAIN Segments \ {segment} :
                      memory'.segments[j] = memory.segments[j]
                BY <2>1, <3>1, SegmentBecomes, Zenon
            <4>2. ~(segment < segment)
                OBVIOUS
            <4> QED BY <2>1, <4>1, <4>2, Zenon DEF LoaderInv, SegmentInv, Right
        <3> QED BY <1>7, <2>1, <2>3, <3>2 DEF SegmentInv, Right
    <2> QED BY <1>7, <2>2, <2>3 DEF ReadSegment, NextSegment
<1>8. CASE ExecPS2
    <2>1. pc = "segments" /\ pc' = "menu" /\ UNCHANGED memory /\ segment > Len(Segments)
        BY <1>8 DEF ExecPS2
    <2>2. \A i \in DOMAIN Segments : i < segment
        BY <2>1, Constants
    <2> QED BY <2>1, <2>2, Zenon DEF LoaderInv, SegmentInv, Right
<1>9. CASE EndOsdsys \/ Stage1Size \/ Stage1Check \/ Stage2Size \/ Stage2Data
    <2>1. \/ UNCHANGED <<pc, segment, header, memory>>
          \/ pc' \notin {"header", "segments", "menu"}
        BY <1>9, Zenon
           DEF EndOsdsys, Stage1Size, Stage2Size, ReadSize, CmdAnswered, CmdFails,
               Panic, Stage1Check, Stage2Data
    <2> QED BY <1>1, <1>3, <2>1, Zenon
<1>10. CASE Stage2Check
    BY <1>1, <1>2, <1>10, Zenon DEF Stage2Check, Panic
<1>11. CASE ReadHeader
    BY <1>1, <1>3, <1>4, <1>11, Zenon DEF ReadHeader, Stage3Fails, Panic
<1>12. CASE ReadProgramHeader
    BY <1>1, <1>3, <1>5, <1>6, <1>12, Zenon
       DEF ReadProgramHeader, Stage3Fails, Panic
<1>13. CASE ReadSegment
    BY <1>1, <1>7, <1>13, Zenon DEF ReadSegment, Stage3Fails, Panic
<1> QED BY <1>8, <1>9, <1>10, <1>11, <1>12, <1>13, Zenon DEF Loader

\* The loader stops for a reason its color tells.
LEMMA ColorNext ==
    ASSUME TypeInv, LoaderInv, Loader \/ EndOsdsys
    PROVE  ColorTells'
<1> memory \in Memories
    BY Zenon DEF TypeInv, ConsoleTypes
<1> attempt \in 0..Retries /\ Retries \in Nat
    BY Constants DEF TypeInv, CountTypes
<1>1. CASE pc' \notin {"panic", "hang"}
    BY <1>1, Zenon DEF ColorTells
<1>2. CASE Stage1Size \/ Stage2Size \/ Stage2Data
    <2>1. CASE pc' = "panic"
        <3>1. color' = "red" /\ attempt' = Retries /\ UNCHANGED memory
            BY <1>2, <2>1, Zenon
               DEF Stage1Size, Stage2Size, ReadSize, Stage2Data, CmdAnswered,
                   CmdFails, Panic
        <3>2. memory.stage2 = "none"
            BY <1>2, Zenon
               DEF LoaderInv, MemoryInv, Stage1Size, Stage2Size, ReadSize, Stage2Data
        <3> QED BY <2>1, <3>1, <3>2, Zenon DEF ColorTells
    <2>2. CASE pc' = "hang"
        <3>1. memory.size2 = "wrong" /\ UNCHANGED damage
            BY <1>2, <2>2, Zenon
               DEF Stage1Size, Stage2Size, ReadSize, Stage2Data, CmdAnswered,
                   CmdFails, Panic
        <3> QED BY <2>2, <3>1, Zenon DEF ColorTells, LoaderInv, MemoryInv
    <2> QED BY <1>1, <2>1, <2>2, Zenon
<1>3. CASE Stage1Check
    <2>1. /\ pc = "stage1 check" /\ UNCHANGED <<memory, damage>>
          /\ \/ pc' = "stage2 size"
             \/ pc' \in {"panic", "hang"} /\ (memory.stage1 # "stage1" \/ memory.size1 # "right")
          /\ pc' = "panic" => color' = "blue"
        BY <1>3, Zenon DEF Stage1Check, Panic
    <2>2. memory.stage1 # "stage1" => memory.stage1 = "damaged"
        BY <2>1, MemoryFields, Zenon DEF LoaderInv, MemoryInv
    <2>3. memory.size1 # "right" => memory.size1 = "wrong"
        BY <2>1, MemoryFields, Zenon DEF LoaderInv, MemoryInv
    <2> QED BY <2>1, <2>2, <2>3, Zenon DEF ColorTells, LoaderInv, MemoryInv
<1>4. CASE Stage2Check
    <2>1. /\ pc = "stage2 check" /\ pc' \in {"header", "panic"}
          /\ UNCHANGED damage
          /\ pc' = "panic" =>
                memory.stage2 # "stage2" /\ UNCHANGED memory /\ color' = "blue"
        BY <1>4, Zenon DEF Stage2Check, Stage2Matches, Panic
    <2>2. memory.stage2 # "stage2" => memory.stage2 = "damaged"
        BY <2>1, MemoryFields, Zenon DEF LoaderInv, MemoryInv
    <2> QED BY <2>1, <2>2, Zenon DEF ColorTells, LoaderInv, MemoryInv
<1>5. CASE ReadHeader \/ ReadProgramHeader \/ ReadSegment
    <2>1. CASE pc' = "panic"
        <3>1. /\ pc \in {"header", "segments"} /\ color' = "green"
              /\ attempt' = attempt + 1 /\ attempt + 1 = Retries
            BY <1>5, <2>1, Zenon
               DEF ReadHeader, ReadProgramHeader, ReadSegment, Stage3Fails,
                   Exhausted, Panic
        <3>2. memory'.stage2 = "stage2"
            <4>1. memory.stage2 = "stage2"
                BY <3>1, Zenon DEF LoaderInv, MemoryInv
            <4>2. CASE UNCHANGED memory
                BY <4>1, <4>2, Zenon
            <4>3. CASE ReadSegment
                <5>1. segment \in DOMAIN Segments
                    BY <4>3, Constants
                       DEF ReadSegment, LoaderInv, SegmentInv, TypeInv, CountTypes
                <5>2. memory' = memory \/ \E v : memory' = [memory EXCEPT !.segments[segment] = v]
                    BY <4>3, Zenon DEF ReadSegment
                <5> QED BY <4>1, <5>1, <5>2, SegmentBecomes, Zenon
            <4> QED BY <1>5, <4>2, <4>3, Zenon DEF ReadHeader, ReadProgramHeader
        <3> QED BY <2>1, <3>1, <3>2, Zenon DEF ColorTells
    <2>2. pc' # "hang"
        BY <1>5, Zenon DEF ReadHeader, ReadProgramHeader, ReadSegment,
                           Stage3Fails, Panic
    <2> QED BY <1>1, <2>1, <2>2, Zenon
<1>6. CASE ExecPS2 \/ EndOsdsys
    BY <1>1, <1>6, Zenon DEF ExecPS2, EndOsdsys
<1> QED BY <1>2, <1>3, <1>4, <1>5, <1>6, Zenon DEF Loader

LEMMA LoaderNext == TypeInv /\ LoaderInv /\ [Next]_vars => LoaderInv'
<1> SUFFICES ASSUME TypeInv, LoaderInv, [Next]_vars PROVE LoaderInv'
    OBVIOUS
<1>1. CASE Loader \/ EndOsdsys
    BY <1>1, MemoryNext, SegmentNext, ColorNext, Zenon DEF LoaderInv
<1>2. CASE BackToRom \/ DisableNextOsdsysHook \/ ConsoleReset
    BY <1>2, Restarts, LoaderRestarts, Zenon
<1>3. CASE Core0Starts \/ Core1Step \/ UNCHANGED vars
    BY <1>3, LoaderUnchanged, Zenon DEF Core0Starts, Core1Step, vars, console
<1>4. CASE ReadOther \/ AnswerEnds \/ StartOsdsys \/ ReadOsdsys
    BY <1>4, LoaderElsewhere, Zenon
       DEF ReadOther, AnswerEnds, StartOsdsys, ReadOsdsys, console
<1> QED BY <1>1, <1>2, <1>3, <1>4, Zenon DEF Next, Loads

LEMMA LoaderCorrect == Spec => [](TypeInv /\ LoaderInv)
BY TypeInit, TypeNext, LoaderInit, LoaderNext, PTL DEF Spec

\* The loader only goes on with what it has checked: stage 2 runs if stage 1 and
\* stage 2 are whole, and the menu runs with every segment loaded and nothing
\* else in its memory, whatever program headers the menu has and however many
\* answers are lost or damaged (stage1/src/main.c:53-99, load_elf.h:44-110).
THEOREM RunsWhole == Spec => []RunsOnlyWhole
<1>1. TypeInv /\ LoaderInv => RunsOnlyWhole
    BY Zenon DEF LoaderInv, MemoryInv, SegmentInv, Right, RunsOnlyWhole
<1> QED BY <1>1, LoaderCorrect, PTL

\* The color the loader stops with tells why it has stopped, and it hangs only
\* after data that is damaged (README.md:68-74).
THEOREM ColorsTell == Spec => []ColorTells
<1>1. TypeInv /\ LoaderInv => ColorTells
    BY DEF LoaderInv
<1> QED BY <1>1, LoaderCorrect, PTL

-----------------------------------------------------------------------------
(***************************************************************************)
(* The injection                                                           *)
(***************************************************************************)
Searches == {"find_osdsys_elf", "find_osdsys_syscall_table"}

\* Where the read handlers are in the OSDSYS that is read: in its header, in the
\* table of system calls, or behind the byte at which they have given up or
\* answered.
Follows ==
    /\ pos \in 1..51 =>
          read_handler = "find_osdsys_elf" /\ counter = pos - 1 /\ ~injected
    /\ pos \in 52..554 =>
          /\ read_handler = "find_osdsys_syscall_table"
          /\ counter = pos - 52 /\ ~injected
    /\ pos \in 555..560 /\ due = "skip" =>
          read_handler \notin Searches /\ ~injected
    /\ pos \in 555..559 /\ due = "hook" =>
          /\ read_handler = "find_osdsys_syscall_table"
          /\ counter = pos - 52 /\ ~injected
    /\ pos = 560 /\ due = "hook" => read_handler = "idle" /\ injected

\* Elsewhere only a count from before a reset goes on, and only a console that is
\* lost is sent stage 1.
Outside ==
    pc # "load" => /\ read_handler = "find_osdsys_syscall_table" => cut
                   /\ injected => pc = "lost"

Unseen ==
    pc = "load" /\ due = "unseen" =>
        /\ read_handler # "find_osdsys_elf"
        /\ read_handler = "find_osdsys_syscall_table" => cut
        /\ injected => pos = 560

Seen ==
    pc = "load" /\ due # "unseen" =>
        /\ listens /\ ~cut
        /\ due = "hook" => ~owed
        /\ due = "skip" /\ pos <= 554 => owed
        /\ Follows

\* The flag is what is owed to the console, and the read handlers are where they
\* belong, unless they still count from a table in which a reset was missed.
HookInv ==
    /\ pc = "load" => pos >= 1
    /\ ~listens => read_handler = "idle"
    /\ cut => read_handler = "find_osdsys_syscall_table"
    /\ disable_next_osdsys_hook = owed
    /\ Outside
    /\ Unseen
    /\ Seen

LEMMA HookInit == Init => HookInv
BY Zenon DEF Init, ReadInit, HookInv, Outside, Unseen, Seen

LEMMA HookUnchanged ==
    ASSUME HookInv, UNCHANGED <<readVars, pc, pos, due, owed, cut>>, listens => listens'
    PROVE  HookInv'
<1>1. /\ Outside => Outside'
      /\ Unseen => Unseen'
    BY Zenon DEF Outside, Unseen, readVars
<1>2. Seen => Seen'
    <2>1. UNCHANGED <<read_handler, counter, injected, pc, pos, due, owed, cut>>
        BY Zenon DEF readVars
    <2>2. Follows => Follows'
        BY <2>1 DEF Follows
    <2> QED BY <2>1, <2>2 DEF Seen
<1>3. UNCHANGED <<disable_next_osdsys_hook, read_handler>>
    BY Zenon DEF readVars
<1>4. pc' = "load" => pos' >= 1
    BY Zenon DEF HookInv
<1> QED BY <1>1, <1>2, <1>3, <1>4, Zenon DEF HookInv

\* Out of OSDSYS, only what the read handlers have come to matters.
LEMMA HookElsewhere ==
    ASSUME pc' # "load", disable_next_osdsys_hook' = owed',
           ~listens' => read_handler' = "idle",
           cut' <=> read_handler' = "find_osdsys_syscall_table",
           injected' => pc' = "lost"
    PROVE  HookInv'
BY Zenon DEF HookInv, Outside, Unseen, Seen

\* What any other byte does to a count in the table of system calls
LEMMA ReadTable ==
    ASSUME NEW r, ReadInv, Read(r), read_handler = "find_osdsys_syscall_table"
    PROVE  /\ read_handler' \in {"idle", "find_osdsys_syscall_table"}
           /\ disable_next_osdsys_hook' => disable_next_osdsys_hook
           /\ r \notin {0, 224} => UNCHANGED <<disable_next_osdsys_hook, injected>>
<1>1. FindOsdsysSyscallTable(r)
    BY DEF Read, Idle, FindOsdsysElf, FindIopboot
<1> QED
    BY <1>1, TableFacts
       DEF ReadInv, FindOsdsysSyscallTable, HandlerIs, FlagAfterSkip, Differs

\* The flag is gone without an OSDSYS that was owed it only at the end of a count
\* that goes on from before a reset.
LEMMA SniffedLoose ==
    ASSUME NEW r, TypeInv, Sniffed(r), HookInv,
           cut <=> read_handler = "find_osdsys_syscall_table",
           ~(read_handler = "find_osdsys_elf" /\ counter = 50 /\ r = 0)
    PROVE  /\ disable_next_osdsys_hook' = (owed /\ ~Misspent)
           /\ ~listens => UNCHANGED readVars
           /\ cut' <=> read_handler' = "find_osdsys_syscall_table"
           /\ ~cut \/ r \notin {0, 224} => UNCHANGED <<disable_next_osdsys_hook, injected>>
           /\ cut => read_handler' # "find_osdsys_elf"
<1> ReadInv /\ disable_next_osdsys_hook \in BOOLEAN /\ ReadInv'
    BY SniffedKeepsInv, Zenon DEF TypeInv, ReadInv
<1> disable_next_osdsys_hook' \in BOOLEAN /\ disable_next_osdsys_hook = owed
    BY Zenon DEF ReadInv, HookInv
<1>1. cut' = (cut /\ read_handler' = "find_osdsys_syscall_table")
    BY Zenon DEF Sniffed
<1>2. CASE UNCHANGED readVars
    BY <1>1, <1>2, Zenon DEF readVars, Misspent
<1>3. CASE Read(r) /\ listens /\ ~cut
    <2>1. /\ read_handler' # "find_osdsys_syscall_table"
          /\ UNCHANGED <<disable_next_osdsys_hook, injected>>
        BY <1>3, ReadElsewhere
    <2> QED BY <1>1, <1>3, <2>1, Zenon DEF Misspent
<1>4. CASE Read(r) /\ listens /\ cut
    <2>1. /\ read_handler' \in {"idle", "find_osdsys_syscall_table"}
          /\ disable_next_osdsys_hook' => disable_next_osdsys_hook
          /\ r \notin {0, 224} => UNCHANGED <<disable_next_osdsys_hook, injected>>
        BY <1>4, ReadTable
    <2> QED BY <1>1, <1>4, <2>1, Zenon DEF Misspent
<1> QED BY <1>2, <1>3, <1>4, Zenon DEF Sniffed

\* The first byte of OSDSYS starts the search, or nothing.
LEMMA HookNextStart ==
    ASSUME TypeInv, HookInv, StartOsdsys
    PROVE  HookInv' /\ UNCHANGED injected
<1>1. /\ pc = "rom" /\ pc' = "load" /\ listens' = listens
      /\ pos' = 1 /\ owed' = owed /\ Sniffed(127)
      /\ due' = IF listens /\ read_handler \in {"idle", "find_osdsys_elf"}
                THEN (IF owed THEN "skip" ELSE "hook") ELSE "unseen"
    <2>1. OsdsysByte(0) = 127
        BY OsdsysBytes
    <2>2. Sniffed(OsdsysByte(0))
        BY Zenon DEF StartOsdsys
    <2>3. Sniffed(127)
        BY <2>1, <2>2
    <2> QED BY <2>3, Zenon DEF StartOsdsys
<1>2. /\ ~injected /\ disable_next_osdsys_hook = owed
      /\ cut <=> read_handler = "find_osdsys_syscall_table"
      /\ ~listens => read_handler = "idle"
    BY <1>1, Zenon DEF HookInv, Outside
<1>3. /\ cut' <=> read_handler' = "find_osdsys_syscall_table"
      /\ UNCHANGED <<disable_next_osdsys_hook, injected>>
      /\ ~listens => UNCHANGED readVars
      /\ cut => read_handler' # "find_osdsys_elf"
    <2>1. PICK r : r = 127
        OBVIOUS
    <2>2. /\ Sniffed(r) /\ r \notin {0, 224}
          /\ ~(read_handler = "find_osdsys_elf" /\ counter = 50 /\ r = 0)
        BY <1>1, <2>1
    <2> QED BY <1>2, <2>2, SniffedLoose, Zenon
<1>4. pos' >= 1
    BY <1>1
<1>5. CASE due' = "unseen"
    <2>1. read_handler' # "find_osdsys_elf"
        <3>1. CASE ~listens
            BY <1>2, <1>3, <3>1, Zenon DEF readVars
        <3>2. CASE cut
            BY <1>3, <3>2
        <3>3. CASE listens /\ ~cut
            <4>1. Read(127) /\ read_handler \notin {"idle", "find_osdsys_elf"}
                BY <1>1, <1>2, <1>5, <3>3, Zenon DEF Sniffed
            <4> QED BY <1>2, <3>3, <4>1, ReadStart, Zenon DEF TypeInv
        <3> QED BY <3>1, <3>2, <3>3
    <2> QED
        BY <1>1, <1>2, <1>3, <1>4, <1>5, <2>1, Zenon
           DEF HookInv, Outside, Unseen, Seen, readVars
<1>6. CASE due' # "unseen"
    <2>1. /\ listens /\ read_handler \in {"idle", "find_osdsys_elf"} /\ ~cut
          /\ due' = IF owed THEN "skip" ELSE "hook"
        BY <1>1, <1>2, <1>6, Zenon
    <2>2. read_handler' = "find_osdsys_elf" /\ counter' = 0
        <3>1. Read(127)
            BY <1>1, <1>2, <2>1, Zenon DEF Sniffed
        <3> QED BY <1>2, <2>1, <3>1, ReadStart, Zenon DEF TypeInv
    <2>3. counter' = pos' - 1
        BY <1>1, <2>2
    <2>4. pos' \notin 52..554 /\ pos' \notin 555..560 /\ pos' \notin 555..559
             /\ pos' # 560
        BY <1>1
    <2>5. Follows'
        BY <1>2, <1>3, <2>2, <2>3, <2>4, Zenon DEF Follows
    <2> QED
        BY <1>1, <1>2, <1>3, <1>4, <1>6, <2>1, <2>2, <2>5, Zenon
           DEF HookInv, Outside, Unseen, Seen
<1> QED BY <1>3, <1>5, <1>6

\* Nothing in OSDSYS looks like its start.
LEMMA HookNextUnseen ==
    ASSUME TypeInv, HookInv, ReadOsdsys, Read(OsdsysByte(pos)),
           read_handler \notin Searches
    PROVE  /\ read_handler' \notin Searches
           /\ UNCHANGED <<disable_next_osdsys_hook, injected>>
<1>1. pos >= 1 /\ pos <= OsdsysLast
    BY Zenon DEF HookInv, ReadOsdsys
<1>2. pos \in 1..559
    BY <1>1, TableFacts DEF TypeInv, CountTypes
<1>3. OsdsysByte(pos) # 127
    BY <1>2, OsdsysBytes
<1> QED BY <1>3, ReadNoStart, Zenon DEF TypeInv, Searches

\* An OSDSYS whose start was not seen is not found later either.
LEMMA HookNextLoose ==
    ASSUME TypeInv, HookInv, ReadOsdsys, due = "unseen"
    PROVE  HookInv' /\ (~cut => UNCHANGED injected)
<1>1. /\ pc = "load" /\ due' = due /\ listens' = listens
      /\ Sniffed(OsdsysByte(pos)) /\ pos' = pos + 1
      /\ pc' = IF injected' /\ pos # OsdsysLast THEN "lost" ELSE "load"
      /\ owed' = (owed /\ ~Misspent)
    BY Zenon DEF ReadOsdsys
<1>2. /\ read_handler # "find_osdsys_elf"
      /\ cut <=> read_handler = "find_osdsys_syscall_table"
      /\ ~listens => read_handler = "idle"
    BY <1>1, Zenon DEF HookInv, Unseen
<1>3. /\ disable_next_osdsys_hook' = (owed /\ ~Misspent)
      /\ ~listens => UNCHANGED readVars
      /\ cut' <=> read_handler' = "find_osdsys_syscall_table"
      /\ ~cut => UNCHANGED <<disable_next_osdsys_hook, injected>>
      /\ cut => read_handler' # "find_osdsys_elf"
    BY <1>1, <1>2, SniffedLoose, Zenon
<1>4. read_handler' # "find_osdsys_elf"
    <2>1. CASE cut
        BY <1>3, <2>1
    <2>2. CASE UNCHANGED readVars
        BY <1>2, <2>2, Zenon DEF readVars
    <2>3. CASE ~cut /\ Read(OsdsysByte(pos))
        BY <1>2, <2>3, HookNextUnseen, Zenon DEF Searches
    <2> QED BY <1>1, <2>1, <2>2, <2>3, Zenon DEF Sniffed
<1>5. pos' >= 1 /\ (pos = OsdsysLast => pos' = 560)
    BY <1>1, TableFacts DEF TypeInv, CountTypes, HookInv
<1>6. /\ pc' = "lost" \/ (pc' = "load" /\ (injected' => pos' = 560))
      /\ injected' => pc' = "lost" \/ pos' = 560
    BY <1>1, <1>5, Zenon
<1>7. ~listens' => read_handler' = "idle"
    BY <1>1, <1>2, <1>3, Zenon DEF readVars
<1>8. CASE pc' = "lost"
    BY <1>1, <1>3, <1>7, <1>8, HookElsewhere, Zenon
<1>9. CASE pc' = "load"
    <2>1. injected' => pos' = 560
        BY <1>6, <1>9, Zenon
    <2> QED
        BY <1>1, <1>3, <1>4, <1>5, <1>7, <1>9, <2>1, Zenon
           DEF HookInv, Outside, Unseen, Seen
<1> QED BY <1>3, <1>6, <1>8, <1>9, Zenon

\* Each byte of an OSDSYS whose start was seen takes the read handlers one byte
\* further.
LEMMA HookNextSeen ==
    ASSUME TypeInv, HookInv, ReadOsdsys, due # "unseen"
    PROVE  HookInv' /\ pc' = "load"
<1>1. /\ pc = "load" /\ due' = due /\ listens' = listens
      /\ Sniffed(OsdsysByte(pos)) /\ listens /\ ~cut
      /\ pc' = IF injected' /\ pos # OsdsysLast THEN "lost" ELSE "load"
    BY Zenon DEF HookInv, Seen, ReadOsdsys
<1>2. owed' = (owed /\ (due = "unseen" \/ pos # 554)) /\ ~cut'
    <2>1. OsdsysLast - 5 = 554
        BY TableFacts
    <2> QED BY <1>1, <2>1, Zenon DEF ReadOsdsys, Misspent, Sniffed
<1>3. pos \in 0..559 /\ pos' = pos + 1 /\ ReadInv
    BY TableFacts DEF TypeInv, CountTypes, ReadOsdsys
<1> pos' >= 1
    BY <1>3
<1> disable_next_osdsys_hook' \in BOOLEAN /\ owed' \in BOOLEAN
    <2>1. TypeInv'
        BY TypeNext, Zenon DEF Next, Loads
    <2> QED BY <2>1, Zenon DEF TypeInv, ReadInv, FlagTypes
<1>4. /\ disable_next_osdsys_hook = owed
      /\ due = "hook" => ~owed
      /\ due = "skip" /\ pos <= 554 => owed
      /\ Follows
      /\ pos >= 1
      /\ due \in {"hook", "skip"}
    BY <1>1, Zenon DEF HookInv, Seen, TypeInv, OtherTypes
<1>5. ~injected
    <2>1. pos \in 1..51 \/ pos \in 52..554 \/ (pos \in 555..559 /\ pos \in 555..560)
        BY <1>3, <1>4
    <2> QED BY <1>4, <2>1, Zenon DEF Follows
<1>6. Read(OsdsysByte(pos))
    BY <1>1, <1>5, Zenon DEF Sniffed
<1> DEFINE Goal == /\ disable_next_osdsys_hook' = owed'
                   /\ due = "hook" => ~owed'
                   /\ due = "skip" /\ pos' <= 554 => owed'
                   /\ Follows'
                   /\ pos' >= 1
<1>7. Goal => pc' = "load"
    <2>1. \/ pos' \in 1..51 \/ pos' \in 52..554 \/ pos = 559
          \/ pos' \in 555..560 /\ pos' \in 555..559
        BY <1>3, <1>4
    <2>2. due' \in {"hook", "skip"}
        BY <1>1, <1>4
    <2>3. Follows' => ~injected' \/ pos = 559
        BY <2>1, <2>2, Zenon DEF Follows
    <2>4. OsdsysLast = 559
        BY TableFacts
    <2> QED BY <1>1, <2>3, <2>4, Zenon
<1>8. ~listens' => read_handler' = "idle"
    BY <1>1
<1> SUFFICES Goal
    BY <1>1, <1>2, <1>7, <1>8, Zenon DEF HookInv, Outside, Unseen, Seen
<1>9. due = "hook" => ~owed'
    BY <1>2, <1>4, Zenon
<1>10. due = "skip" /\ pos' <= 554 => owed'
    <2>1. pos' <= 554 => pos <= 554 /\ pos # 554
        BY <1>3
    <2> QED BY <1>2, <1>4, <2>1, Zenon
<1>11. CASE pos \in 1..50
    <2>1. read_handler = "find_osdsys_elf" /\ counter = pos - 1 /\ ~injected
        BY <1>4, <1>11 DEF Follows
    <2>2. /\ read_handler' = "find_osdsys_elf" /\ counter' = pos
          /\ UNCHANGED <<disable_next_osdsys_hook, injected>>
        <3>1. pos \in 1..51 /\ pos # 51
            BY <1>11
        <3> QED BY <1>6, <1>3, <2>1, <3>1, ReadHeaderByte
    <2>3. /\ pos' \notin 52..554 /\ pos' \notin 555..560 /\ pos' \notin 555..559
          /\ pos' # 560 /\ pos' >= 1 /\ pos # 554 /\ pos' - 1 = pos
        BY <1>3, <1>11
    <2>4. Follows'
        BY <2>1, <2>2, <2>3, Zenon DEF Follows
    <2>5. owed' = owed
        BY <1>2, <2>3, Zenon DEF TypeInv, FlagTypes
    <2> QED BY <1>4, <1>9, <1>10, <2>2, <2>3, <2>4, <2>5, Zenon
<1>12. CASE pos = 51
    <2>1. read_handler = "find_osdsys_elf" /\ counter = pos - 1 /\ ~injected
        BY <1>4, <1>12 DEF Follows
    <2>2. /\ read_handler' = "find_osdsys_syscall_table" /\ counter' = 0
          /\ UNCHANGED <<disable_next_osdsys_hook, injected>>
        <3>1. pos \in 1..51
            BY <1>12
        <3> QED BY <1>6, <1>3, <1>12, <2>1, <3>1, ReadHeaderByte
    <2>3. /\ pos' \notin 1..51 /\ pos' \notin 555..560 /\ pos' \notin 555..559
          /\ pos' # 560 /\ pos' >= 1 /\ pos # 554 /\ pos' - 52 = 0
        BY <1>3, <1>12
    <2>4. Follows'
        BY <2>1, <2>2, <2>3, Zenon DEF Follows
    <2>5. owed' = owed
        BY <1>2, <2>3, Zenon DEF TypeInv, FlagTypes
    <2> QED BY <1>4, <1>9, <1>10, <2>2, <2>3, <2>4, <2>5, Zenon
<1>13. CASE pos \in 52..553
    <2>1. read_handler = "find_osdsys_syscall_table" /\ counter = pos - 52 /\ ~injected
        BY <1>4, <1>13 DEF Follows
    <2>2. /\ read_handler' = "find_osdsys_syscall_table" /\ counter' = pos - 51
          /\ UNCHANGED <<disable_next_osdsys_hook, injected>>
        <3>1. pos \in 52..559 /\ pos \notin {554, 559}
            BY <1>13
        <3> QED BY <1>6, <1>3, <2>1, <3>1, ReadTableByte
    <2>3. /\ pos' \notin 1..51 /\ pos' \notin 555..560 /\ pos' \notin 555..559
          /\ pos' # 560 /\ pos' >= 1 /\ pos # 554 /\ pos' - 52 = pos - 51
        BY <1>3, <1>13
    <2>4. Follows'
        BY <2>1, <2>2, <2>3, Zenon DEF Follows
    <2>5. owed' = owed
        BY <1>2, <2>3, Zenon DEF TypeInv, FlagTypes
    <2> QED BY <1>4, <1>9, <1>10, <2>2, <2>3, <2>4, <2>5, Zenon
<1>14. CASE pos = 554
    <2>1. read_handler = "find_osdsys_syscall_table" /\ counter = pos - 52 /\ ~injected
        BY <1>4, <1>14 DEF Follows
    <2>2. pos \in 52..559 /\ pos \notin {559}
        BY <1>14
    <2>3. pos' = 555 /\ pos' - 52 = pos - 51
        BY <1>3, <1>14
    <2>4. ~owed'
        BY <1>2, <1>14, Zenon
    <2>5. CASE due = "skip"
        <3>1. disable_next_osdsys_hook
            BY <1>4, <1>14, <2>5
        <3>2. read_handler' = "idle" /\ ~disable_next_osdsys_hook' /\ ~injected'
            BY <1>6, <1>3, <1>14, <2>1, <2>2, <3>1, ReadTableByte
        <3>3. Follows'
            BY <1>1, <2>3, <2>5, <3>2 DEF Follows, Searches
        <3>4. pos' >= 1
            BY <2>3
        <3> QED BY <1>9, <1>10, <2>4, <3>2, <3>3, <3>4, Zenon
    <2>6. CASE due = "hook"
        <3>1. ~disable_next_osdsys_hook
            BY <1>4, <2>6
        <3>2. /\ read_handler' = "find_osdsys_syscall_table" /\ counter' = pos - 51
              /\ ~disable_next_osdsys_hook' /\ ~injected'
            BY <1>6, <1>3, <1>14, <2>1, <2>2, <3>1, ReadTableByte
        <3>3. Follows'
            BY <1>1, <2>3, <2>6, <3>2 DEF Follows
        <3>4. pos' >= 1
            BY <2>3
        <3> QED BY <1>9, <1>10, <2>4, <3>2, <3>3, <3>4, Zenon
    <2> QED BY <1>4, <2>5, <2>6
<1>15. CASE pos \in 555..559 /\ due = "skip"
    <2>1. read_handler \notin Searches /\ ~injected
        BY <1>4, <1>15 DEF Follows
    <2>2. /\ read_handler' \notin Searches
          /\ UNCHANGED <<disable_next_osdsys_hook, injected>>
        BY <1>6, <2>1, HookNextUnseen
    <2>3. /\ pos' \notin 1..51 /\ pos' \notin 52..554
          /\ pos' >= 1 /\ pos # 554
        BY <1>3, <1>15
    <2>4. Follows'
        BY <1>1, <1>15, <2>1, <2>2, <2>3, Zenon DEF Follows
    <2>5. owed' = owed
        BY <1>2, <2>3, Zenon DEF TypeInv, FlagTypes
    <2> QED BY <1>4, <1>9, <1>10, <2>2, <2>3, <2>4, <2>5, Zenon
<1>16. CASE pos \in 555..558 /\ due = "hook"
    <2>1. read_handler = "find_osdsys_syscall_table" /\ counter = pos - 52 /\ ~injected
        BY <1>4, <1>16 DEF Follows
    <2>2. /\ read_handler' = "find_osdsys_syscall_table" /\ counter' = pos - 51
          /\ UNCHANGED <<disable_next_osdsys_hook, injected>>
        <3>1. pos \in 52..559 /\ pos \notin {554, 559}
            BY <1>16
        <3> QED BY <1>6, <1>3, <2>1, <3>1, ReadTableByte
    <2>3. /\ pos' \notin 1..51 /\ pos' \notin 52..554 /\ pos' # 560
          /\ pos' >= 1 /\ pos # 554 /\ pos' - 52 = pos - 51
        BY <1>3, <1>16
    <2>4. Follows'
        BY <1>1, <1>16, <2>1, <2>2, <2>3, Zenon DEF Follows
    <2>5. owed' = owed
        BY <1>2, <2>3, Zenon DEF TypeInv, FlagTypes
    <2> QED BY <1>4, <1>9, <1>10, <2>2, <2>3, <2>4, <2>5, Zenon
<1>17. CASE pos = 559 /\ due = "hook"
    <2>1. read_handler = "find_osdsys_syscall_table" /\ counter = pos - 52 /\ ~injected
        BY <1>4, <1>17 DEF Follows
    <2>2. read_handler' = "idle" /\ ~disable_next_osdsys_hook' /\ injected'
        <3>1. pos \in 52..559
            BY <1>17
        <3> QED BY <1>6, <1>3, <1>17, <2>1, <3>1, ReadTableByte
    <2>3. /\ pos' \notin 1..51 /\ pos' \notin 52..554 /\ pos' \notin 555..559
          /\ pos' >= 1
        BY <1>3, <1>17
    <2>4. Follows'
        BY <1>1, <1>17, <2>2, <2>3, Zenon DEF Follows
    <2> QED BY <1>9, <1>10, <1>17, <2>2, <2>3, <2>4, Zenon
<1>18. \/ pos \in 1..50 \/ pos = 51 \/ pos \in 52..553 \/ pos = 554
       \/ pos \in 555..559 /\ (pos \in 555..558 \/ pos = 559)
    BY <1>3, <1>4
<1> HIDE DEF Goal
<1> QED
    BY <1>4, <1>11, <1>12, <1>13, <1>14, <1>15, <1>16, <1>17, <1>18, Zenon

LEMMA HookNextRead ==
    ASSUME TypeInv, HookInv, ReadOsdsys
    PROVE  HookInv'
BY HookNextLoose, HookNextSeen

\* Any other byte only moves a search, or ends a count from before a reset.
LEMMA HookNextOther ==
    ASSUME TypeInv, HookInv, ReadOther
    PROVE  HookInv' /\ (~cut => UNCHANGED injected)
<1>1. /\ pc \in {"rom", "lost"} /\ pc' = (IF injected' THEN "lost" ELSE pc)
      /\ owed' = (owed /\ ~Misspent) /\ listens' = listens
    BY Zenon DEF ReadOther
<1>2. PICK r : /\ read_handler = "find_osdsys_elf" /\ counter = 50 => r # 0
               /\ Sniffed(r)
    BY Zenon DEF ReadOther
<1>3. /\ cut <=> read_handler = "find_osdsys_syscall_table"
      /\ ~listens => read_handler = "idle"
    BY <1>1, Zenon DEF HookInv, Outside
<1>4. /\ disable_next_osdsys_hook' = (owed /\ ~Misspent)
      /\ ~listens => UNCHANGED readVars
      /\ cut' <=> read_handler' = "find_osdsys_syscall_table"
      /\ ~cut => UNCHANGED <<disable_next_osdsys_hook, injected>>
    BY <1>2, <1>3, SniffedLoose, Zenon
<1>5. ~listens' => read_handler' = "idle"
    BY <1>1, <1>3, <1>4, Zenon DEF readVars
<1>6. pc' # "load" /\ (injected' => pc' = "lost")
    BY <1>1, Zenon
<1> QED BY <1>1, <1>4, <1>5, <1>6, HookElsewhere, Zenon

LEMMA HookNext == TypeInv /\ HookInv /\ [Next]_vars => HookInv'
<1> SUFFICES ASSUME TypeInv, HookInv, [Next]_vars PROVE HookInv'
    OBVIOUS
<1>1. CASE Core0Starts \/ Core1Step \/ UNCHANGED vars
    <2>1. UNCHANGED <<readVars, console, due, owed, cut>>
        BY <1>1, Zenon DEF Core0Starts, Core1Step, vars, hook
    <2>2. listens => listens'
        BY <1>1, Zenon DEF Core0Starts, Core1Step, vars, chip
    <2>3. UNCHANGED <<readVars, pc, pos, due, owed, cut>>
        BY <2>1, Zenon DEF console
    <2> QED BY <2>2, <2>3, HookUnchanged
<1>2. CASE ReadOther
    BY <1>2, HookNextOther
<1>3. CASE StartOsdsys
    BY <1>3, HookNextStart
<1>4. CASE ReadOsdsys
    BY <1>4, HookNextRead
<1>5. CASE EndOsdsys
    <2>1. /\ pc = "load" /\ pos = OsdsysLast + 1 /\ pc' # "load"
          /\ UNCHANGED <<read_handler, disable_next_osdsys_hook, listens, owed, cut>>
        BY <1>5, Zenon DEF EndOsdsys, chip, hook
    <2>3. injected' => pc' = "lost"
        <3>1. \/ injected' = FALSE
              \/ pc' = "lost"
              \/ ~injected /\ injected' = injected
            BY <1>5, Zenon DEF EndOsdsys
        <3> QED BY <3>1, Zenon
    <2>2. cut <=> read_handler = "find_osdsys_syscall_table"
        <3>1. pos = 560 /\ pos \in 555..560
            BY <2>1, TableFacts
        <3>2. due \in {"hook", "skip", "unseen"}
            BY Zenon DEF TypeInv, OtherTypes
        <3> QED
            BY <2>1, <3>1, <3>2, Zenon
               DEF HookInv, Unseen, Seen, Follows, Searches
    <2> QED BY <2>1, <2>2, <2>3, HookElsewhere, Zenon DEF HookInv
<1>6. CASE Loader
    <2>1. UNCHANGED <<readVars, listens, owed, cut>>
        BY <1>6, LoaderKeepsChip, Zenon
    <2>2. pc \notin {"load", "lost"} /\ pc' # "load"
        BY <1>6, Zenon
           DEF Loader, Stage1Size, Stage2Size, ReadSize, Stage1Check, Stage2Data,
               Stage2Check, ReadHeader, ReadProgramHeader, ReadSegment, ExecPS2,
               CmdAnswered, CmdFails, Stage3Fails, Panic
    <2> QED BY <2>1, <2>2, HookElsewhere, Zenon DEF HookInv, Outside, readVars
<1>7. CASE BackToRom
    BY <1>7, HookElsewhere, Zenon
       DEF BackToRom, ConsoleStarts, HookInv, Outside, readVars, chip, hook
<1>8. CASE DisableNextOsdsysHook
    BY <1>8, HookElsewhere, Zenon
       DEF DisableNextOsdsysHook, ConsoleStarts, HookInv, Outside, chip
<1>9. CASE ConsoleReset
    <2>1. CASE FirmwareStarts
        <3>1. pc' # "load"
            BY <1>9, Zenon DEF ConsoleReset, ConsoleStarts
        <3> QED BY <2>1, <3>1, HookElsewhere, Zenon DEF FirmwareStarts
    <2>2. CASE ~FirmwareStarts
        <3>1. /\ cut' = (cut \/ read_handler = "find_osdsys_syscall_table")
              /\ UNCHANGED <<readVars, listens, owed>>
              /\ pc' # "load" /\ (injected => pc' = "lost")
            BY <1>9, <2>2, Zenon DEF ConsoleReset, ConsoleStarts, chip
        <3>2. UNCHANGED <<read_handler, disable_next_osdsys_hook, injected>>
            BY <3>1, Zenon DEF readVars
        <3> QED BY <3>1, <3>2, HookElsewhere, Zenon DEF HookInv
    <2> QED BY <2>1, <2>2
<1>10. CASE AnswerEnds
    BY <1>10, HookElsewhere, Zenon
       DEF AnswerEnds, HookInv, Outside, chip, console, hook
<1> QED
    BY <1>1, <1>2, <1>3, <1>4, <1>5, <1>6, <1>7, <1>8, <1>9, <1>10, Zenon
       DEF Next, Loads

LEMMA HookCorrect == Spec => [](TypeInv /\ HookInv)
BY TypeInit, TypeNext, HookInit, HookNext, PTL DEF Spec

\* Steps that do not read leave data out alone, or end an answer.
LEMMA OnlyReadsInject ==
    ASSUME [Next]_vars, injected', ~injected
    PROVE  ReadOther \/ StartOsdsys \/ ReadOsdsys
<1>1. CASE Core0Starts \/ Core1Step \/ BackToRom \/ AnswerEnds \/ EndOsdsys
             \/ DisableNextOsdsysHook \/ UNCHANGED vars
    BY <1>1, Zenon
       DEF Core0Starts, Core1Step, BackToRom, AnswerEnds, EndOsdsys,
           DisableNextOsdsysHook, vars, readVars
<1>2. CASE Loader
    BY <1>2, LoaderKeepsChip, Zenon DEF readVars
<1>3. CASE ConsoleReset
    BY <1>3, Zenon DEF ConsoleReset, FirmwareStarts, readVars
<1> QED BY <1>1, <1>2, <1>3, Zenon DEF Next, Loads

\* Stage 1 takes the place of ExecPS2 and of nothing else, whatever bytes the
\* console reads before, and it is there when it is sent (osdsys.c:14-43): only
\* the count in which the firmware missed a reset can end elsewhere.
THEOREM InjectsOnlyThere == Spec => InjectsAtExecPS2
<1>1. ASSUME TypeInv, HookInv, [Next]_vars, injected', ~injected
      PROVE  /\ data_out' = "stage1"
             /\ cut \/ (pc' = "load" /\ pos' = OsdsysLast + 1)
    <2>1. data_out' = "stage1"
        BY <1>1, TypeNext, Zenon DEF TypeInv, ReadInv
    <2>2. HookInv' /\ TypeInv'
        BY <1>1, HookNext, TypeNext
    <2>3. CASE ReadOther
        BY <1>1, <2>1, <2>3, HookNextOther
    <2>4. CASE StartOsdsys
        BY <1>1, <2>4, HookNextStart
    <2>5. CASE ReadOsdsys /\ due = "unseen"
        BY <1>1, <2>1, <2>5, HookNextLoose
    <2>6. CASE ReadOsdsys /\ due # "unseen"
        <3>1. pc' = "load" /\ due' = due
            BY <1>1, <2>6, HookNextSeen, Zenon DEF ReadOsdsys
        <3>2. pos' >= 1 /\ Follows' /\ due' \in {"hook", "skip"}
            BY <2>2, <2>6, <3>1, Zenon DEF HookInv, Seen, TypeInv, OtherTypes
        <3>3. \/ pos' \in 1..51 \/ pos' \in 52..554 \/ pos' = OsdsysLast + 1
              \/ pos' \in 555..560 /\ pos' \in 555..559
            BY <2>2, <3>2, TableFacts DEF TypeInv, CountTypes
        <3> QED BY <1>1, <2>1, <3>1, <3>2, <3>3, Zenon DEF Follows
    <2> QED BY <1>1, <2>3, <2>4, <2>5, <2>6, OnlyReadsInject, Zenon
<1> QED BY <1>1, HookCorrect, PTL DEF Spec, InjectsAtExecPS2

\* Each start of OSDSYS that the chip could see becomes the menu, but for the one
\* after DISABLE_NEXT_OSDSYS_HOOK, whatever else is read and however often the
\* console is reset in between (osdsys.c:13-109, patch_control.c:11-28).
THEOREM HooksAllButOne == Spec => HooksAllButNext
<1>1. ASSUME TypeInv, HookInv, Loads, pc' # "load"
      PROVE  \/ due = "unseen" \/ stuck
             \/ pc' = (IF due = "hook" THEN "stage1 size" ELSE "osdsys")
    <2>1. CASE ReadOsdsys
        BY <1>1, <2>1, HookNextSeen
    <2>2. CASE EndOsdsys /\ due # "unseen" /\ ~stuck
        <3>0. pc = "load" /\ pos = OsdsysLast + 1
            BY <2>2, Zenon DEF EndOsdsys
        <3>1. pc = "load" /\ pos = 560 /\ pos \in 555..560
            BY <3>0, TableFacts
        <3>2. Follows /\ due \in {"hook", "skip"}
            BY <1>1, <2>2, <3>1, Zenon DEF HookInv, Seen, TypeInv, OtherTypes
        <3>3. injected <=> due = "hook"
            BY <3>1, <3>2, Zenon DEF Follows
        <3> QED BY <2>2, <3>3, Zenon DEF EndOsdsys
    <2> QED BY <1>1, <2>1, <2>2 DEF Loads
<1> QED BY <1>1, HookCorrect, PTL DEF Spec, HooksAllButNext
=============================================================================
