---------------------------- MODULE ReadHandlers ----------------------------
(***************************************************************************)
(* The part of the firmware that watches what the console reads from its   *)
(* ROM (fruitchip-fw/src/boot_rom/read): each byte goes to read_handler,   *)
(* which looks for OSDSYS, or for IOPBOOT, and puts stage 1 of the loader  *)
(* in the place of a system call.                                          *)
(*                                                                         *)
(* The two counters of osdsys.c and iopboot.c are one here: each is zero   *)
(* while the other is used.  handle_read_find_iopboot3 is left out: nothing *)
(* sets disable_next_iopboot_hook to false.                                *)
(***************************************************************************)
EXTENDS Naturals

VARIABLES
    read_handler, counter,
    disable_next_osdsys_hook,
    data_out,  \* what boot_rom_data_out_set_data was given last
    injected   \* boot_rom_data_out_start_data_without_status_code was called

readVars == <<read_handler, counter, disable_next_osdsys_hook, data_out,
              injected>>

-----------------------------------------------------------------------------
\* Bytes of the ELF header of OSDSYS that handle_read_find_osdsys_elf checks.
OsdsysElf ==
    [n \in 1..3 \cup 24..27 \cup 48..51 |->
        CASE n = 1 -> 69 [] n = 2 -> 76 [] n = 3 -> 70
          [] n \in {24, 48} -> 8 [] n = 26 -> 16 [] n = 50 -> 7
          [] OTHER -> 0]

\* Bytes of the table of system calls behind it.
ExecPS2High == 503

\* Mutant: stage 1 is sent one byte early.
ExecPS2Early == 507

\* The byte behind which stage 1 is sent
ExecPS2Last == 508

SyscallTable ==
    [n \in {ExecPS2High, ExecPS2Last} |-> IF n = ExecPS2High THEN 224 ELSE 0]

\* The call of IOPBOOT behind its first byte: the first seven of them are
\* handle_read_find_iopboot's.
IopBoot ==
    [n \in 1..19 |->
        CASE n = 2 -> 64 [] n = 3 -> 16
          [] n \in {8, 12, 16} -> 33 [] n = 9 -> 32 [] n = 11 -> 2
          [] n = 13 -> 40 [] n = 17 -> 48
          [] OTHER -> 0]

Differs(pattern, n, r) == n \in DOMAIN pattern /\ r # pattern[n]

\* Mutant: the counter is not reset when a search comes to nothing.
KeepsCounter(name, n) ==
    read_handler' = name /\ counter' = (IF name = "idle" THEN counter ELSE n)

HandlerIs(name, n) == read_handler' = name /\ counter' = n

\* handle_read_idle
Idle(r) ==
    /\ read_handler = "idle"
    /\ HandlerIs(IF r = 127 THEN "find_osdsys_elf"
                 ELSE IF r = 7 THEN "find_iopboot" ELSE "idle", 0)
    /\ UNCHANGED <<disable_next_osdsys_hook, data_out, injected>>

\* Mutant: a byte that starts an ELF header does not start the search again.
StaysOn(n, r) == Differs(OsdsysElf, n, r) \/ n > 51

\* What was found so far is not the header of OSDSYS.
StartsOver(n, r) == Differs(OsdsysElf, n, r) \/ r = 127 \/ n > 51

\* handle_read_find_osdsys_elf: it goes on searching until it has a header.
FindOsdsysElf(r) ==
    LET n == counter + 1
    IN  /\ read_handler = "find_osdsys_elf"
        /\ IF StartsOver(n, r) THEN HandlerIs("find_osdsys_elf", 0)
           ELSE IF n = 51 THEN HandlerIs("find_osdsys_syscall_table", 0)
           ELSE HandlerIs("find_osdsys_elf", n)
        /\ UNCHANGED <<disable_next_osdsys_hook, data_out, injected>>

\* Mutant: the flag stays after the injection has been skipped.
FlagStays == disable_next_osdsys_hook

\* disable_next_osdsys_hook = false
FlagAfterSkip == FALSE

\* handle_read_find_osdsys_syscall_table: stage 1 is made ready early and sent
\* a few bytes later.  The flag is looked at in between only.
FindOsdsysSyscallTable(r) ==
    LET n == counter + 1
    IN  /\ read_handler = "find_osdsys_syscall_table"
        /\ \/ /\ Differs(SyscallTable, n, r)
              /\ HandlerIs("idle", 0)
              /\ UNCHANGED <<disable_next_osdsys_hook, data_out, injected>>
           \/ /\ n = ExecPS2High /\ ~Differs(SyscallTable, n, r)
              /\ disable_next_osdsys_hook
              /\ HandlerIs("idle", 0)
              /\ disable_next_osdsys_hook' = FlagAfterSkip
              /\ UNCHANGED <<data_out, injected>>
           \/ /\ n = ExecPS2High /\ ~Differs(SyscallTable, n, r)
              /\ ~disable_next_osdsys_hook
              /\ HandlerIs("find_osdsys_syscall_table", n)
              /\ data_out' = "stage1"
              /\ UNCHANGED <<disable_next_osdsys_hook, injected>>
           \/ /\ n = ExecPS2Last /\ ~Differs(SyscallTable, n, r)
              /\ HandlerIs("idle", 0)
              /\ disable_next_osdsys_hook' = FALSE
              /\ injected' = TRUE
              /\ UNCHANGED data_out
           \/ /\ n \notin DOMAIN SyscallTable
              /\ HandlerIs("find_osdsys_syscall_table", n)
              /\ UNCHANGED <<disable_next_osdsys_hook, data_out, injected>>

\* handle_read_find_iopboot and handle_read_find_iopboot2: they come to nothing,
\* but a byte that does not match is not looked at again.
FindIopboot(r) ==
    LET n == counter + 1
    IN  /\ read_handler \in {"find_iopboot", "find_iopboot2"}
        /\ IF n \notin DOMAIN IopBoot \/ Differs(IopBoot, n, r)
           THEN HandlerIs("idle", 0)
           ELSE HandlerIs(IF n < 7 THEN "find_iopboot" ELSE "find_iopboot2", n)
        /\ UNCHANGED <<disable_next_osdsys_hook, data_out, injected>>

\* The console reads r from its ROM.
Read(r) ==
    \/ Idle(r)
    \/ FindOsdsysElf(r)
    \/ FindOsdsysSyscallTable(r)
    \/ FindIopboot(r)

\* The static variables of the firmware
ReadInit ==
    /\ read_handler = "idle"
    /\ counter = 0
    /\ disable_next_osdsys_hook = FALSE
    /\ data_out = "none"
    /\ injected = FALSE
=============================================================================
