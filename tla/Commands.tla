------------------------------ MODULE Commands ------------------------------
(***************************************************************************)
(* The command protocol between the console and the modchip.               *)
(*                                                                         *)
(* The chip sits on the data bus of the boot ROM.  The console "pokes" it  *)
(* by writing bytes to a ROM address, which the chip's write sniffer       *)
(* observes, and "peeks" by reading the same address, which the chip can   *)
(* override.  A call (modchip/io.h, apps.h, settings.h, flash.h, ...) is a *)
(* command of four bytes and its arguments, each followed by its           *)
(* complement, then a status word and, for some commands, data and a CRC.  *)
(* There is no framing and no acknowledgement of a byte, and a byte can go *)
(* unseen ("if writing too fast ... modchip can only see a single byte",   *)
(* io.h).  The firmware (boot_rom/write/*.c) parses the bytes with a       *)
(* handler pointer and a byte counter; while it answers, its sniffers are  *)
(* stopped and it sees nothing.                                            *)
(*                                                                         *)
(* What keeps the two sides together is the complements, the retries, and  *)
(* the reset of the parser.  This module models them byte by byte, with    *)
(* the real command bytes and complements, and lets bytes get lost.        *)
(***************************************************************************)
EXTENDS Integers, SequencesExt

CONSTANTS
    Ops,            \* calls the console makes: [cmd, args, data, tries]
    MaxOwed,        \* bound: losses stop when they excuse this many failures
    SectorBytes,    \* FLASH_SECTOR_SIZE
    Crc(_),         \* CRC-32 of a sector, as a number below 2^31
    AppLength,      \* AppLength[i]: apps_partition_entry_length, i \in 0..
    Stage3Size,     \* LOADER_EE_STAGE_3_SIZE
    Stage2Words,    \* words of LOADER_EE_STAGE_2
    WritableSectors \* sector indices that pass is_valid_addr

-----------------------------------------------------------------------------
(***************************************************************************)
(* Commands and their encoding (modchip/cmd.h)                             *)
(***************************************************************************)
Prefix == 207   \* MODCHIP_CMD_PREFIX
Group0 == 12    \* MODCHIP_CMD_GROUP0
Group1 == 28    \* MODCHIP_CMD_GROUP1

\* The four bytes of a command, in the order they are poked.  The two test
\* commands that answer without a status word are left out.
Code == [DISABLE_NEXT_OSDSYS_HOOK |-> <<Prefix, Group0,  97,  28>>,
         GET_EE_STAGE1_SIZE       |-> <<Prefix, Group0,   8, 208>>,
         GET_EE_STAGE2_SIZE       |-> <<Prefix, Group0, 110, 196>>,
         GET_EE_STAGE2            |-> <<Prefix, Group0,  44, 136>>,
         READ_EE_STAGE3           |-> <<Prefix, Group0,  56, 115>>,
         READ_APP                 |-> <<Prefix, Group0, 184,  51>>,
         KV_GET                   |-> <<Prefix, Group0,  39,  29>>,
         KV_SET                   |-> <<Prefix, Group0, 177,  64>>,
         FW_GIT_REV               |-> <<Prefix, Group0, 106,  30>>,
         BOOTLOADER_GIT_REV       |-> <<Prefix, Group0,  87,  27>>,
         GET_PARTITION_SIZE       |-> <<Prefix, Group0,  58,  80>>,
         GET_FLASH_SECTOR_SIZE    |-> <<Prefix, Group0,  93, 103>>,
         WRITE_LOCK               |-> <<Prefix, Group0, 151,   7>>,
         ERASE_FLASH_SECTOR       |-> <<Prefix, Group0, 154,  40>>,
         WRITE_FLASH_SECTOR       |-> <<Prefix, Group0, 119,  52>>,
         REBOOT                   |-> <<Prefix, Group0,   6, 109>>,
         PIN_CONFIG               |-> <<Prefix, Group0,  49,   4>>,
         TEST_STATUS              |-> <<Prefix, Group1, 205,  24>>,
         TEST_STATUS_DATA         |-> <<Prefix, Group1,  11,  42>>,
         TEST_STATUS_DATA_CRC     |-> <<Prefix, Group1, 100, 120>>,
         TEST_BUSY                |-> <<Prefix, Group1, 167,  92>>]

Cmds == DOMAIN Code

\* Widths in bytes of the arguments of a command.
Widths(cmd) ==
    CASE cmd = "KV_GET" -> <<2>>
      [] cmd = "KV_SET" -> <<2, 4>>
      [] cmd = "READ_APP" -> <<1, 4, 4, 1>>
      [] cmd = "READ_EE_STAGE3" -> <<4, 4, 1>>
      [] cmd \in {"ERASE_FLASH_SECTOR", "WRITE_FLASH_SECTOR"} -> <<1, 4, 4>>
      [] cmd \in {"WRITE_LOCK", "GET_PARTITION_SIZE", "PIN_CONFIG", "REBOOT"}
            -> <<1>>
      [] OTHER -> <<>>

\* The first n widths, added up.  No command has more than four arguments.
SumOf(ws, n) ==
    LET w(i) == IF i <= n /\ i <= Len(ws) THEN ws[i] ELSE 0
    IN  w(1) + w(2) + w(3) + w(4)

\* Bytes that follow the command: arguments and complements, a sector's data.
ArgBytes(cmd) == 2 * SumOf(Widths(cmd), 4)
               + (IF cmd = "WRITE_FLASH_SECTOR" THEN SectorBytes ELSE 0)

Octet == 0..255
Complement(bs) == [i \in DOMAIN bs |-> 255 - bs[i]]

\* Little-endian bytes of a value, and back.  No check accepts a value from
\* 2^31 on, which are all taken for the largest one.
MaxValue == 2147483647
Place == <<1, 256, 65536, 16777216>>
Bytes(v, w) == [i \in 1..w |-> (v \div Place[i]) % 256]
Value(bs) ==
    LET b(i) == IF i <= Len(bs) THEN Place[i] * bs[i] ELSE 0
    IN  IF Len(bs) = 4 /\ bs[4] >= 128 THEN MaxValue
                                       ELSE b(1) + b(2) + b(3) + b(4)

\* modchip_poke_u8/u16/u32 of an argument and of its complement.
WithComplement(v, w) == Bytes(v, w) \o Complement(Bytes(v, w))

Argument(op, i) ==
    IF i <= Len(op.args) THEN WithComplement(op.args[i], Widths(op.cmd)[i])
                         ELSE <<>>

\* Everything a call pokes.
Pokes(op) ==
    Code[op.cmd] \o Argument(op, 1) \o Argument(op, 2) \o Argument(op, 3)
                 \o Argument(op, 4) \o op.data

\* with_crc is a bool.
IsFlag(cmd, i) == /\ cmd \in {"READ_APP", "READ_EE_STAGE3"}
                  /\ i = Len(Widths(cmd))

\* The library pokes what fits, and with a sector its CRC.
ASSUME OpsAssumption ==
    /\ SectorBytes \in Nat \ {0} /\ Stage2Words \in Nat
    /\ Ops \subseteq [cmd : Cmds, args : Seq(0..MaxValue), data : Seq(Octet),
                     tries : Nat \ {0}]
    /\ \A op \in Ops :
          /\ Len(op.args) = Len(Widths(op.cmd))
          /\ \A i \in DOMAIN op.args :
                /\ Widths(op.cmd)[i] < 4 =>
                      op.args[i] < Place[Widths(op.cmd)[i] + 1]
                /\ IsFlag(op.cmd, i) => op.args[i] < 2
          /\ IF op.cmd = "WRITE_FLASH_SECTOR"
             THEN Len(op.data) = SectorBytes /\ op.args[3] = Crc(op.data)
             ELSE op.data = <<>>

(***************************************************************************)
(* There is no framing, so some data is mistaken for other data when a     *)
(* byte is lost.  A call is unmistakable if                                *)
(*   - what follows its first byte contains no command, nor ends in the    *)
(*     beginning of one;                                                   *)
(*   - its arguments or its sector, without a byte and with the next       *)
(*     call's prefix at the end, do not agree with the complements or the  *)
(*     CRC.                                                                *)
(***************************************************************************)
NoCommandInside(bs) ==
    \A k \in 2..Len(bs), c \in Cmds :
        \E i \in 1..4 : k + i - 1 <= Len(bs) /\ bs[k + i - 1] # Code[c][i]

ArgumentsApart(op) ==
    LET x == Bytes(op.args[Len(op.args)], Widths(op.cmd)[Len(op.args)])
    IN  x[1] # Prefix /\ x[Len(x)] # 255 - Prefix

SectorApart(op) ==
    LET crc == WithComplement(op.args[3], 4)
        without(k) == Append(RemoveAt(op.data, k), Prefix)
    IN  /\ \A k \in 1..SectorBytes : Crc(without(k)) # op.args[3]
        /\ \A k \in 1..4 :
              Crc(without(1)) # Value(SubSeq(RemoveAt(crc, k), 1, 4))

Unmistakable(op) ==
    /\ NoCommandInside(Pokes(op))
    /\ IF op.cmd = "WRITE_FLASH_SECTOR" THEN SectorApart(op)
       ELSE op.args # <<>> => ArgumentsApart(op)

-----------------------------------------------------------------------------
VARIABLES
    rx,        \* bytes of the command being received: the handler that is
               \* installed and cmd_byte_counter follow from it
    busy,      \* the command executed while BUSY words go out, or NoReq
    answer,    \* words the data out state machine still has to send
    settings,  \* the settings served by KV_GET and KV_SET
    hook_off,  \* disable_next_osdsys_hook
    lock,      \* flash_write_lock
    reboot,    \* watchdog_reboot is counting down
    call,      \* the call the console is making
    owed,      \* failed attempts that the bytes lost since the last
               \* successful call may still excuse (history variable)
    flash_failed \* an erase or a write has failed in all its attempts since
               \* the last successful call (history variable)

fw   == <<rx, busy, answer, settings, hook_off, lock, reboot>>
vars == <<fw, call, owed, flash_failed>>

\* A word on the bus: a status code or the ROM's own content, a setting, a
\* word of some payload, the CRC of what was sent.
OK      == <<"status", "OK">>
ERR     == <<"status", "ERR">>
BUSY    == <<"status", "BUSY">>
RomWord == <<"status", "ROM">>  \* BOOT_ROM_ADDR_VALUE: the chip is silent

NoReq == [cmd |-> "none", args |-> <<>>, data |-> <<>>, valid |-> FALSE]

\* Keys and defaults of the settings.
AUTOBOOT == 0
DELAY == 1
ITEM_IDX == 2
OSDSYS == 3
Keys == 0..3

\* Mutant: a setter whose parameter is as wide as the value poked.
StoredWide(key, v) == IF key = AUTOBOOT THEN (IF v = 0 THEN 0 ELSE 1) ELSE v

\* The setters' parameters and fields are narrower than the value poked.
Stored(key, v) ==
    CASE key = AUTOBOOT -> IF v = 0 THEN 0 ELSE 1
      [] key = DELAY -> v % 65536
      [] key \in {ITEM_IDX, OSDSYS} -> v % 256

\* The largest value such a field can hold.
Largest(key) == IF key = AUTOBOOT THEN 1 ELSE IF key = DELAY THEN 65535 ELSE 255

MaxBusyLeft == 3

\* Attempts that may fail because of one lost byte: the one it is lost in and
\* the one whose first byte completes the arguments that are awaited.
LossCost == 2

Sniffing == answer = <<>> /\ busy = NoReq

-----------------------------------------------------------------------------
(***************************************************************************)
(* The firmware                                                            *)
(***************************************************************************)
\* The static variables an argument is assembled in, and its complement.
Field(bs, ws, i) ==
    LET at == 4 + 2 * SumOf(ws, i - 1)
    IN  SubSeq(bs, at + 1, at + ws[i])

FieldXor(bs, ws, i) ==
    LET at == 4 + 2 * SumOf(ws, i - 1) + ws[i]
    IN  SubSeq(bs, at + 1, at + ws[i])

\* Any byte but 0 makes a bool 1.
Received(cmd, bs, i) ==
    LET f == Field(bs, Widths(cmd), i)
    IN  IF IsFlag(cmd, i) THEN <<IF f[1] = 0 THEN 0 ELSE 1>> ELSE f

\* Mutant: only the first argument's complement is checked.
FirstComplementMatches(cmd, bs) ==
    \A i \in DOMAIN Widths(cmd) \cap {1} :
        FieldXor(bs, Widths(cmd), i) = Complement(Received(cmd, bs, i))

\* (x ^ x_xor) == 0xFF.. for every argument
ComplementsMatch(cmd, bs) ==
    \A i \in DOMAIN Widths(cmd) :
        FieldXor(bs, Widths(cmd), i) = Complement(Received(cmd, bs, i))

Args(cmd, bs) ==
    [i \in DOMAIN Widths(cmd) |-> Value(Received(cmd, bs, i))]

SectorData(cmd, bs) ==
    IF cmd = "WRITE_FLASH_SECTOR" THEN SubSeq(bs, 23, 22 + SectorBytes)
                                  ELSE <<>>

\* The checks a command makes of its arguments once they are known to have
\* arrived intact.
InRange(cmd, args) ==
    CASE cmd \in {"KV_GET", "KV_SET"} -> args[1] \in Keys
      [] cmd = "READ_APP" -> /\ args[1] \in DOMAIN AppLength
                             /\ AppLength[args[1]] > args[2]
      [] cmd = "READ_EE_STAGE3" -> Stage3Size > args[1]
      [] cmd = "GET_PARTITION_SIZE" -> args[1] < 3
      [] cmd = "PIN_CONFIG" -> args[1] < 4
      [] cmd = "REBOOT" -> args[1] < 2
      [] cmd \in {"ERASE_FLASH_SECTOR", "WRITE_FLASH_SECTOR"} ->
            /\ args[1] \in {1, 2}
            /\ args[2] \in WritableSectors
            /\ ~lock
      [] OTHER -> TRUE

IsValid(cmd, bs) ==
    /\ ComplementsMatch(cmd, bs)
    /\ InRange(cmd, Args(cmd, bs))
    /\ cmd = "WRITE_FLASH_SECTOR" =>
          Crc(SectorData(cmd, bs)) = Args(cmd, bs)[3]

\* Reads the console does to fetch size bytes: modchip_peek_n.
PeekCount(size) == (size \div 4) + (size % 4)

\* Words of data in the answer to a command.
DataWords(cmd, args) ==
    CASE cmd = "READ_APP" -> PeekCount(args[3])
      [] cmd = "READ_EE_STAGE3" -> PeekCount(args[2])
      [] cmd = "GET_EE_STAGE2" -> Stage2Words
      [] cmd \in {"TEST_STATUS_DATA", "TEST_STATUS_DATA_CRC"} -> PeekCount(15)
      [] cmd \in {"FW_GIT_REV", "BOOTLOADER_GIT_REV"} -> 2
      [] cmd \in {"KV_GET", "GET_PARTITION_SIZE", "GET_FLASH_SECTOR_SIZE",
                  "GET_EE_STAGE1_SIZE", "GET_EE_STAGE2_SIZE", "PIN_CONFIG"}
            -> 1
      [] OTHER -> 0

HasCrc(cmd, args) ==
    CASE cmd = "READ_APP" -> args[4] # 0
      [] cmd = "READ_EE_STAGE3" -> args[3] # 0
      [] OTHER -> /\ DataWords(cmd, args) > 0
                  /\ cmd \notin {"GET_EE_STAGE1_SIZE", "GET_EE_STAGE2_SIZE",
                                "TEST_STATUS_DATA"}

Payload(cmd, args) ==
    IF cmd = "KV_GET" THEN <<<<"kv", settings[args[1]]>>>>
    ELSE [i \in 1..DataWords(cmd, args) |-> <<"data", cmd, args, i>>]

\* boot_rom_data_out_start_data_with_status_code and _start_status_code
Reply(cmd, args) ==
    LET data == Payload(cmd, args)
    IN  <<OK>> \o data
          \o (IF HasCrc(cmd, args) THEN <<<<"crc", data>>>> ELSE <<>>)

\* Commands that answer BUSY while they execute.
Slow(cmd, bs) ==
    \/ cmd \in {"ERASE_FLASH_SECTOR", "WRITE_FLASH_SECTOR"}
    \/ cmd = "KV_SET" /\ IsValid(cmd, bs)
    \/ cmd = "TEST_BUSY"

\* handle_write_disable_next_osdsys_hook, handle_write_write_lock and
\* handle_write_reboot
HookAfter(cmd) == hook_off \/ cmd = "DISABLE_NEXT_OSDSYS_HOOK"

LockAfter(cmd, args, valid) ==
    IF cmd = "WRITE_LOCK" /\ valid THEN args[1] # 0 ELSE lock

RebootAfter(cmd, valid) == reboot \/ (cmd = "REBOOT" /\ valid)

\* The handler of a command has its last byte.
Execute(cmd, bs) ==
    LET args  == Args(cmd, bs)
        valid == IsValid(cmd, bs)
    IN  /\ rx' = <<>>
        /\ IF Slow(cmd, bs)
           THEN /\ busy' = IF valid THEN [cmd |-> cmd, args |-> args,
                                          data |-> SectorData(cmd, bs),
                                          valid |-> TRUE]
                                    ELSE [NoReq EXCEPT !.cmd = cmd]
                /\ answer' = answer
           ELSE /\ busy' = busy
                /\ answer' = IF valid THEN Reply(cmd, args) ELSE <<ERR>>
        /\ hook_off' = HookAfter(cmd)
        /\ lock' = LockAfter(cmd, args, valid)
        /\ reboot' = RebootAfter(cmd, valid)
        /\ settings' = settings

\* The commands the bytes received so far may be the beginning of.
Matching(bs) == {c \in Cmds : \A i \in DOMAIN bs \cap 1..4 : bs[i] = Code[c][i]}

\* Mutant: a byte that does not fit is skipped, the handler stays.
ReceiveSkipping(b) ==
    LET bs   == Append(rx, b)
        last == {c \in Matching(bs) : Len(bs) = 4 + ArgBytes(c)}
    IN  \/ /\ last = {}
           /\ rx' = IF Matching(bs) = {} THEN rx ELSE bs
           /\ UNCHANGED <<busy, answer, settings, hook_off, lock, reboot>>
        \/ \E c \in last : Execute(c, bs)

\* write_handler(b): handle_write_idle, _cmd, _cmd_group0/1, then the
\* command's own handler.  A byte that does not fit is dropped, and with it
\* all that was received.
Receive(b) ==
    LET bs   == Append(rx, b)
        last == {c \in Matching(bs) : Len(bs) = 4 + ArgBytes(c)}
    IN  \/ /\ last = {}
           /\ rx' = IF Matching(bs) = {} THEN <<>> ELSE bs
           /\ UNCHANGED <<busy, answer, settings, hook_off, lock, reboot>>
        \/ \E c \in last : Execute(c, bs)

\* Mutant: settings_set_* returns early.
WithoutSet == settings

\* settings_set_*: the settings once the command being executed is done.
WithSet == IF busy.cmd = "KV_SET" /\ busy.valid
           THEN [settings EXCEPT ![busy.args[1]] =
                    Stored(busy.args[1], busy.args[2])]
           ELSE settings

\* The slow part of a command is done: boot_rom_data_out_stop_busy_code.  Up
\* to two BUSY words are in the FIFO and one is being transferred to it.
FinishBusy ==
    /\ busy # NoReq
    /\ busy' = NoReq
    /\ \E n \in 0..MaxBusyLeft :
          answer' = [i \in 1..n |-> BUSY]
                      \o <<IF busy.valid THEN OK ELSE ERR>>
    /\ settings' = WithSet
    /\ UNCHANGED <<rx, hook_off, lock, reboot, call, owed, flash_failed>>

\* A reset of the chip: everything but the settings is lost, and a setting
\* that is being written may or may not make it.
FwReset ==
    /\ rx' = <<>>
    /\ busy' = NoReq
    /\ answer' = <<>>
    /\ hook_off' = FALSE
    /\ lock' = TRUE
    /\ reboot' = FALSE
    /\ settings' \in {settings, WithSet}

-----------------------------------------------------------------------------
(***************************************************************************)
(* The console                                                             *)
(***************************************************************************)
Idle(op, res, got) ==
    [pc |-> "idle", op |-> op, n |-> 0, try |-> 0, got |-> got, res |-> res]

StartCall(op) ==
    /\ call.pc = "idle"
    /\ ~reboot
    /\ call' = [pc |-> "poke", op |-> op, n |-> 0, try |-> 0, got |-> <<>>,
                res |-> "none"]
    /\ UNCHANGED <<fw, owed, flash_failed>>

\* modchip_poke_u8 of the next byte.  After the last one the console peeks.
Poked ==
    IF call.n + 1 < Len(Pokes(call.op))
    THEN call' = [call EXCEPT !.n = @ + 1]
    ELSE call' = [call EXCEPT !.pc = "status", !.n = 0]

NextByte == Pokes(call.op)[call.n + 1]

\* The sniffer sees the byte, unless it is stopped.
Poke ==
    /\ call.pc = "poke"
    /\ Poked
    /\ IF Sniffing THEN Receive(NextByte) ELSE UNCHANGED fw
    /\ UNCHANGED <<owed, flash_failed>>

\* The byte is not seen: the console wrote too fast.
PokeLost ==
    /\ call.pc = "poke"
    /\ owed + LossCost <= MaxOwed
    /\ Sniffing
    /\ Poked
    /\ owed' = owed + LossCost
    /\ UNCHANGED <<fw, flash_failed>>

\* modchip_peek_u32: the next word of the answer, or what the ROM holds.
Peeked == IF busy # NoReq THEN BUSY
          ELSE IF answer # <<>> THEN Head(answer) ELSE RomWord

Peek ==
    /\ answer' = IF answer # <<>> THEN Tail(answer) ELSE answer
    /\ UNCHANGED <<rx, busy, settings, hook_off, lock, reboot>>

FlashCmds == {"ERASE_FLASH_SECTOR", "WRITE_FLASH_SECTOR"}

\* An erase or a write that fails with its last byte missing is completed by the
\* first byte of the next call, and refused behind BUSY words: what is read is
\* one of those.
LeftByFlash == flash_failed /\ Peeked = BUSY

\* Mutant: the attempts are not counted.
FailForever ==
    /\ call' = [call EXCEPT !.pc = "poke", !.n = 0, !.got = <<>>]
    /\ UNCHANGED <<owed, flash_failed>>

\* A failed attempt: the next one, or the call has failed.  owed is charged
\* unless what was asked for is refused, or BUSY is left by a failed flash
\* command.
Fail ==
    /\ call' = IF call.try + 1 < call.op.tries
               THEN [call EXCEPT !.pc = "poke", !.n = 0, !.try = @ + 1,
                                 !.got = <<>>]
               ELSE Idle(call.op, "fail", <<>>)
    /\ owed' = IF InRange(call.op.cmd, call.op.args) /\ ~LeftByFlash
               THEN owed - 1
               ELSE owed
    /\ flash_failed' = \/ flash_failed
                       \/ call.op.cmd \in FlashCmds /\ call'.pc = "idle"

Succeed(got) ==
    /\ call' = Idle(call.op, "ok", got)
    /\ owed' = 0
    /\ flash_failed' = FALSE

\* What follows the status word OK is read.
StatusOK ==
    LET words == DataWords(call.op.cmd, call.op.args)
    IN  IF words = 0 /\ ~HasCrc(call.op.cmd, call.op.args)
        THEN Succeed(<<>>)
        ELSE /\ call' = [call EXCEPT !.pc = IF words = 0 THEN "crc" ELSE "data"]
             /\ UNCHANGED <<owed, flash_failed>>

\* Mutant: the caller takes BUSY for a failure.
ReadStatusOnce ==
    /\ call.pc = "status"
    /\ Peek
    /\ \/ Peeked # OK /\ Fail
       \/ Peeked = OK /\ StatusOK

\* The status word.  The callers of slow commands peek again while it is BUSY.
ReadStatus ==
    /\ call.pc = "status"
    /\ Peek
    /\ LET r == Peeked
           slow == call.op.cmd \in {"KV_SET", "ERASE_FLASH_SECTOR",
                                    "WRITE_FLASH_SECTOR", "TEST_BUSY"}
       IN  \/ r = BUSY /\ slow /\ UNCHANGED <<call, owed, flash_failed>>
           \/ r # OK /\ ~(r = BUSY /\ slow) /\ Fail
           \/ r = OK /\ StatusOK

\* modchip_peek_n, one word.
ReadData ==
    /\ call.pc = "data"
    /\ Peek
    /\ LET got  == Append(call.got, Peeked)
           more == Len(got) < DataWords(call.op.cmd, call.op.args)
       IN  IF more \/ HasCrc(call.op.cmd, call.op.args)
           THEN /\ call' = [call EXCEPT !.got = got,
                                        !.pc = IF more THEN "data" ELSE "crc"]
                /\ UNCHANGED <<owed, flash_failed>>
           ELSE Succeed(got)

\* crc_expected == crc_actual
ReadCrc ==
    /\ call.pc = "crc"
    /\ Peek
    /\ IF Peeked = <<"crc", call.got>> THEN Succeed(call.got) ELSE Fail

\* reset_pressed: the reset button held for 10 ms resets console and chip.
ConsoleReset ==
    /\ FwReset
    /\ call' = Idle(call.op, "none", <<>>)
    /\ owed' = 0
    /\ flash_failed' = FALSE

\* watchdog_reboot(0, 0, 100): the status word has been read by then.
Restart ==
    /\ reboot
    /\ call.pc = "idle"
    /\ FwReset
    /\ call' = Idle(call.op, "none", <<>>)
    /\ owed' = 0
    /\ flash_failed' = FALSE

-----------------------------------------------------------------------------
Init ==
    /\ rx = <<>>
    /\ busy = NoReq
    /\ answer = <<>>
    /\ settings = [k \in Keys |-> IF k = AUTOBOOT THEN 1
                                  ELSE IF k = DELAY THEN 10 ELSE 0]
    /\ hook_off = FALSE
    /\ lock = TRUE
    /\ reboot = FALSE
    /\ \E op \in Ops : call = Idle(op, "none", <<>>)
    /\ owed = 0
    /\ flash_failed = FALSE

Next ==
    \/ \E op \in Ops : StartCall(op)
    \/ Poke
    \/ PokeLost
    \/ ReadStatus
    \/ ReadData
    \/ ReadCrc
    \/ FinishBusy
    \/ ConsoleReset
    \/ Restart

Spec == Init /\ [][Next]_vars

\* There is no call, or it may go round in its loop until the chip is done.
Waiting == call.pc = "idle" \/ (call.pc = "status" /\ busy # NoReq)

\* The console runs its loops and the firmware gets done; nobody has to lose
\* bytes, press reset or make another call.  Whenever a call is not waiting,
\* each step of its loops changes call, so the first disjunction is no more
\* than weak fairness of Poke, ReadStatus, ReadData and ReadCrc; TLC evaluates
\* it faster.
FairSpec ==
    /\ Spec
    /\ []<>Waiting \/ []<><<call' # call>>_vars
    /\ WF_vars(FinishBusy)

-----------------------------------------------------------------------------
(***************************************************************************)
(* Properties                                                              *)
(***************************************************************************)
\* Types; the parser is idle whenever the chip is not listening.
TypeOK ==
    /\ rx \in Seq(Octet)
    /\ \A k \in Keys : settings[k] \in 0..Largest(k)
    /\ {hook_off, lock, reboot} \subseteq BOOLEAN
    /\ call.op \in Ops
    /\ call.n \in 0..Len(Pokes(call.op))
    /\ call.try \in 0..(call.op.tries - 1)
    /\ ~Sniffing => rx = <<>>

\* What the console asked for, as the firmware would answer it.
AskedBusy == [cmd |-> call.op.cmd, args |-> call.op.args,
              data |-> call.op.data, valid |-> TRUE]

\* Whatever bytes are lost, and whatever is left in the parser by earlier
\* calls, the firmware executes a command only if it is the one the console
\* is calling, with the arguments and the sector it pokes: shifted bytes never
\* pass the complements or the CRC (is_valid in every handler).  The hook is
\* turned off, the lock set to a value and the chip told to restart only by the
\* call that asks for it; other than that, only a reset changes them.
OnlyWhatIsAsked ==
    [][/\ busy' # busy /\ busy'.valid => busy' = AskedBusy
       /\ answer = <<>> /\ busy = NoReq /\ answer' \notin {<<>>, <<ERR>>}
             => answer' = Reply(call.op.cmd, call.op.args)
       /\ hook_off' /\ ~hook_off => call.op.cmd = "DISABLE_NEXT_OSDSYS_HOOK"
       /\ lock # lock' =>
             \/ call.op.cmd = "WRITE_LOCK" /\ lock' = (call.op.args[1] # 0)
             \/ call'.pc = "idle"
       /\ reboot' /\ ~reboot => call.op.cmd = "REBOOT"
      ]_vars

\* When an attempt starts, nothing is left to be read but the refusal of a
\* flash command that was completed by a byte of another call: a word of one
\* command is never taken for the answer to the next (the readers of apps.h,
\* settings.h and flash.h read exactly what is sent).
OnlyRefusalsLeft ==
    call.pc = "idle" \/ (call.pc = "poke" /\ call.n = 0) =>
        /\ ~busy.valid
        /\ \A i \in DOMAIN answer : answer[i] \in {BUSY, ERR}

\* The shape of the parser and of the call, and what they leave for the next one.
ParserInv == TypeOK /\ OnlyRefusalsLeft

\* Since the last successful call, no more attempts at what the firmware would
\* accept have failed than the lost bytes account for, two for each: the attempt
\* it is lost in and the next one, which completes the arguments the parser
\* waits for.  So a call with MODCHIP_CMD_RETRIES attempts fails only after two
\* losses, with one exception, LeftByFlash: once an erase or a write has failed
\* in its last attempt too, the next calls read the BUSY words of its refusal.
\* Those that do not wait on BUSY can fail in all their attempts that way,
\* though none of their bytes is lost, and these attempts are not counted.
EveryFailureExcused == owed >= 0

\* A call that returns success has done what it was for: the setting is
\* stored, the value read is the current one, the lock and the hook are set,
\* the data is that of the request.
SuccessIsTrue ==
    call.res = "ok" =>
        LET op == call.op
        IN  /\ op.cmd = "KV_SET" =>
                  settings[op.args[1]] = Stored(op.args[1], op.args[2])
            /\ op.cmd = "WRITE_LOCK" => lock = (op.args[1] # 0)
            /\ op.cmd = "DISABLE_NEXT_OSDSYS_HOOK" => hook_off
            /\ op.cmd = "REBOOT" => reboot
            /\ call.got = Payload(op.cmd, op.args)

\* Every call comes to an end: no retry loop and no wait for the end of BUSY
\* goes on for ever.
CallsEnd == call.pc # "idle" ~> call.pc = "idle"

=============================================================================
