------------------------------- MODULE DataOut -------------------------------
(***************************************************************************)
(* How the modchip answers: boot_rom/data_out.c and boot_rom.pio.          *)
(*                                                                         *)
(* Four actors work on one answer without a lock between them:             *)
(*                                                                         *)
(*   - core 0, which executes a command, stops the sniffers, sets up the   *)
(*     DMA chain and starts the data out state machine (SM);               *)
(*   - the DMA controller, which walks lists of control blocks (CTRL1 and  *)
(*     CTRL2 load DATA1 and DATA2) and fills the TX FIFO, or sends BUSY    *)
(*     words round and round (PING and PONG);                              *)
(*   - the SM, which puts a byte on the bus for every read of the console  *)
(*     and raises an interrupt at every read but the first;                *)
(*   - core 1, whose interrupt handler stops the SM and restarts the       *)
(*     sniffers when it finds the FIFO empty.                              *)
(*                                                                         *)
(* There is no count of the bytes sent: "empty FIFO" is the only sign that *)
(* an answer is over, which is why every list ends in a dummy byte (EOT).  *)
(* What is checked is that this sign comes at the right moment, for every  *)
(* interleaving, and that nothing is left over for the next answer.        *)
(***************************************************************************)
EXTENDS Integers, SequencesExt

CONSTANTS
    Requests,    \* answers core 0 is asked for: [kind, code, data, crc]
    FifoDepth,   \* TX FIFO of the data out SM, joined with the RX FIFO
    WordSize     \* bytes of a status word and of a CRC

\* Bytes on the bus.
Word(kind, what) == [i \in 1..WordSize |-> <<kind, what, i>>]
Status(code) == Word("status", code)
BusyCode     == Status("BUSY")    \* data_out_busy_code
CrcOf(bytes) == Word("crc", bytes)
ZERO         == <<"status", "ZERO", 1>>
Rom          == <<"status", "ROM", 1>>

ASSUME FifoAssumption ==
    /\ FifoDepth \in Nat /\ FifoDepth > 1
    /\ WordSize \in Nat /\ WordSize > 2

\* Bytes that core 0 is asked to send.  They are told apart from those of BUSY
\* words and from the mark of a CRC that has been sent.
DataBytes == UNION {Range(r.data) : r \in Requests}

\* A status or the result of a slow command has no data; a patch has two bytes at
\* least, for the first read raises no interrupt.
ASSUME RequestsAssumption ==
    /\ Requests \subseteq
          [kind : {"status", "busy", "write"}, code : STRING,
           data : Seq(DataBytes), crc : {FALSE}]
          \cup [kind : {"data", "patch"}, code : STRING,
                data : Seq(DataBytes), crc : BOOLEAN]
    /\ \A r \in Requests :
          /\ r.code # "BUSY"
          /\ r.kind = "patch" => Len(r.data) > 1
    /\ DataBytes \cap (Range(BusyCode) \cup {<<"stale">>, ZERO}) = {}

-----------------------------------------------------------------------------
(***************************************************************************)
(* Control blocks and control lists                                        *)
(***************************************************************************)
Block(kind, chain) == [kind |-> kind, chain |-> chain]

CONTROL_BLOCK_SNIFFER_SETUP(channel) == Block("sniff", channel)
CONTROL_BLOCK_STATUS_CODE(channel)   == Block("status", channel)
CONTROL_BLOCK_CRC  == Block("crc", "ctrl1")
CONTROL_BLOCK_EOT  == Block("eot", "ctrl1")
CONTROL_BLOCK_NULL == Block("null", "none")

\* Mutant: the channels of the first two blocks are swapped.
DATA_BEFORE_STATUS ==
    <<CONTROL_BLOCK_SNIFFER_SETUP("ctrl2"), CONTROL_BLOCK_STATUS_CODE("ctrl1"),
      CONTROL_BLOCK_CRC, CONTROL_BLOCK_EOT, CONTROL_BLOCK_NULL>>

WITH_STATUS_WITH_DATA_WITH_CRC ==
    <<CONTROL_BLOCK_SNIFFER_SETUP("ctrl1"), CONTROL_BLOCK_STATUS_CODE("ctrl2"),
      CONTROL_BLOCK_CRC, CONTROL_BLOCK_EOT, CONTROL_BLOCK_NULL>>
NO_STATUS_WITH_DATA_WITH_CRC ==
    <<CONTROL_BLOCK_SNIFFER_SETUP("ctrl2"),
      CONTROL_BLOCK_CRC, CONTROL_BLOCK_EOT, CONTROL_BLOCK_NULL>>
NO_STATUS_WITH_DATA_NO_CRC == <<CONTROL_BLOCK_EOT, CONTROL_BLOCK_NULL>>
WITH_STATUS_WITH_DATA_NO_CRC ==
    <<CONTROL_BLOCK_STATUS_CODE("ctrl2"), CONTROL_BLOCK_EOT, CONTROL_BLOCK_NULL>>

\* Mutant: the list is not padded.
WITH_STATUS_NO_EOT == <<CONTROL_BLOCK_STATUS_CODE("ctrl1"), CONTROL_BLOCK_NULL>>

WITH_STATUS_NO_DATA_NO_CRC ==
    <<CONTROL_BLOCK_STATUS_CODE("ctrl1"), CONTROL_BLOCK_EOT, CONTROL_BLOCK_NULL>>
CONTROL_BLOCKS_DATA_OUT == <<Block("data", "ctrl1"), CONTROL_BLOCK_NULL>>

-----------------------------------------------------------------------------
VARIABLES
    \* core 0
    core0,    \* the next step of the start or stop routine, or "idle"
    req,      \* the request being answered
    code,     \* data_out_status_code
    \* DMA
    dma,      \* channel that is active, what it has left to send, its CHAIN_TO
    list1,    \* control blocks from the read address of CTRL1 on
    list2,    \* control blocks from the read address of CTRL2 on
    data,     \* what the data block of CONTROL_BLOCKS_DATA_OUT points to
    ctrl2_ok, \* the registers of CTRL2 are as boot_rom_data_out_init_dma left them
    pong,     \* CHAIN_TO of PONG
    ping_at,  \* bytes of the busy word before the read address of PING
    sniffed,  \* bytes in the CRC since its setup, Stale once it has been sent
    \* PIO
    fifo,     \* TX FIFO
    sm,       \* data out SM: "off", at its start, or in its loop
    osr,      \* output shift register, at most one byte
    pins,     \* the byte the SM has put on its pins
    drive,    \* the pins are outputs
    sniffing, \* the sniffers are enabled
    irq,      \* BOOT_ROM_BYTE_OUT_IRQ
    \* core 1 and the console
    core1,    \* the next step of byte_out_irq_handler, or "idle"
    oe,       \* the console is in a read cycle
    \* history
    got,      \* what the console has read of this answer, since its last BUSY
    late      \* BUSY words it has begun to read after the command was over

c0   == <<core0, req, code, ctrl2_ok, data>>
dmav == <<dma, list1, list2, pong, ping_at, sniffed>>
pio  == <<fifo, sm, osr, pins, drive, irq>>
vars == <<c0, dmav, pio, sniffing, core1, oe, got, late>>

\* BUSY words that may follow the end of a command; late stops one above.
MaxLate == 3

NoDma == [ch |-> "idle", left |-> <<>>, chain |-> "none"]
Stale == <<<<"stale">>>>
NoReq == [kind |-> "none", code |-> "OK", data |-> <<>>, crc |-> FALSE]

\* Triggering a channel.  PING has whatever follows its read address to send.
Trigger(ch) ==
    [ch |-> ch,
     left |-> IF ch = "ping" THEN SubSeq(BusyCode, ping_at + 1, WordSize)
                             ELSE <<>>,
     chain |-> IF ch = "ping" THEN "pong" ELSE "none"]

\* What the console should read: the words of the answer, after any number of
\* BUSY words if the command is a slow one.
Answer ==
    (IF req.kind \in {"data", "status", "busy", "write"}
        THEN Status(req.code) ELSE <<>>)
      \o (IF req.kind \in {"data", "patch"} THEN req.data ELSE <<>>)
      \o (IF req.crc THEN CrcOf(req.data) ELSE <<>>)

IsSlow == req.kind \in {"busy", "write"}

-----------------------------------------------------------------------------
(***************************************************************************)
(* Core 0                                                                  *)
(***************************************************************************)
\* A command has been received: its handler calls one of the start routines,
\* which begin with boot_rom_sniffers_stop.  The data of a patch is set up
\* some reads before (handle_read_find_osdsys_syscall_table, _find_iopboot2).
Start(r) ==
    /\ core0 = "idle"
    /\ sniffing
    /\ oe = "high"
    /\ req' = r
    /\ got' = <<>> /\ late' = 0
    /\ sniffing' = FALSE
    /\ core0' = IF r.kind \in {"busy", "write"} THEN "busy" ELSE "load"
    /\ IF r.kind = "patch"
       THEN data' = r.data /\ list2' = CONTROL_BLOCKS_DATA_OUT
       ELSE UNCHANGED <<data, list2>>
    /\ UNCHANGED <<code, ctrl2_ok, dma, list1, pong, ping_at, sniffed, pio,
                   core1, oe>>

\* boot_rom_data_out_start_status_code, _start_data_with_status_code and
\* _start_data_without_status_code: set the lists and start the chain.
Load ==
    /\ core0 = "load"
    /\ core0' = "start"
    /\ code' = IF req.kind = "patch" THEN code ELSE req.code
    /\ IF req.kind = "data"
       THEN data' = req.data /\ list2' = CONTROL_BLOCKS_DATA_OUT
       ELSE UNCHANGED <<data, list2>>
    /\ list1' = CASE req.kind = "status" -> WITH_STATUS_NO_DATA_NO_CRC
                  [] req.kind = "data" -> IF req.crc
                        THEN WITH_STATUS_WITH_DATA_WITH_CRC
                        ELSE WITH_STATUS_WITH_DATA_NO_CRC
                  [] req.kind = "patch" -> IF req.crc
                        THEN NO_STATUS_WITH_DATA_WITH_CRC
                        ELSE NO_STATUS_WITH_DATA_NO_CRC
    /\ dma' = Trigger(IF req.kind = "patch" /\ ~req.crc THEN "ctrl2"
                                                        ELSE "ctrl1")
    /\ UNCHANGED <<req, ctrl2_ok, pong, ping_at, sniffed, pio, sniffing, core1,
                   oe, got, late>>

\* boot_rom_data_out_start_busy_code: PONG back to PING, PING to PONG and go.
StartBusy ==
    /\ core0 = "busy"
    /\ core0' = "start"
    /\ pong' = "ping"
    /\ dma' = Trigger("ping")
    /\ UNCHANGED <<req, code, ctrl2_ok, data, list1, list2, ping_at, sniffed,
                   pio, sniffing, core1,
                   oe, got, late>>

\* boot_rom_data_out_start, boot_rom_sniffers_reset
StartSm ==
    /\ core0 = "start"
    /\ core0' = IF IsSlow THEN "execute" ELSE "idle"
    /\ sm' = "first"
    /\ UNCHANGED <<req, code, ctrl2_ok, data, dmav, fifo, osr, pins, drive, irq,
                   sniffing, core1, oe, got, late>>

\* The command itself, while BUSY goes out.  Writing a sector computes a CRC
\* by DMA (dma_crc32): the number of the channel it claims is kept in a bool,
\* and so it configures and uses channel 1, which is CTRL2.
Execute ==
    /\ core0 = "execute"
    /\ core0' = "status"
    /\ ctrl2_ok' = (ctrl2_ok /\ req.kind # "write")
    /\ UNCHANGED <<req, code, data, dmav, pio, sniffing, core1, oe, got, late>>

\* boot_rom_data_out_stop_busy_code: the status code and the list for CTRL1,
\* then, with one register write, PONG is chained to CTRL1.
StopBusyList ==
    /\ core0 = "status"
    /\ core0' = "chain"
    /\ code' = req.code
    /\ list1' = WITH_STATUS_NO_DATA_NO_CRC
    /\ UNCHANGED <<req, ctrl2_ok, data, dma, list2, pong, ping_at, sniffed, pio,
                   sniffing, core1, oe, got, late>>

\* Mutant: PONG goes on as it was.
StopBusyUnchained ==
    /\ core0 = "chain"
    /\ core0' = "idle"
    /\ UNCHANGED <<req, code, ctrl2_ok, data, dmav, pio, sniffing, core1, oe,
                   got, late>>

StopBusyChain ==
    /\ core0 = "chain"
    /\ core0' = "idle"
    /\ pong' = "ctrl1"
    /\ UNCHANGED <<req, code, ctrl2_ok, data, dma, list1, list2, ping_at,
                   sniffed, pio, sniffing, core1, oe, got, late>>

-----------------------------------------------------------------------------
(***************************************************************************)
(* DMA                                                                     *)
(***************************************************************************)
\* CTRL1 copies a control block to the registers of DATA1.  The sniffer setup
\* is a copy too, done before the next trigger.
Ctrl1 ==
    /\ dma.ch = "ctrl1"
    /\ LET b == Head(list1)
       IN  /\ dma' = IF b.kind = "null" THEN NoDma
                     ELSE [ch |-> "data1", chain |-> b.chain,
                           left |-> CASE b.kind = "status" -> Status(code)
                                      [] b.kind = "crc" -> CrcOf(sniffed)
                                      [] b.kind = "eot" -> <<ZERO>>
                                      [] b.kind = "sniff" -> <<>>]
           /\ sniffed' = CASE b.kind = "sniff" -> <<>>
                           [] b.kind = "crc" -> Stale
                           [] OTHER -> sniffed
    /\ list1' = Tail(list1)
    /\ UNCHANGED <<c0, list2, pong, ping_at, pio, sniffing, core1, oe, got, late>>

\* CTRL2 copies a control block to DATA2.  Once dma_crc32 has reconfigured it,
\* it copies to a variable on the stack and chains to nothing.
Ctrl2 ==
    /\ dma.ch = "ctrl2"
    /\ dma' = IF ~ctrl2_ok \/ Head(list2).kind = "null" THEN NoDma
              ELSE [ch |-> "data2", left |-> data, chain |-> Head(list2).chain]
    /\ list2' = Tail(list2)
    /\ UNCHANGED <<c0, list1, pong, ping_at, sniffed, pio, sniffing, core1, oe,
                   got, late>>

\* Mutant: transfers are not paced.
TransferUnpaced ==
    /\ dma.left # <<>>
    /\ fifo' = Append(fifo, Head(dma.left))
    /\ dma' = [dma EXCEPT !.left = Tail(@)]
    /\ sniffed' = IF dma.ch = "data2" /\ sniffed # Stale
                  THEN Append(sniffed, Head(dma.left)) ELSE sniffed
    /\ ping_at' = IF dma.ch = "ping" THEN ping_at + 1 ELSE ping_at
    /\ UNCHANGED <<c0, list1, list2, pong, sm, osr, pins, drive, irq, sniffing,
                   core1, oe, got, late>>

\* One byte into the TX FIFO, paced by its request line.
Transfer ==
    /\ dma.left # <<>>
    /\ Len(fifo) < FifoDepth
    /\ fifo' = Append(fifo, Head(dma.left))
    /\ dma' = [dma EXCEPT !.left = Tail(@)]
    /\ sniffed' = IF dma.ch = "data2" /\ sniffed # Stale
                  THEN Append(sniffed, Head(dma.left)) ELSE sniffed
    /\ ping_at' = IF dma.ch = "ping" THEN ping_at + 1 ELSE ping_at
    /\ UNCHANGED <<c0, list1, list2, pong, sm, osr, pins, drive, irq, sniffing,
                   core1, oe, got, late>>

\* A transfer is complete and triggers the channel it is chained to.
Chain ==
    /\ dma.ch \in {"data1", "data2", "ping"}
    /\ dma.left = <<>>
    /\ dma' = Trigger(dma.chain)
    /\ UNCHANGED <<c0, list1, list2, pong, ping_at, sniffed, pio, sniffing,
                   core1, oe, got, late>>

\* PONG writes the address of the busy word back into PING.
Pong ==
    /\ dma.ch = "pong"
    /\ ping_at' = 0
    /\ dma' = IF pong = "ping"
              THEN [ch |-> "ping", left |-> BusyCode, chain |-> "pong"]
              ELSE Trigger(pong)
    /\ UNCHANGED <<c0, list1, list2, pong, sniffed, pio, sniffing, core1, oe,
                   got, late>>

-----------------------------------------------------------------------------
(***************************************************************************)
(* The data out SM and the console                                         *)
(***************************************************************************)
\* pull block: the next byte of the FIFO, or the SM waits for one.
Pull(rest) ==
    /\ osr' = IF rest = <<>> THEN <<>> ELSE <<Head(rest)>>
    /\ fifo' = IF rest = <<>> THEN <<>> ELSE Tail(rest)

\* Timing of the board: an answer is started before the console reads, the
\* DMA is ahead of the console, and the handler is done with one read before
\* the next one begins.
InTime ==
    /\ core0 \in {"idle", "execute", "status", "chain"}
    /\ irq = FALSE /\ core1 = "idle"
    /\ dma = NoDma \/ Len(fifo) = FifoDepth

\* OE falls.  At the first read of an answer the SM turns the pins to outputs;
\* at every other one it raises the interrupt.  Then it puts the next byte out
\* and pulls the one after it.
OeLow ==
    /\ oe = "high"
    /\ InTime
    /\ oe' = "low"
    /\ \/ /\ sm = "first"
          /\ fifo # <<>>
          /\ sm' = "loop"
          /\ drive' = TRUE
          /\ pins' = Head(fifo)
          /\ Pull(Tail(fifo))
          /\ UNCHANGED irq
       \/ /\ sm = "loop" /\ osr # <<>>
          /\ irq' = TRUE
          /\ pins' = osr[1]
          /\ Pull(fifo)
          /\ UNCHANGED <<sm, drive>>
    /\ late' = IF pins' = BusyCode[1] /\ core0 = "idle" /\ late <= MaxLate
               THEN late + 1 ELSE late
    /\ UNCHANGED <<c0, dmav, sniffing, core1, got>>

\* OE rises and the console samples the bus.
OeHigh ==
    /\ oe = "low"
    /\ oe' = "high"
    /\ LET byte == IF drive THEN pins ELSE Rom
       IN  got' = IF got = BusyCode THEN <<byte>> ELSE Append(got, byte)
    /\ UNCHANGED <<c0, dmav, pio, sniffing, core1, late>>

-----------------------------------------------------------------------------
(***************************************************************************)
(* byte_out_irq_handler on core 1.  It comes to boot_rom_sniffers_start,   *)
(* which turns the pins to inputs, after the console has sampled the byte. *)
(***************************************************************************)
\* Mutant: the SM is not stopped.
HandlerNoStop ==
    /\ core1 = "idle" /\ irq
    /\ core1' = IF fifo = <<>> THEN "sniff" ELSE "clear"
    /\ UNCHANGED <<c0, dmav, pio, sniffing, oe, got, late>>

HandlerCheck ==
    /\ core1 = "idle" /\ irq
    /\ core1' = IF fifo = <<>> THEN "stop" ELSE "clear"
    /\ UNCHANGED <<c0, dmav, pio, sniffing, oe, got, late>>

\* boot_rom_data_out_stop
HandlerStop ==
    /\ core1 = "stop"
    /\ core1' = "sniff"
    /\ sm' = "off"
    /\ UNCHANGED <<c0, dmav, fifo, osr, pins, drive, irq, sniffing, oe, got, late>>

\* boot_rom_sniffers_start: the sniffer starts by making the pins inputs.
HandlerSniff ==
    /\ core1 = "sniff"
    /\ oe = "high"
    /\ core1' = "reset"
    /\ sniffing' = TRUE
    /\ drive' = FALSE
    /\ UNCHANGED <<c0, dmav, fifo, sm, osr, pins, irq, oe, got, late>>

\* boot_rom_data_out_reset: the OSR counts as empty again, the FIFO stays.
HandlerReset ==
    /\ core1 = "reset"
    /\ core1' = "clear"
    /\ osr' = <<>>
    /\ UNCHANGED <<c0, dmav, fifo, sm, pins, drive, irq, sniffing, oe, got, late>>

\* pio_interrupt_clear
HandlerClear ==
    /\ core1 = "clear"
    /\ core1' = "idle"
    /\ irq' = FALSE
    /\ UNCHANGED <<c0, dmav, fifo, sm, osr, pins, drive, sniffing, oe, got, late>>

-----------------------------------------------------------------------------
Init ==
    /\ core0 = "idle" /\ req = NoReq /\ code = "OK"
    /\ dma = NoDma /\ list1 = <<>> /\ list2 = <<>> /\ data = <<>>
    /\ ctrl2_ok = TRUE /\ pong = "ping" /\ ping_at = 0 /\ sniffed = Stale
    /\ fifo = <<>> /\ sm = "off" /\ osr = <<>> /\ pins = Rom /\ drive = FALSE
    /\ sniffing = TRUE /\ irq = FALSE
    /\ core1 = "idle" /\ oe = "high" /\ got = <<>> /\ late = 0

Core0 == Load \/ StartBusy \/ StartSm \/ Execute \/ StopBusyList
           \/ StopBusyChain
Dma   == Ctrl1 \/ Ctrl2 \/ Transfer \/ Chain \/ Pong
Core1 == HandlerCheck \/ HandlerStop \/ HandlerSniff \/ HandlerReset
           \/ HandlerClear
Bus   == OeLow \/ OeHigh

Next == (\E r \in Requests : Start(r)) \/ Core0 \/ Dma \/ Core1 \/ Bus

Spec == Init /\ [][Next]_vars

\* The chip never stops in the middle of a step of its own, and a console that
\* has asked for an answer reads it to the end.
FairSpec ==
    /\ Spec
    /\ WF_vars(Core0)
    /\ WF_vars(Dma)
    /\ WF_vars(Core1)
    /\ WF_vars(Bus)

-----------------------------------------------------------------------------
(***************************************************************************)
(* Properties                                                              *)
(***************************************************************************)
BytesOf(r) == Range(Status(r.code)) \cup Range(r.data) \cup Range(CrcOf(r.data))
Bytes == {ZERO, Rom} \cup Range(BusyCode) \cup Range(CrcOf(<<>>))
            \cup UNION {BytesOf(r) : r \in Requests}

\* The FIFO never takes more than it has room for (the DMA is paced by it),
\* PING never reads behind the busy word, and the lists end in a null block.
TypeOK ==
    /\ core0 \in {"idle", "load", "busy", "start", "execute", "status", "chain"}
    /\ req \in Requests \cup {NoReq}
    /\ dma \in [ch    : {"idle", "ctrl1", "ctrl2", "data1", "data2", "ping", "pong"},
               left  : Seq(Bytes),
               chain : {"none", "ctrl1", "ctrl2", "pong"}]
    /\ dma.ch = "ctrl1" => list1 # <<>>
    /\ dma.ch = "ctrl2" => list2 # <<>>
    /\ pong \in {"ping", "ctrl1"}
    /\ ping_at \in 0..WordSize
    /\ fifo \in Seq(Bytes) /\ Len(fifo) <= FifoDepth
    /\ sm \in {"off", "first", "loop"}
    /\ osr \in Seq(Bytes) /\ Len(osr) <= 1
    /\ pins \in Bytes
    /\ core1 \in {"idle", "stop", "sniff", "reset", "clear"}
    /\ oe \in {"low", "high"}
    /\ {drive, sniffing, irq, ctrl2_ok} \subseteq BOOLEAN

\* What the console has read is the beginning of the answer it asked for: no
\* byte is missing, doubled, out of order or left from the answer before, and
\* the words of a slow command are whole BUSY words until its status.
ReadsAnswer ==
    \/ IsPrefix(got, Answer)
    \/ IsSlow /\ IsPrefix(got, BusyCode)

\* Core 1 goes back to sniffing when the console has the whole answer, and the
\* dummy byte behind it is never seen: an empty FIFO is a sound sign of the end
\* (byte_out_irq_handler, CONTROL_BLOCK_EOT).
StopsAtEnd == [][(~sniffing /\ sniffing') => (got = Answer)]_vars

\* When commands can be received again, nothing is left over that would come
\* first in the next answer: the FIFO is empty, the DMA is at rest, PING is at
\* the start of the busy word and the SM is stopped.
CleanStart ==
    (core0 = "idle" /\ sniffing) =>
        fifo = <<>> /\ dma = NoDma /\ ping_at = 0 /\ sm = "off"

\* The shape of the data path, and its state between two answers.
PathInv == TypeOK /\ CleanStart

\* Once a slow command is over (boot_rom_data_out_stop_busy_code), the FIFO and
\* PING hold at most three more BUSY words: that many words at the most lie
\* between the end of the command and its status.  Commands relies on it.
StatusComesSoon == late <= MaxLate

\* Every command is answered and the console is listened to again.
AnswersEnd == (core0 # "idle") ~> (core0 = "idle" /\ sniffing)
=============================================================================
