---------------------------- MODULE WearLeveling ----------------------------
(***************************************************************************)
(* lib/wear_leveling: bytes that survive a power loss, kept in two flash   *)
(* sectors.  The first sector holds a consolidated copy of the bytes; the  *)
(* second one holds a hash of that copy, followed by a log of the writes   *)
(* made since.  A cache in RAM is the value of both.  When the log is      *)
(* full, both sectors are erased and the cache is written back.            *)
(*                                                                         *)
(* A write programs one 16 bit word of flash per log entry, and a          *)
(* consolidation is a sequence of erases and programs: power may fail      *)
(* between any two of them.  The module describes these steps; what the    *)
(* bytes are and who writes them is Settings.                              *)
(***************************************************************************)
EXTENDS Integers

CONSTANTS
    Size,       \* bytes in use at the start of the logical area
    Byte,       \* values of a byte
    LogSize,    \* words of the write log
    BatchLen    \* bytes of the consolidated copy programmed at a time

ASSUME WearLevelingAssumption ==
    /\ Size \in Nat \ {0}
    /\ LogSize \in Nat \ {0}
    /\ BatchLen \in Nat \ {0}
    /\ {0, 1} \subseteq Byte

Addr  == 0..(Size - 1)
Slots == 0..(LogSize - 1)
Bytes == [Addr -> Byte]
Zeros == [a \in Addr |-> 0]

\* A log entry is one byte (LOG_ENTRY_TYPE_OPTIMIZED_64), or the two bytes at
\* an even address of which the second is 0 (LOG_ENTRY_TYPE_WORD_01).  All
\* addresses are below 64, so the multi-byte entries are never used.
Entry   == [addr : Addr, val : Byte, word : BOOLEAN]
Empty   == [addr |-> -1]
Garbage == [addr |-> -2]
NoHash  == [a \in {} |-> 0]

VARIABLES
    data,    \* flash: the consolidated copy
    hash,    \* flash: what the hash was computed of
    log,     \* flash: the write log
    cache,   \* wear_leveling.cache
    waddr,   \* wear_leveling.write_address, in words of the log
    pc,      \* where the library is
    pos,     \* next address write_raw or write_consolidated handles
    stop     \* address at which write_raw ends

flash == <<data, hash, log>>

WearLevelingType ==
    /\ data \in Bytes
    /\ hash \in Bytes \cup {NoHash}
    /\ log \in [Slots -> Entry \cup {Empty}]
    /\ cache \in Bytes
    /\ waddr \in 0..LogSize
    /\ pos \in 0..Size
    /\ stop \in 0..Size

-----------------------------------------------------------------------------
(***************************************************************************)
(* What the flash holds                                                    *)
(***************************************************************************)

Covers(e, a)  == a = e.addr \/ (e.word /\ a = e.addr + 1)
ValueAt(e, a) == IF a = e.addr THEN e.val ELSE 0

\* Mutant of Consolidated: the hash is not looked at.
ConsolidatedUnchecked == data

\* wear_leveling_read_consolidated: the copy counts when its hash is right.
Consolidated == IF hash = data THEN data ELSE Zeros

\* The entries wear_leveling_playback_log reads: those before an empty slot.
Live(l, i) == \A j \in 0..i : l[j] # Empty

\* wear_leveling_playback_log, entry by entry: the cache after the first n
\* slots of the log.
PlaybackLoop[n \in 0..LogSize] ==
    IF n = 0 THEN Consolidated
    ELSE IF ~Live(log, n - 1) THEN PlaybackLoop[n - 1]
    ELSE [a \in Addr |-> IF Covers(log[n - 1], a) THEN ValueAt(log[n - 1], a)
                                                  ELSE PlaybackLoop[n - 1][a]]

\* Mutant of LastWrite: an entry is not overruled by a later one.
AnyWrite(l, i, a) == Live(l, i) /\ Covers(l[i], a)

\* The same without a loop: the last entry that covers an address decides.
LastWrite(l, i, a) ==
    /\ Live(l, i)
    /\ Covers(l[i], a)
    /\ \A j \in Slots : j > i => ~(Live(l, j) /\ Covers(l[j], a))

Replayed(l, base) ==
    [a \in Addr |-> IF \E i \in Slots : LastWrite(l, i, a)
                    THEN ValueAt(l[CHOOSE i \in Slots : LastWrite(l, i, a)], a)
                    ELSE base[a]]

\* The bytes the next wear_leveling_init finds.
Recovered == Replayed(log, Consolidated)

\* What it finds when the sector of the consolidated copy is erased and the
\* sector of the log is not.
LogAlone == Replayed(log, Zeros)

\* The first n slots of the log are in use.
FilledTo(l, n) == \A i \in Slots : l[i] # Empty <=> i < n

\* The first empty slot, where playback leaves write_address.
LogEnd == CHOOSE n \in 0..LogSize : \A i \in Slots : Live(log, i) <=> i < n

-----------------------------------------------------------------------------
(***************************************************************************)
(* Operations                                                              *)
(***************************************************************************)

\* Mutant of LogFull: > for >=.
LogOverrun(n) == n > LogSize

\* wear_leveling_consolidate_if_needed
LogFull(n) == n >= LogSize

\* Mutant of InitCache: write_address is left at the start of the log.
InitCacheAtStart(done) ==
    /\ cache' = Recovered
    /\ waddr' = 0
    /\ pc' = IF LogFull(LogEnd) THEN "erase_data" ELSE done
    /\ UNCHANGED <<flash, pos, stop>>

\* wear_leveling_init: backing_store_init, read_consolidated, playback_log.
InitCache(done) ==
    /\ cache' = Recovered
    /\ waddr' = LogEnd
    /\ pc' = IF LogFull(LogEnd) THEN "erase_data" ELSE done
    /\ UNCHANGED <<flash, pos, stop>>

\* wear_leveling_write of bytes first..last: the cache is updated, the log is
\* written by the steps that follow.
WriteBytes(first, last, value) ==
    /\ cache' = [a \in Addr |-> IF a \in first..last THEN value[a] ELSE cache[a]]
    /\ pos' = first
    /\ stop' = last + 1
    /\ pc' = "append"
    /\ UNCHANGED <<flash, waddr>>

\* wear_leveling_write_raw: a pair of bytes at an even address that reads as
\* the number 0 or 1 takes one entry, any other byte takes one of its own.
IsPair(p) == /\ stop - p >= 2
             /\ p % 2 = 0
             /\ cache[p] \in {0, 1}
             /\ cache[p + 1] = 0

\* Mutant of NextPos: a single byte moves the address like a pair.
NextPosByTwo == pos + 2

NextEntry == [addr |-> pos, val |-> cache[pos], word |-> IsPair(pos)]
NextPos   == IF IsPair(pos) THEN pos + 2 ELSE pos + 1

\* backing_store_write of one log word: programming a word that is not erased
\* leaves neither the old nor the new value.
LogWith(e) == [log EXCEPT ![waddr] = IF @ = Empty THEN e ELSE Garbage]

\* wear_leveling_append_raw of the next entry.  When it fills the log, the
\* cache is consolidated and the rest of the write is not logged any more.
Append(done) ==
    /\ pc = "append"
    /\ log' = LogWith(NextEntry)
    /\ waddr' = waddr + 1
    /\ pos' = NextPos
    /\ pc' = IF LogFull(waddr + 1) THEN "erase_data"
             ELSE IF NextPos < stop THEN "append" ELSE done
    /\ UNCHANGED <<data, hash, cache, stop>>

\* wear_leveling_consolidate_force: backing_store_erase erases two sectors,
\* the consolidated copy first.
EraseData ==
    /\ pc = "erase_data"
    /\ data' = Zeros
    /\ pc' = "erase_log"
    /\ UNCHANGED <<hash, log, cache, waddr, pos, stop>>

\* Mutant of EraseLog: the erase stops after the first sector.
EraseLogSkipped ==
    /\ pc = "erase_log"
    /\ pos' = 0
    /\ pc' = "program"
    /\ UNCHANGED <<flash, cache, waddr, stop>>

EraseLog ==
    /\ pc = "erase_log"
    /\ hash' = NoHash
    /\ log' = [i \in Slots |-> Empty]
    /\ pos' = 0
    /\ pc' = "program"
    /\ UNCHANGED <<data, cache, waddr, stop>>

\* wear_leveling_write_consolidated: the copy, in batches.
ProgramBatch ==
    /\ pc = "program"
    /\ pos < Size
    /\ data' = [a \in Addr |-> IF a \in pos..(pos + BatchLen - 1)
                               THEN cache[a] ELSE data[a]]
    /\ pos' = IF pos + BatchLen < Size THEN pos + BatchLen ELSE Size
    /\ UNCHANGED <<hash, log, cache, waddr, pc, stop>>

\* Then the hash of the cache; the log starts over.
ProgramHash(done) ==
    /\ pc = "program"
    /\ pos = Size
    /\ hash' = cache
    /\ waddr' = 0
    /\ pc' = done
    /\ UNCHANGED <<data, log, cache, pos, stop>>
=============================================================================
