--------------------------- MODULE Settings_proofs --------------------------
(***************************************************************************)
(* Proofs about Settings: what the flash holds at every step of the wear   *)
(* leveling library, for every layout of the settings and size of the log. *)
(*                                                                         *)
(* The argument is about two byte arrays: Recovered, what a restart would  *)
(* find now, and LogAlone, what it would find with the consolidated copy   *)
(* erased.  Lemmas say what each flash operation does to the two; the      *)
(* invariants relate them to the cache.                                    *)
(***************************************************************************)
EXTENDS Settings, WellFoundedInduction, TLAPS

Logs == [Slots -> Entry \cup {Empty}]

LEMMA Arithmetic ==
    /\ Size \in Nat /\ Size > 0
    /\ LogSize \in Nat /\ LogSize > 0
    /\ BatchLen \in Nat /\ BatchLen > 0
    /\ 0 \in Byte /\ 1 \in Byte
BY WearLevelingAssumption

-----------------------------------------------------------------------------
(***************************************************************************)
(* Playback of a log                                                       *)
(***************************************************************************)

LEMMA EntryNotEmpty == \A e \in Entry : e # Empty
<1> SUFFICES ASSUME NEW e \in Entry, e = Empty PROVE FALSE
    OBVIOUS
<1>1. e.addr \in Addr
    BY DEF Entry
<1>2. e.addr = -1
    BY DEF Empty
<1> QED BY <1>1, <1>2, Arithmetic DEF Addr

\* In a log without holes, the entries played back are the slots in use.
LEMMA LiveFilled ==
    ASSUME NEW l, NEW n \in 0..LogSize, FilledTo(l, n), NEW i \in Slots
    PROVE  Live(l, i) <=> i < n
BY Arithmetic DEF Live, FilledTo, Slots

LEMMA FilledUnique ==
    ASSUME NEW l, NEW m \in 0..LogSize, NEW n \in 0..LogSize,
           \A i \in Slots : Live(l, i) <=> i < m,
           \A i \in Slots : Live(l, i) <=> i < n
    PROVE  m = n
<1>1. CASE m < n
    <2>1. m \in Slots
        BY <1>1, Arithmetic DEF Slots
    <2> QED BY <1>1, <2>1, Arithmetic
<1>2. CASE n < m
    <2>1. n \in Slots
        BY <1>2, Arithmetic DEF Slots
    <2> QED BY <1>2, <2>1, Arithmetic
<1> QED BY <1>1, <1>2, Arithmetic

\* wear_leveling_playback_log leaves write_address at the first free slot.
LEMMA LogEndFilled ==
    ASSUME NEW n \in 0..LogSize, FilledTo(log, n)
    PROVE  LogEnd = n
<1> DEFINE P(m) == \A i \in Slots : Live(log, i) <=> i < m
<1>1. P(n)
    BY LiveFilled
<1>2. \E m \in 0..LogSize : P(m)
    BY <1>1
<1>3. LogEnd = CHOOSE m \in 0..LogSize : P(m)
    BY DEF LogEnd
<1> HIDE DEF P
<1>4. LogEnd \in 0..LogSize /\ P(LogEnd)
    BY <1>2, <1>3
<1> QED BY <1>1, <1>4, FilledUnique DEF P

LEMMA LastWriteValue ==
    ASSUME NEW l, NEW base, NEW a \in Addr, NEW i \in Slots, LastWrite(l, i, a)
    PROVE  Replayed(l, base)[a] = ValueAt(l[i], a)
<1> DEFINE c == CHOOSE j \in Slots : LastWrite(l, j, a)
<1>1. c \in Slots /\ LastWrite(l, c, a)
    OBVIOUS
<1> HIDE DEF c
<1>2. c = i
    <2>1. ~(c > i)
        BY <1>1 DEF LastWrite
    <2>2. ~(i > c)
        BY <1>1 DEF LastWrite
    <2> QED BY <1>1, <2>1, <2>2, Arithmetic DEF Slots
<1>3. Replayed(l, base)[a] = ValueAt(l[c], a)
    BY DEF Replayed, c
<1> QED BY <1>2, <1>3

LEMMA NoWriteValue ==
    ASSUME NEW l, NEW base, NEW a \in Addr, \A i \in Slots : ~LastWrite(l, i, a)
    PROVE  Replayed(l, base)[a] = base[a]
BY DEF Replayed

LEMMA ReplayedType ==
    ASSUME NEW l \in Logs, NEW base \in Bytes
    PROVE  Replayed(l, base) \in Bytes
<1>1. ASSUME NEW a \in Addr PROVE Replayed(l, base)[a] \in Byte
    <2>1. CASE \E i \in Slots : LastWrite(l, i, a)
        <3>1. PICK i \in Slots : LastWrite(l, i, a)
            BY <2>1
        <3>2. i \in 0..i
            BY Arithmetic DEF Slots
        <3>3. l[i] # Empty
            BY <3>1, <3>2 DEF LastWrite, Live
        <3>4. l[i] \in Entry
            BY <3>3 DEF Logs
        <3>5. l[i].val \in Byte
            BY <3>4 DEF Entry
        <3>6. ValueAt(l[i], a) \in Byte
            BY <3>5, Arithmetic DEF ValueAt
        <3> QED BY <3>1, <3>6, LastWriteValue
    <2>2. CASE \A i \in Slots : ~LastWrite(l, i, a)
        BY <2>2, NoWriteValue DEF Bytes
    <2> QED BY <2>1, <2>2
<1>2. Replayed(l, base) = [a \in Addr |-> Replayed(l, base)[a]]
    BY DEF Replayed
<1> QED BY <1>1, <1>2 DEF Bytes

LEMMA EmptyReplayed ==
    ASSUME NEW l, FilledTo(l, 0), NEW base \in Bytes
    PROVE  Replayed(l, base) = base
<1>1. ASSUME NEW i \in Slots, NEW a PROVE ~LastWrite(l, i, a)
    <2>1. ~Live(l, i)
        BY LiveFilled, Arithmetic DEF Slots
    <2> QED BY <2>1 DEF LastWrite
<1>2. \A a \in Addr : Replayed(l, base)[a] = base[a]
    BY <1>1, NoWriteValue
<1>3. Replayed(l, base) = [a \in Addr |-> Replayed(l, base)[a]]
    BY DEF Replayed
<1> QED BY <1>2, <1>3 DEF Bytes

\* Without the consolidated copy, a byte is what it was or 0.
LEMMA LogAloneOrZero ==
    ASSUME NEW l, NEW base, NEW a \in Addr
    PROVE  Replayed(l, Zeros)[a] \in {Replayed(l, base)[a], 0}
<1>1. CASE \E i \in Slots : LastWrite(l, i, a)
    <2>1. PICK i \in Slots : LastWrite(l, i, a)
        BY <1>1
    <2> QED BY <2>1, LastWriteValue
<1>2. CASE \A i \in Slots : ~LastWrite(l, i, a)
    BY <1>2, NoWriteValue DEF Zeros
<1> QED BY <1>1, <1>2

\* One more entry changes the bytes it covers and no other.
LEMMA AppendedFilled ==
    ASSUME NEW l \in Logs, NEW n \in Slots, FilledTo(l, n), NEW e \in Entry
    PROVE  FilledTo([l EXCEPT ![n] = e], n + 1)
BY EntryNotEmpty, Arithmetic DEF FilledTo, Slots, Logs

LEMMA AppendedReplayed ==
    ASSUME NEW l \in Logs, NEW n \in Slots, FilledTo(l, n), NEW e \in Entry,
           NEW base, NEW a \in Addr
    PROVE  Replayed([l EXCEPT ![n] = e], base)[a] =
               IF Covers(e, a) THEN ValueAt(e, a) ELSE Replayed(l, base)[a]
<1> DEFINE m == [l EXCEPT ![n] = e]
<1>0. n \in 0..LogSize /\ n + 1 \in 0..LogSize
    BY Arithmetic DEF Slots
<1>1. \A i \in Slots : Live(l, i) <=> i < n
    BY <1>0, LiveFilled
<1>2. \A i \in Slots : Live(m, i) <=> i < n + 1
    BY <1>0, LiveFilled, AppendedFilled
<1>3. m[n] = e /\ \A i \in Slots \ {n} : m[i] = l[i]
    BY DEF Logs
<1>i. \A i \in Slots : i \in Int
    BY Arithmetic DEF Slots
<1> HIDE DEF m
<1>4. CASE Covers(e, a)
    <2>1. LastWrite(m, n, a)
        BY <1>2, <1>3, <1>4, <1>i DEF LastWrite
    <2>2. Replayed(m, base)[a] = ValueAt(e, a)
        BY <2>1, <1>3, LastWriteValue
    <2> QED BY <2>2, <1>4 DEF m
<1>5. CASE ~Covers(e, a)
    <2>1. ASSUME NEW i \in Slots PROVE LastWrite(m, i, a) <=> LastWrite(l, i, a)
        BY <1>1, <1>2, <1>3, <1>5, <1>i DEF LastWrite
    <2>2. CASE \E i \in Slots : LastWrite(l, i, a)
        <3>1. PICK i \in Slots : LastWrite(l, i, a)
            BY <2>2
        <3>2. i # n
            BY <3>1, <1>1, <1>i DEF LastWrite
        <3>3. Replayed(m, base)[a] = ValueAt(m[i], a)
            BY <3>1, <2>1, LastWriteValue
        <3>4. Replayed(l, base)[a] = ValueAt(l[i], a)
            BY <3>1, LastWriteValue
        <3> QED BY <3>2, <3>3, <3>4, <1>3, <1>5 DEF m
    <2>3. CASE \A i \in Slots : ~LastWrite(l, i, a)
        <3>1. Replayed(m, base)[a] = base[a]
            BY <2>1, <2>3, NoWriteValue
        <3>2. Replayed(l, base)[a] = base[a]
            BY <2>3, NoWriteValue
        <3> QED BY <3>1, <3>2, <1>5 DEF m
    <2> QED BY <2>2, <2>3
<1> QED BY <1>4, <1>5

-----------------------------------------------------------------------------
(***************************************************************************)
(* The playback loop.  Induction over its steps is by the first step that  *)
(* would give something else: n slots leave what a log of these slots does.*)
(***************************************************************************)

\* A set of numbers that is not empty has a smallest one.
LEMMA LeastNumber ==
    ASSUME NEW T \in SUBSET Nat, T # {}
    PROVE  \E n \in T : \A m \in T : n <= m
<1> DEFINE less == OpToRel(<, Nat)
<1>1. IsWellFoundedOn(less, Nat)
    BY Zenon, NatLessThanWellFounded
<1>2. \A m \in Nat, n \in Nat : m < n => <<m, n>> \in less
    BY DEF OpToRel
<1> HIDE DEF less
<1>3. PICK n \in T : \A m \in T : ~(<<m, n>> \in less)
    BY <1>1, WFMin
<1>4. \A m \in T : ~(m < n)
    BY <1>2, <1>3
<1> QED BY <1>3, <1>4

\* What the playback of n slots makes of the cache before.
LoopStep(f, n) ==
    IF n = 0 THEN Consolidated
    ELSE IF ~Live(log, n - 1) THEN f[n - 1]
    ELSE [a \in Addr |-> IF Covers(log[n - 1], a) THEN ValueAt(log[n - 1], a)
                                                  ELSE f[n - 1][a]]

\* The code's loop, as the recursion it is.
LEMMA LoopDef ==
    PlaybackLoop = CHOOSE f : f = [n \in 0..LogSize |-> LoopStep(f, n)]
BY DEF PlaybackLoop, LoopStep

\* The recursion has one solution.
LEMMA OneLoop ==
    ASSUME NEW f, NEW g, f = [n \in 0..LogSize |-> LoopStep(f, n)],
           g = [n \in 0..LogSize |-> LoopStep(g, n)]
    PROVE  f = g
<1> DEFINE T == {n \in 0..LogSize : f[n] # g[n]}
<1>1. CASE T = {}
    BY <1>1
<1>2. CASE T # {}
    <2>1. T \in SUBSET Nat
        BY Arithmetic
    <2>2. PICK n \in T : \A m \in T : n <= m
        BY <1>2, <2>1, LeastNumber
    <2>3. n \in 0..LogSize /\ f[n] = LoopStep(f, n) /\ g[n] = LoopStep(g, n) /\ f[n] # g[n]
        OBVIOUS
    <2>4. n = 0 \/ (n - 1 \in 0..LogSize /\ n - 1 < n)
        BY <2>3, Arithmetic
    <2>5. n # 0 => f[n - 1] = g[n - 1]
        BY <2>2, <2>4, Arithmetic
    <2>6. LoopStep(f, n) = LoopStep(g, n)
        BY <2>5 DEF LoopStep
    <2> QED BY <2>3, <2>6
<1> QED BY <1>1, <1>2

\* The first n slots of a log.
Truncated(l, n) == [i \in Slots |-> IF i < n THEN l[i] ELSE Empty]

\* Its entries are those of the log, as far as they go.
LEMMA TruncatedLive ==
    ASSUME NEW l \in Logs, NEW n \in 0..LogSize
    PROVE  /\ Truncated(l, n) \in Logs
           /\ \A i \in Slots : Live(Truncated(l, n), i) <=> i < n /\ Live(l, i)
           /\ \A i \in Slots : i < n => Truncated(l, n)[i] = l[i]
           /\ n = LogSize => Truncated(l, n) = l
           /\ n = 0 => FilledTo(Truncated(l, n), 0)
<1>1. Truncated(l, n) \in Logs /\ n \in Nat
    BY Arithmetic DEF Truncated, Logs
<1>2. \A i \in Slots : Truncated(l, n)[i] = IF i < n THEN l[i] ELSE Empty
    BY DEF Truncated
<1>3. \A i \in Slots : i \in Nat /\ i < LogSize /\ \A j \in 0..i : j \in Slots /\ j <= i
    BY Arithmetic DEF Slots
<1>4. ASSUME NEW i \in Slots PROVE Live(Truncated(l, n), i) <=> i < n /\ Live(l, i)
    <2>1. CASE i < n
        <3>1. \A j \in 0..i : Truncated(l, n)[j] = l[j]
            BY <1>1, <1>2, <1>3, <2>1
        <3> QED BY <2>1, <3>1 DEF Live
    <2>2. CASE ~(i < n)
        <3>1. i \in 0..i /\ Truncated(l, n)[i] = Empty
            BY <1>2, <1>3, <2>2
        <3> QED BY <2>2, <3>1 DEF Live
    <2> QED BY <2>1, <2>2
<1>5. n = LogSize => Truncated(l, n) = l
    <2>1. n = LogSize => \A i \in Slots : Truncated(l, n)[i] = l[i]
        BY <1>2, <1>3
    <2> QED BY <1>1, <2>1 DEF Logs
<1>6. n = 0 => FilledTo(Truncated(l, n), 0)
    BY <1>2, <1>3 DEF FilledTo
<1> QED BY <1>1, <1>2, <1>4, <1>5, <1>6

\* A slot that is not live changes nothing.
LEMMA DeadSlot ==
    ASSUME NEW l \in Logs, NEW n \in 1..LogSize, ~Live(l, n - 1), NEW base
    PROVE  Replayed(Truncated(l, n), base) = Replayed(Truncated(l, n - 1), base)
<1> DEFINE t == Truncated(l, n)
           u == Truncated(l, n - 1)
<1>1. n \in 0..LogSize /\ n - 1 \in 0..LogSize /\ n - 1 \in Slots
    BY Arithmetic DEF Slots
<1>2. \A i \in Slots : i \in Nat /\ (i < n <=> i < n - 1 \/ i = n - 1)
    BY <1>1, Arithmetic DEF Slots
<1>3. /\ \A i \in Slots : Live(t, i) <=> i < n /\ Live(l, i)
      /\ \A i \in Slots : i < n => t[i] = l[i]
    BY <1>1, TruncatedLive
<1>4. /\ \A i \in Slots : Live(u, i) <=> i < n - 1 /\ Live(l, i)
      /\ \A i \in Slots : i < n - 1 => u[i] = l[i]
    BY <1>1, TruncatedLive
<1> HIDE DEF t, u
<1>5. \A i \in Slots : (Live(t, i) <=> Live(u, i)) /\ (Live(t, i) => t[i] = u[i])
    BY <1>2, <1>3, <1>4
<1>6. ASSUME NEW a \in Addr, NEW i \in Slots PROVE LastWrite(t, i, a) <=> LastWrite(u, i, a)
    BY <1>5 DEF LastWrite
<1>7. ASSUME NEW a \in Addr PROVE Replayed(t, base)[a] = Replayed(u, base)[a]
    <2>1. CASE \E i \in Slots : LastWrite(t, i, a)
        <3>1. PICK i \in Slots : LastWrite(t, i, a)
            BY <2>1
        <3>2. LastWrite(u, i, a) /\ t[i] = u[i]
            BY <1>5, <1>6, <3>1 DEF LastWrite
        <3> QED BY <3>1, <3>2, LastWriteValue
    <2>2. CASE \A i \in Slots : ~LastWrite(t, i, a)
        <3>1. \A i \in Slots : ~LastWrite(u, i, a)
            BY <1>6, <2>2
        <3> QED BY <2>2, <3>1, NoWriteValue
    <2> QED BY <2>1, <2>2
<1>8. /\ Replayed(t, base) = [a \in Addr |-> Replayed(t, base)[a]]
      /\ Replayed(u, base) = [a \in Addr |-> Replayed(u, base)[a]]
    BY DEF Replayed
<1>9. Replayed(t, base) = Replayed(u, base)
    BY <1>7, <1>8
<1> QED BY <1>9 DEF t, u

\* A live one writes the bytes it covers.
LEMMA LiveSlot ==
    ASSUME NEW l \in Logs, NEW n \in 1..LogSize, Live(l, n - 1), NEW base
    PROVE  Replayed(Truncated(l, n), base) =
               [a \in Addr |-> IF Covers(l[n - 1], a) THEN ValueAt(l[n - 1], a)
                               ELSE Replayed(Truncated(l, n - 1), base)[a]]
<1> DEFINE t == Truncated(l, n)
           u == Truncated(l, n - 1)
           e == l[n - 1]
<1>1. n \in 0..LogSize /\ n - 1 \in 0..LogSize /\ n - 1 \in Slots
    BY Arithmetic DEF Slots
<1>2. \A i \in Slots : i \in 0..(n - 1) <=> i < n
    BY <1>1, Arithmetic DEF Slots
<1>3. \A i \in 0..(n - 1) : i \in Slots /\ l[i] # Empty
    BY <1>1, Arithmetic DEF Live, Slots
<1>4. e \in Entry
    <2>1. n - 1 \in 0..(n - 1)
        BY <1>1, Arithmetic
    <2> QED BY <1>3, <2>1 DEF Logs
<1>5. u \in Logs /\ FilledTo(u, n - 1)
    <2>1. u \in Logs
        BY <1>1, TruncatedLive
    <2>2. \A i \in Slots : u[i] = IF i < n - 1 THEN l[i] ELSE Empty
        BY DEF Truncated
    <2>3. \A i \in Slots : i < n - 1 => i \in 0..(n - 1)
        BY <1>1, Arithmetic DEF Slots
    <2> QED BY <1>3, <2>1, <2>2, <2>3 DEF FilledTo
<1>6. t = [u EXCEPT ![n - 1] = e]
    <2>1. \A i \in Slots : i < n <=> i < n - 1 \/ i = n - 1
        BY <1>1, Arithmetic DEF Slots
    <2>2. \A i \in Slots : t[i] = [u EXCEPT ![n - 1] = e][i]
        BY <1>1, <2>1, Arithmetic DEF Truncated, Slots
    <2>3. t = [i \in Slots |-> t[i]]
        BY DEF Truncated
    <2>4. [u EXCEPT ![n - 1] = e] = [i \in Slots |-> [u EXCEPT ![n - 1] = e][i]]
        BY DEF Truncated
    <2> QED BY <2>2, <2>3, <2>4
<1> HIDE DEF t, u, e
<1>7. \A a \in Addr : Replayed(t, base)[a] =
          IF Covers(e, a) THEN ValueAt(e, a) ELSE Replayed(u, base)[a]
    <2>1. PICK k \in Slots : k = n - 1
        BY <1>1
    <2>2. u \in Logs /\ FilledTo(u, k) /\ e \in Entry /\ t = [u EXCEPT ![k] = e]
        BY <1>4, <1>5, <1>6, <2>1
    <2> SUFFICES ASSUME NEW a \in Addr
                 PROVE  Replayed(t, base)[a] =
                            IF Covers(e, a) THEN ValueAt(e, a) ELSE Replayed(u, base)[a]
        OBVIOUS
    <2>3. PICK w \in Logs, x \in Entry : w = u /\ x = e /\ FilledTo(w, k)
        BY <2>2
    <2>4. Replayed([w EXCEPT ![k] = x], base)[a] =
              IF Covers(x, a) THEN ValueAt(x, a) ELSE Replayed(w, base)[a]
        BY <2>3, AppendedReplayed
    <2>5. t = [w EXCEPT ![k] = x]
        BY <2>2, <2>3
    <2> QED BY <2>3, <2>4, <2>5
<1>8. Replayed(t, base) = [a \in Addr |-> Replayed(t, base)[a]]
    BY DEF Replayed
<1>9. Replayed(t, base) =
          [a \in Addr |-> IF Covers(e, a) THEN ValueAt(e, a) ELSE Replayed(u, base)[a]]
    BY <1>7, <1>8
<1> QED BY <1>9 DEF t, u, e

\* After n slots the loop has the last writes of these.
LEMMA LoopIsReplayed ==
    ASSUME log \in Logs, Consolidated \in Bytes
    PROVE  PlaybackLoop[LogSize] = Recovered
<1> DEFINE g == [n \in 0..LogSize |-> Replayed(Truncated(log, n), Consolidated)]
<1>1. ASSUME NEW n \in 0..LogSize PROVE g[n] = LoopStep(g, n)
    <2>1. CASE n = 0
        <3>1. Replayed(Truncated(log, 0), Consolidated) = Consolidated
            BY <2>1, TruncatedLive, EmptyReplayed
        <3> QED BY <2>1, <3>1 DEF LoopStep
    <2>2. CASE n # 0
        <3>1. n \in 1..LogSize /\ n - 1 \in 0..LogSize
            BY <2>2, Arithmetic
        <3>2. g[n - 1] = Replayed(Truncated(log, n - 1), Consolidated)
            BY <3>1
        <3>3. g[n] = Replayed(Truncated(log, n), Consolidated)
            OBVIOUS
        <3> HIDE DEF g
        <3>4. CASE Live(log, n - 1)
            BY <2>2, <3>1, <3>2, <3>3, <3>4, LiveSlot DEF LoopStep
        <3>5. CASE ~Live(log, n - 1)
            BY <2>2, <3>1, <3>2, <3>3, <3>5, DeadSlot DEF LoopStep
        <3> QED BY <3>4, <3>5
    <2> QED BY <2>1, <2>2
<1>2. g[LogSize] = Recovered
    <2>1. LogSize \in 0..LogSize
        BY Arithmetic
    <2>2. Truncated(log, LogSize) = log
        BY <2>1, TruncatedLive
    <2> QED BY <2>1, <2>2 DEF Recovered
<1>3. g = [n \in 0..LogSize |-> g[n]]
    OBVIOUS
<1> HIDE DEF g
<1>4. g = [n \in 0..LogSize |-> LoopStep(g, n)]
    BY <1>1, <1>3
<1>5. PlaybackLoop = [n \in 0..LogSize |-> LoopStep(PlaybackLoop, n)]
    BY <1>4, LoopDef
<1>6. PlaybackLoop = g
    BY <1>4, <1>5, OneLoop
<1> QED BY <1>2, <1>6

-----------------------------------------------------------------------------
LEMMA NoHashOfNothing == NoHash \notin Bytes /\ Zeros \in Bytes
<1>1. DOMAIN NoHash = {}
    BY DEF NoHash
<1>2. 0 \in Addr
    BY Arithmetic DEF Addr
<1> QED BY <1>1, <1>2, Arithmetic DEF Bytes, Zeros

-----------------------------------------------------------------------------
(***************************************************************************)
(* The invariants                                                          *)
(***************************************************************************)

\* The log is filled from its start, in every state.
FlashInv == \E n \in 0..LogSize : FilledTo(log, n)

\* What the library relies on when it programs flash.
WriteInv ==
    /\ pc \in {"check", "append", "idle"} => waddr < LogSize /\ FilledTo(log, waddr)
    /\ pc = "append" => pos < stop /\ op # "init"
    /\ pc = "erase_log" => data = Zeros
    /\ pc = "program" => /\ FilledTo(log, 0)
                         /\ hash = NoHash
                         /\ \A a \in Addr : data[a] = IF a < pos THEN cache[a] ELSE 0

\* The flash has what the cache has, but for the bytes still to be logged.
CacheInv ==
    /\ pc \in {"check", "idle"} => Recovered = cache
    /\ pc = "append" => \A a \in Addr : a \notin pos..(stop - 1) => Recovered[a] = cache[a]

Inv == TypeOK /\ FlashInv /\ WriteInv /\ CacheInv

-----------------------------------------------------------------------------
(***************************************************************************)
(* What the operations of the library do to the bytes in flash             *)
(***************************************************************************)

LEMMA BytesTypes ==
    ASSUME TypeOK
    PROVE  /\ Consolidated \in Bytes
           /\ Recovered \in Bytes
           /\ LogAlone \in Bytes
<1>1. Consolidated \in Bytes
    BY NoHashOfNothing DEF TypeOK, WearLevelingType, Consolidated
<1>2. log \in Logs
    BY DEF TypeOK, WearLevelingType, Logs
<1> QED BY <1>1, <1>2, ReplayedType, NoHashOfNothing DEF Recovered, LogAlone

LEMMA FlashKept ==
    ASSUME UNCHANGED flash
    PROVE  /\ Recovered' = Recovered
           /\ LogAlone' = LogAlone
           /\ FlashInv' = FlashInv
           /\ \A n : FilledTo(log, n)' = FilledTo(log, n)
           /\ LogEnd' = LogEnd
BY DEF flash, Recovered, LogAlone, Consolidated, FlashInv, Replayed, LastWrite,
       Live, FilledTo, LogEnd

\* The next entry is the bytes from pos to NextPos, as the cache has them.
LEMMA NextEntryCovers ==
    ASSUME TypeOK, pos < stop
    PROVE  /\ pos \in Addr
           /\ NextEntry \in Entry
           /\ NextPos \in (pos + 1)..stop
           /\ \A a \in Addr : Covers(NextEntry, a) <=> a \in pos..(NextPos - 1)
           /\ \A a \in Addr : Covers(NextEntry, a) => ValueAt(NextEntry, a) = cache[a]
<1>1. pos \in 0..Size /\ stop \in 0..Size /\ cache \in Bytes
    BY DEF TypeOK, WearLevelingType
<1>2. pos \in Addr
    BY <1>1, Arithmetic DEF Addr
<1>3. IsPair(pos) \in BOOLEAN
    BY DEF IsPair
<1>4. cache[pos] \in Byte
    BY <1>1, <1>2 DEF Bytes
<1>5. NextEntry \in Entry
    BY <1>2, <1>3, <1>4 DEF NextEntry, Entry
<1>6. NextEntry.addr = pos /\ NextEntry.val = cache[pos] /\ NextEntry.word = IsPair(pos)
    BY DEF NextEntry
<1>7. CASE IsPair(pos)
    <2>1. stop - pos >= 2 /\ cache[pos + 1] = 0
        BY <1>7 DEF IsPair
    <2>2. NextPos = pos + 2
        BY <1>7 DEF NextPos
    <2>3. NextPos \in (pos + 1)..stop
        BY <1>1, <2>1, <2>2, Arithmetic
    <2>4. \A a \in Addr : Covers(NextEntry, a) <=> a \in pos..(NextPos - 1)
        BY <1>1, <1>6, <1>7, <2>2, Arithmetic DEF Covers, Addr
    <2>5. \A a \in Addr : Covers(NextEntry, a) => ValueAt(NextEntry, a) = cache[a]
        BY <1>6, <1>7, <2>1 DEF Covers, ValueAt
    <2> QED BY <1>2, <1>5, <2>3, <2>4, <2>5
<1>8. CASE ~IsPair(pos)
    <2>2. NextPos = pos + 1
        BY <1>8 DEF NextPos
    <2>3. NextPos \in (pos + 1)..stop
        BY <1>1, <2>2, Arithmetic
    <2>4. \A a \in Addr : Covers(NextEntry, a) <=> a \in pos..(NextPos - 1)
        BY <1>1, <1>6, <1>8, <2>2, Arithmetic DEF Covers, Addr
    <2>5. \A a \in Addr : Covers(NextEntry, a) => ValueAt(NextEntry, a) = cache[a]
        BY <1>6, <1>8 DEF Covers, ValueAt
    <2> QED BY <1>2, <1>5, <2>3, <2>4, <2>5
<1> QED BY <1>7, <1>8

LEMMA AppendStep ==
    ASSUME TypeOK, WriteInv, Append(Return)
    PROVE  /\ pos \in Addr /\ pos < stop
           /\ pos' = NextPos /\ NextPos \in (pos + 1)..stop
           /\ waddr \in Slots
           /\ log' \in Logs
           /\ FilledTo(log', waddr + 1)
           /\ Recovered' \in Bytes /\ LogAlone' \in Bytes
           /\ \A a \in Addr : Recovered'[a] =
                  IF a \in pos..(NextPos - 1) THEN cache[a] ELSE Recovered[a]
           /\ \A a \in Addr : LogAlone'[a] =
                  IF a \in pos..(NextPos - 1) THEN cache[a] ELSE LogAlone[a]
<1>1. pc = "append" /\ pos < stop /\ waddr < LogSize /\ FilledTo(log, waddr)
    BY DEF Append, WriteInv
<1>2. log \in Logs /\ waddr \in Slots
    BY <1>1, Arithmetic DEF TypeOK, WearLevelingType, Logs, Slots
<1>3. log[waddr] = Empty
    BY <1>1, <1>2 DEF FilledTo, Slots
<1>4. log' = [log EXCEPT ![waddr] = NextEntry]
    BY <1>3 DEF Append, LogWith
<1>5. NextEntry \in Entry
    BY <1>1, NextEntryCovers
<1>6. log' \in Logs
    BY <1>2, <1>4, <1>5 DEF Logs
<1>7. FilledTo(log', waddr + 1)
    BY <1>1, <1>2, <1>4, <1>5, AppendedFilled
<1>8. Consolidated' = Consolidated
    BY DEF Append, Consolidated
<1>9. Recovered' = Replayed(log', Consolidated) /\ LogAlone' = Replayed(log', Zeros)
    BY <1>8 DEF Recovered, LogAlone, Zeros, Replayed, LastWrite, Live
<1>e. ASSUME NEW base, NEW a \in Addr
      PROVE  Replayed(log', base)[a] =
                 IF Covers(NextEntry, a) THEN ValueAt(NextEntry, a)
                                         ELSE Replayed(log, base)[a]
    <2>1. Replayed([log EXCEPT ![waddr] = NextEntry], base)[a] =
              IF Covers(NextEntry, a) THEN ValueAt(NextEntry, a)
                                      ELSE Replayed(log, base)[a]
        <3>1. log \in Logs /\ waddr \in Slots /\ FilledTo(log, waddr) /\ NextEntry \in Entry
            BY <1>1, <1>2, <1>5
        <3> QED BY <3>1, AppendedReplayed
    <2> QED BY <1>4, <2>1
<1>10. \A a \in Addr : Replayed(log', Consolidated)[a] =
           IF Covers(NextEntry, a) THEN ValueAt(NextEntry, a)
                                   ELSE Replayed(log, Consolidated)[a]
    BY <1>e
<1>11. \A a \in Addr : Replayed(log', Zeros)[a] =
           IF Covers(NextEntry, a) THEN ValueAt(NextEntry, a)
                                   ELSE Replayed(log, Zeros)[a]
    BY <1>e
<1>13. Recovered = Replayed(log, Consolidated) /\ LogAlone = Replayed(log, Zeros)
    BY DEF Recovered, LogAlone
<1>14. \A a \in Addr : Covers(NextEntry, a) <=> a \in pos..(NextPos - 1)
    BY <1>1, NextEntryCovers
<1>15. \A a \in Addr : Covers(NextEntry, a) => ValueAt(NextEntry, a) = cache[a]
    BY <1>1, NextEntryCovers
<1>16. \A a \in Addr : Recovered'[a] =
           IF a \in pos..(NextPos - 1) THEN cache[a] ELSE Recovered[a]
    BY <1>9, <1>10, <1>13, <1>14, <1>15
<1>17. \A a \in Addr : LogAlone'[a] =
           IF a \in pos..(NextPos - 1) THEN cache[a] ELSE LogAlone[a]
    BY <1>9, <1>11, <1>13, <1>14, <1>15
<1>12. pos' = NextPos
    BY DEF Append
<1>18. Recovered' \in Bytes /\ LogAlone' \in Bytes
    BY <1>6, <1>9, BytesTypes, ReplayedType, NoHashOfNothing
<1> QED BY <1>1, <1>2, <1>6, <1>7, <1>12, <1>16, <1>17, <1>18, NextEntryCovers

LEMMA EraseDataStep ==
    ASSUME TypeOK, EraseData
    PROVE  Recovered' = LogAlone /\ LogAlone' = LogAlone
<1>1. Consolidated' = Zeros
    BY DEF EraseData, Consolidated
<1>2. log' = log
    BY DEF EraseData
<1> QED BY <1>1, <1>2 DEF Recovered, LogAlone, Zeros, Replayed, LastWrite, Live

\* A copy without a hash does not count.
LEMMA NothingRecovered ==
    ASSUME TypeOK, FilledTo(log, 0), hash = NoHash
    PROVE  Recovered = Zeros /\ LogAlone = Zeros
<1>1. Consolidated = Zeros
    BY NoHashOfNothing DEF TypeOK, WearLevelingType, Consolidated
<1> QED BY <1>1, EmptyReplayed, NoHashOfNothing DEF Recovered, LogAlone

LEMMA ProgramHashStep ==
    ASSUME TypeOK, WriteInv, ProgramHash(Return)
    PROVE  /\ Recovered' = cache
           /\ LogAlone' = Zeros
           /\ FilledTo(log', 0)
<1>1. /\ pc = "program" /\ pos = Size /\ hash' = cache
      /\ data' = data /\ log' = log
    BY DEF ProgramHash
<1>2. FilledTo(log', 0)
    BY <1>1 DEF WriteInv
<1>3. data \in Bytes /\ cache \in Bytes
    BY DEF TypeOK, WearLevelingType
<1>4. \A a \in Addr : data[a] = cache[a]
    BY <1>1, Arithmetic DEF WriteInv, Addr
<1>5. data = cache
    BY <1>3, <1>4 DEF Bytes
<1>6. Consolidated' = cache
    BY <1>1, <1>5 DEF Consolidated
<1>7. Recovered' = Replayed(log', cache) /\ LogAlone' = Replayed(log', Zeros)
    BY <1>6 DEF Recovered, LogAlone, Zeros, Replayed, LastWrite, Live
<1> QED BY <1>2, <1>3, <1>7, EmptyReplayed, NoHashOfNothing

-----------------------------------------------------------------------------
(***************************************************************************)
(* The invariants are inductive                                            *)
(***************************************************************************)

LEMMA InitInv == Init => Inv
<1> SUFFICES ASSUME Init PROVE Inv
    OBVIOUS
<1>1. TypeOK
    BY Arithmetic, NoHashOfNothing
       DEF Init, TypeOK, WearLevelingType, Consolidating
<1>2. FilledTo(log, 0)
    BY Arithmetic DEF Init, FilledTo, Slots
<1>3. FlashInv
    BY <1>2, Arithmetic DEF FlashInv
<1>4. WriteInv /\ CacheInv
    BY DEF Init, WriteInv, CacheInv
<1> QED BY <1>1, <1>3, <1>4 DEF Inv

LEMMA StepInv == Inv /\ [Next]_vars => Inv'
<1> SUFFICES ASSUME Inv, [Next]_vars PROVE Inv'
    OBVIOUS
<1>t. TypeOK /\ FlashInv /\ WriteInv /\ CacheInv
    BY DEF Inv
<1>b. /\ data \in Bytes /\ hash \in Bytes \cup {NoHash} /\ log \in Logs
      /\ cache \in Bytes /\ waddr \in 0..LogSize
      /\ pos \in 0..Size /\ stop \in 0..Size
      /\ op \in {"init", "reset", "set"}
    BY <1>t DEF TypeOK, WearLevelingType, Logs
<1>r. Recovered \in Bytes
    BY <1>t, BytesTypes
<1>1. CASE Boot
    <2>1. PICK n \in 0..LogSize : FilledTo(log, n)
        BY <1>t DEF FlashInv
    <2>2. LogEnd = n
        BY <2>1, LogEndFilled
    <2>3. /\ UNCHANGED flash /\ UNCHANGED <<pos, stop>>
          /\ cache' = Recovered /\ waddr' = n /\ op' = "init"
          /\ pc' = IF n >= LogSize THEN "erase_data" ELSE "check"
        BY <1>1, <2>2 DEF Boot, InitCache, LogFull
    <2>4. TypeOK'
        BY <1>b, <1>r, <2>3 DEF flash, TypeOK, WearLevelingType, Logs, Consolidating
    <2>5. FlashInv' /\ Recovered' = Recovered /\ FilledTo(log, n)'
        BY <1>t, <2>1, <2>3, FlashKept
    <2>6. waddr' = n /\ FilledTo(log', waddr')
        BY <2>1, <2>3 DEF flash
    <2>7. WriteInv'
        BY <2>3, <2>6, Arithmetic DEF WriteInv
    <2>8. CacheInv'
        BY <2>3, <2>5 DEF CacheInv
    <2> QED BY <2>4, <2>5, <2>7, <2>8 DEF Inv
<1>2. CASE Accept
    <2>1. /\ UNCHANGED flash /\ UNCHANGED <<cache, waddr, pos, stop, op>>
          /\ pc = "check" /\ pc' = "idle"
        BY <1>2 DEF Accept
    <2>2. TypeOK'
        BY <1>b, <2>1 DEF flash, TypeOK, WearLevelingType, Logs
    <2>3. FlashInv' /\ Recovered' = Recovered
        BY <1>t, <2>1, FlashKept
    <2>4. WriteInv'
        BY <1>t, <2>1 DEF flash, WriteInv
    <2>5. CacheInv'
        BY <1>t, <2>1, <2>3 DEF CacheInv
    <2> QED BY <2>2, <2>3, <2>4, <2>5 DEF Inv
<1>3. ASSUME NEW first \in Addr, NEW last \in Addr, NEW value,
             first <= last, \A a \in first..last : value[a] \in Byte,
             pc \in {"check", "idle"}, WriteBytes(first, last, value),
             op' \in {"reset", "set"}
      PROVE  Inv'
    <2>1. /\ UNCHANGED flash /\ waddr' = waddr
          /\ pos' = first /\ stop' = last + 1 /\ pc' = "append"
          /\ cache' = [a \in Addr |-> IF a \in first..last THEN value[a] ELSE cache[a]]
        BY <1>3 DEF WriteBytes
    <2>2. cache' \in Bytes
        BY <1>3, <1>b, <2>1 DEF Bytes
    <2>3. pos' \in 0..Size /\ stop' \in 0..Size /\ pos' < stop'
        BY <1>3, <2>1, Arithmetic DEF Addr
    <2>4. TypeOK'
        BY <1>3, <1>b, <2>1, <2>2, <2>3 DEF flash, TypeOK, WearLevelingType, Logs
    <2>5. FlashInv' /\ Recovered' = Recovered
        BY <1>t, <2>1, FlashKept
    <2>6. WriteInv'
        BY <1>t, <1>3, <2>1, <2>3 DEF flash, WriteInv
    <2>7. Recovered = cache
        BY <1>t, <1>3 DEF CacheInv
    <2>8. \A a \in Addr : a \notin pos'..(stop' - 1) => Recovered'[a] = cache'[a]
        BY <1>3, <2>1, <2>5, <2>7, Arithmetic DEF Addr
    <2>9. CacheInv'
        BY <2>1, <2>8 DEF CacheInv
    <2> QED BY <2>4, <2>5, <2>6, <2>9 DEF Inv
<1>4. CASE Reset
    <2>1. 0 \in Addr /\ Size - 1 \in Addr /\ 0 <= Size - 1
        BY Arithmetic DEF Addr
    <2>2. \A a \in 0..(Size - 1) : Defaults[a] \in Byte
        BY SettingsAssumption DEF Bytes, Addr
    <2>3. pc = "check" /\ WriteBytes(0, Size - 1, Defaults) /\ op' = "reset"
        BY <1>4 DEF Reset
    <2> QED BY <1>3, <2>1, <2>2, <2>3
<1>5. ASSUME NEW f \in Fields, NEW v \in Values[f], Set(f, v)
      PROVE  Inv'
    <2>1. /\ First[f] \in Addr /\ Last[f] \in Addr /\ First[f] <= Last[f]
          /\ \A a \in First[f]..Last[f] : v[a] \in Byte
        BY SettingsAssumption, Arithmetic DEF Addr, Field
    <2>2. pc = "idle" /\ WriteBytes(First[f], Last[f], v) /\ op' = "set"
        BY <1>5 DEF Set
    <2> QED BY <1>3, <2>1, <2>2
<1>6. CASE Append(Return) /\ UNCHANGED op
    <2>1. /\ pos \in Addr /\ pos < stop
          /\ pos' = NextPos /\ NextPos \in (pos + 1)..stop
          /\ waddr \in Slots /\ log' \in Logs /\ FilledTo(log', waddr + 1)
        BY <1>6, <1>t, AppendStep
    <2>2. \A a \in Addr : Recovered'[a] =
              IF a \in pos..(NextPos - 1) THEN cache[a] ELSE Recovered[a]
        BY <1>6, <1>t, AppendStep
    <2>3. /\ pc = "append" /\ waddr' = waddr + 1
          /\ pc' = IF waddr + 1 >= LogSize THEN "erase_data"
                   ELSE IF NextPos < stop THEN "append" ELSE Return
          /\ UNCHANGED <<data, hash, cache, stop, op>>
        BY <1>6 DEF Append, LogFull
    <2>4. waddr' \in 0..LogSize /\ pos' \in 0..Size
        BY <1>b, <2>1, <2>3, Arithmetic DEF Slots
    <2>5. TypeOK'
        BY <1>b, <2>1, <2>3, <2>4
           DEF TypeOK, WearLevelingType, Logs, Return, Consolidating
    <2>6. FlashInv'
        BY <2>1, <2>3, <2>4 DEF FlashInv
    <2>7. op # "init"
        BY <1>t, <2>3 DEF WriteInv
    <2>8. WriteInv'
        BY <1>b, <2>1, <2>3, <2>7, Arithmetic DEF WriteInv, Return, Slots
    <2>9. \A a \in Addr : a \notin pos..(stop - 1) => Recovered[a] = cache[a]
        BY <1>t, <2>3 DEF CacheInv
    <2>10. \A a \in Addr : a \notin pos'..(stop' - 1) => Recovered'[a] = cache'[a]
        BY <1>b, <2>1, <2>2, <2>3, <2>9, Arithmetic DEF Addr
    <2>11. Recovered' \in Bytes /\ cache' \in Bytes
        BY <1>b, <1>6, <1>t, <2>3, AppendStep
    <2>12. pc' \in {"check", "idle"} => NextPos = stop
        BY <1>b, <2>1, <2>3, Arithmetic DEF Addr
    <2>13. pc' \in {"check", "idle"} => \A a \in Addr : Recovered'[a] = cache'[a]
        BY <1>b, <2>1, <2>3, <2>10, <2>12, Arithmetic DEF Addr
    <2>14. pc' \in {"check", "idle"} => Recovered' = cache'
        BY <2>11, <2>13 DEF Bytes
    <2>15. CacheInv'
        BY <2>10, <2>14 DEF CacheInv
    <2> QED BY <2>5, <2>6, <2>8, <2>15 DEF Inv
<1>7. CASE EraseData /\ UNCHANGED op
    <2>1. /\ pc' = "erase_log" /\ data' = Zeros
          /\ UNCHANGED <<hash, log, cache, waddr, pos, stop, op>>
        BY <1>7 DEF EraseData
    <2>2. TypeOK'
        BY <1>b, <2>1, NoHashOfNothing DEF TypeOK, WearLevelingType, Logs, Consolidating
    <2>3. FlashInv'
        BY <1>t, <2>1 DEF FlashInv, FilledTo
    <2>4. WriteInv' /\ CacheInv'
        BY <2>1 DEF WriteInv, CacheInv, Zeros
    <2> QED BY <2>2, <2>3, <2>4 DEF Inv
<1>8. CASE EraseLog /\ UNCHANGED op
    <2>1. /\ pc = "erase_log" /\ pc' = "program" /\ hash' = NoHash /\ pos' = 0
          /\ log' = [i \in Slots |-> Empty]
          /\ UNCHANGED <<data, cache, waddr, stop, op>>
        BY <1>8 DEF EraseLog
    <2>2. log' \in Logs /\ FilledTo(log', 0)
        BY <2>1, Arithmetic DEF Logs, FilledTo, Slots
    <2>3. TypeOK'
        BY <1>b, <2>1, <2>2, Arithmetic DEF TypeOK, WearLevelingType, Logs, Consolidating
    <2>4. FlashInv'
        BY <2>2, Arithmetic DEF FlashInv
    <2>5. \A a \in Addr : data'[a] = IF a < pos' THEN cache'[a] ELSE 0
        BY <1>t, <2>1, Arithmetic DEF WriteInv, Zeros, Addr
    <2>6. WriteInv'
        BY <2>1, <2>2, <2>5 DEF WriteInv
    <2>7. CacheInv'
        BY <2>1 DEF CacheInv
    <2> QED BY <2>3, <2>4, <2>6, <2>7 DEF Inv
<1>9. CASE ProgramBatch /\ UNCHANGED op
    <2>1. /\ pc = "program" /\ pos < Size
          /\ data' = [a \in Addr |-> IF a \in pos..(pos + BatchLen - 1)
                                     THEN cache[a] ELSE data[a]]
          /\ pos' = IF pos + BatchLen < Size THEN pos + BatchLen ELSE Size
          /\ UNCHANGED <<hash, log, cache, waddr, pc, stop, op>>
        BY <1>9 DEF ProgramBatch
    <2>2. data' \in Bytes
        BY <1>b, <2>1 DEF Bytes
    <2>3. pos' \in 0..Size
        BY <1>b, <2>1, Arithmetic
    <2>4. TypeOK'
        BY <1>b, <2>1, <2>2, <2>3 DEF TypeOK, WearLevelingType, Logs, Consolidating
    <2>5. FlashInv'
        BY <1>t, <2>1 DEF FlashInv, FilledTo
    <2>6. FilledTo(log', 0) /\ hash' = NoHash
        BY <1>t, <2>1 DEF WriteInv
    <2>7. \A a \in Addr : data'[a] = IF a < pos' THEN cache'[a] ELSE 0
        BY <1>t, <1>b, <2>1, Arithmetic DEF WriteInv, Addr
    <2>8. WriteInv'
        BY <2>1, <2>6, <2>7 DEF WriteInv
    <2>9. CacheInv'
        BY <2>1 DEF CacheInv
    <2> QED BY <2>4, <2>5, <2>8, <2>9 DEF Inv
<1>10. CASE ProgramHash(Return) /\ UNCHANGED op
    <2>1. /\ pc' = Return /\ hash' = cache /\ waddr' = 0
          /\ UNCHANGED <<data, log, cache, pos, stop, op>>
        BY <1>10 DEF ProgramHash
    <2>2. Recovered' = cache /\ FilledTo(log', 0)
        BY <1>10, <1>t, ProgramHashStep
    <2>3. TypeOK'
        BY <1>b, <2>1, Arithmetic DEF TypeOK, WearLevelingType, Logs, Return
    <2>4. FlashInv'
        BY <2>2, Arithmetic DEF FlashInv
    <2>5. WriteInv'
        BY <2>1, <2>2, Arithmetic DEF WriteInv, Return
    <2>6. CacheInv'
        BY <2>1, <2>2 DEF CacheInv, Return
    <2> QED BY <2>3, <2>4, <2>5, <2>6 DEF Inv
<1>11. CASE Restart
    <2>1. /\ pc' = "off" /\ op' = "init" /\ cache' = Zeros
          /\ waddr' = 0 /\ pos' = 0 /\ stop' = 0 /\ UNCHANGED flash
        BY <1>11 DEF Restart
    <2>2. TypeOK'
        BY <1>b, <2>1, Arithmetic, NoHashOfNothing DEF flash, TypeOK, WearLevelingType, Logs
    <2>3. FlashInv'
        BY <1>t, <2>1, FlashKept
    <2>4. WriteInv' /\ CacheInv'
        BY <2>1 DEF WriteInv, CacheInv
    <2> QED BY <2>2, <2>3, <2>4 DEF Inv
<1>12. CASE UNCHANGED vars
    <2>1. UNCHANGED flash /\ UNCHANGED <<cache, waddr, pc, pos, stop, op>>
        BY <1>12 DEF vars, flash
    <2>2. TypeOK'
        BY <1>t, <2>1 DEF flash, TypeOK, WearLevelingType
    <2>3. FlashInv' /\ Recovered' = Recovered
        BY <1>t, <2>1, FlashKept
    <2>4. WriteInv' /\ CacheInv'
        BY <1>t, <2>1, <2>3 DEF flash, WriteInv, CacheInv
    <2> QED BY <2>2, <2>3, <2>4 DEF Inv
<1> QED
    BY <1>1, <1>2, <1>4, <1>5, <1>6, <1>7, <1>8, <1>9, <1>10, <1>11, <1>12
       DEF Next, WearLevel

\* In every state the program can reach, the log has no holes, the library
\* programs erased flash only, and the flash agrees with the cache.
THEOREM Invariance == Spec => []Inv
<1>1. Init => Inv
    BY InitInv
<1>2. Inv /\ [Next]_vars => Inv'
    BY StepInv
<1> QED BY <1>1, <1>2, PTL DEF Spec

\* The type invariant of WearLeveling and Settings.
THEOREM TypeCorrect == Spec => []TypeOK
<1>1. Inv => TypeOK
    BY DEF Inv
<1> QED BY <1>1, Invariance, PTL

\* Whatever the layout of the settings and wherever the chip was restarted:
\* when KV_SET has answered, a restart finds what KV_GET returns.
THEOREM SettingsDurable == Spec => []Durable
<1>1. Inv => Durable
    BY DEF Inv, CacheInv, Durable
<1> QED BY <1>1, Invariance, PTL

\* The playback of the library, entry by entry, leaves the last write to each address
\* in the cache, whatever has been written and wherever a restart cut it.
THEOREM PlaybackCorrect == Spec => []PlaybackIsLastWrite
<1>1. Inv => PlaybackIsLastWrite
    <2>1. ASSUME Inv PROVE log \in Logs /\ Consolidated \in Bytes
        BY <2>1, BytesTypes DEF Inv, TypeOK, WearLevelingType, Logs
    <2> QED BY <2>1, LoopIsReplayed DEF PlaybackIsLastWrite
<1> QED BY <1>1, Invariance, PTL

\* A log word is inside the partition and erased when it is programmed.
THEOREM LogNeverOverrun == Spec => []AppendFits
<1>1. Inv => AppendFits
    <2> SUFFICES ASSUME Inv, pc = "append"
                 PROVE  waddr < LogSize /\ log[waddr] = Empty
        BY DEF AppendFits
    <2>1. waddr < LogSize /\ FilledTo(log, waddr) /\ waddr \in 0..LogSize
        BY DEF Inv, WriteInv, TypeOK, WearLevelingType
    <2>2. waddr \in Slots
        BY <2>1, Arithmetic DEF Slots
    <2> QED BY <2>1, <2>2 DEF FilledTo, Slots
<1> QED BY <1>1, Invariance, PTL

\* The copy and its hash are programmed into erased flash.
THEOREM CopyProgramsErased == Spec => []ProgramErased
<1>1. Inv => ProgramErased
    <2> SUFFICES ASSUME Inv, pc = "program"
                 PROVE  /\ hash = NoHash
                        /\ \A a \in Addr : a >= pos => data[a] = 0
                        /\ \A i \in Slots : log[i] = Empty
        BY DEF ProgramErased
    <2>1. /\ FilledTo(log, 0) /\ hash = NoHash /\ pos \in 0..Size
          /\ \A a \in Addr : data[a] = IF a < pos THEN cache[a] ELSE 0
        BY DEF Inv, WriteInv, TypeOK, WearLevelingType
    <2>2. \A a \in Addr : a >= pos => data[a] = 0
        BY <2>1, Arithmetic DEF Addr
    <2>3. \A i \in Slots : log[i] = Empty
        BY <2>1, Arithmetic DEF FilledTo, Slots
    <2> QED BY <2>1, <2>2, <2>3
<1> QED BY <1>1, Invariance, PTL

\* Flash is programmed inside of the partition and where it is erased.
THEOREM ErasedBeforeProgrammed == Spec => []WritesErased
BY LogNeverOverrun, CopyProgramsErased, PTL DEF WritesErased

-----------------------------------------------------------------------------
(***************************************************************************)
(* Atomicity.  It holds when settings_reset is not cut after the magic, so *)
(* the theorems below assume ~ResetTears.                                  *)
(*                                                                         *)
(* The invariants say when the last byte of the magic can be found: after  *)
(* it, settings_init accepts all the rest.                                 *)
(***************************************************************************)

\* The byte of the magic that is written last.
Mark       == MagicLen - 1
HasMark(b) == b[Mark] = Defaults[Mark]
Shaped(b)  == HasMark(b) => MagicOk(b)

\* settings_reset has not written everything yet.
Resetting == op = "reset" /\ pc \in {"append", "erase_data", "erase_log"}

OpInv ==
    /\ pc \in {"off", "check"} => op = "init"
    /\ op = "reset" => cache = Defaults
    /\ op = "set" \/ pc = "idle" => MagicOk(cache)

\* The last byte of the magic is found only with the rest of it.
ShapeInv == Shaped(cache) /\ Shaped(Recovered)

\* The bytes of a field behind its first one are 0.
HighInv == \A f \in Fields : \A a \in Field(f) \ {First[f]} :
               cache[a] = 0 /\ Recovered[a] = 0

\* settings_reset: the defaults are logged in the order of their addresses.
ResetInv ==
    Resetting =>
        /\ \A a \in Addr : a < pos => /\ LogAlone[a] = Defaults[a]
                                      /\ Recovered[a] = Defaults[a]
        /\ pos < MagicLen => ~HasMark(Recovered)
        /\ pc = "append" => stop = Size

\* Otherwise a log that has the magic has all the settings.
LogInv == ~Resetting /\ HasMark(LogAlone) => LogAlone = Recovered

\* A setter logs the bytes of one field.
SetInv ==
    pc = "append" /\ op = "set" =>
        \E f \in Fields : /\ First[f] <= pos /\ stop = Last[f] + 1
                          /\ Of(f, cache) \in Values[f]

\* A consolidation starts from what the cache says.
EraseInv ==
    op # "reset" =>
        /\ pc = "erase_data" => Recovered = cache
        /\ pc = "erase_log" /\ HasMark(LogAlone) => LogAlone = cache

AtomInv == OpInv /\ ShapeInv /\ HighInv /\ ResetInv /\ LogInv /\ SetInv /\ EraseInv

LEMMA MagicFacts ==
    /\ Mark \in Addr /\ Mark \in Magic /\ MagicLen \in 1..Size
    /\ \A a \in Magic : a \in Addr /\ a < MagicLen /\ a <= Mark
    /\ MagicOk(Defaults) /\ Shaped(Defaults)
    /\ ~HasMark(Zeros) /\ Shaped(Zeros)
    /\ \A b : MagicOk(b) => HasMark(b)
<1>1. Mark \in Addr /\ Mark \in Magic /\ MagicLen \in 1..Size
    BY SettingsAssumption, Arithmetic DEF Mark, Addr, Magic
<1>2. \A a \in Magic : a \in Addr /\ a < MagicLen /\ a <= Mark
    BY SettingsAssumption, Arithmetic DEF Mark, Addr, Magic
<1>3. Defaults[Mark] # 0
    BY SettingsAssumption DEF Mark
<1>4. Zeros[Mark] = 0
    BY <1>1 DEF Zeros
<1> QED BY <1>1, <1>2, <1>3, <1>4 DEF MagicOk, Shaped, HasMark

\* The bytes of a field lie behind the magic, and those behind its first are 0.
LEMMA FieldFacts ==
    ASSUME NEW f \in Fields
    PROVE  /\ First[f] \in Addr /\ Last[f] \in Addr /\ First[f] <= Last[f]
           /\ First[f] >= MagicLen
           /\ \A a \in Field(f) : a \in Addr /\ a \notin Magic /\ a # Mark
           /\ \A a \in Field(f) \ {First[f]} :
                  Defaults[a] = 0 /\ \A v \in Values[f] : v[a] = 0
           /\ Defaults \in Bytes
<1>1. /\ First[f] \in MagicLen..(Size - 1) /\ Last[f] \in MagicLen..(Size - 1)
      /\ First[f] <= Last[f] /\ MagicLen \in 1..Size /\ Defaults \in Bytes
    BY SettingsAssumption
<1>2. \A a \in Field(f) : a \in Addr /\ a \notin Magic /\ a # Mark
    BY <1>1, Arithmetic DEF Field, Addr, Magic, Mark
<1> QED BY <1>1, <1>2, HighBytesAssumption, Arithmetic DEF Addr

LEMMA LogAloneFacts ==
    /\ \A a \in Addr : LogAlone[a] \in {Recovered[a], 0}
    /\ HasMark(LogAlone) => HasMark(Recovered)
<1>1. \A a \in Addr : LogAlone[a] \in {Recovered[a], 0}
    BY LogAloneOrZero DEF LogAlone, Recovered
<1>2. Defaults[Mark] # 0 /\ Mark \in Addr
    BY SettingsAssumption, MagicFacts DEF Mark
<1> QED BY <1>1, <1>2 DEF HasMark

LEMMA NoCopyStep ==
    ASSUME data' \in Bytes, hash' = NoHash, FilledTo(log', 0)
    PROVE  Recovered' = Zeros /\ LogAlone' = Zeros
<1>1. Consolidated' = Zeros
    BY NoHashOfNothing DEF Consolidated, Zeros
<1>2. Recovered' = Replayed(log', Zeros) /\ LogAlone' = Replayed(log', Zeros)
    BY <1>1 DEF Recovered, LogAlone, Zeros, Replayed, LastWrite, Live
<1> QED BY <1>2, EmptyReplayed, NoHashOfNothing

LEMMA InitAtom == Init /\ Inv => AtomInv
<1> SUFFICES ASSUME Init, Inv PROVE AtomInv
    OBVIOUS
<1>1. /\ cache = Zeros /\ hash = NoHash /\ pc = "off" /\ op = "init"
      /\ FilledTo(log, 0) /\ TypeOK
    BY DEF Init, FilledTo, Slots, Inv
<1>2. Recovered = Zeros /\ LogAlone = Zeros
    BY <1>1, NothingRecovered
<1>3. OpInv /\ ShapeInv /\ ResetInv /\ LogInv /\ SetInv /\ EraseInv
    BY <1>1, <1>2, MagicFacts
       DEF OpInv, ShapeInv, ResetInv, LogInv, SetInv, EraseInv, Resetting
<1>4. HighInv
    BY <1>1, <1>2, FieldFacts DEF HighInv, Zeros
<1> QED BY <1>3, <1>4 DEF AtomInv

LEMMA AppendAtom ==
    ASSUME Inv, AtomInv, Append(Return), UNCHANGED op
    PROVE  AtomInv'
<1>t. TypeOK /\ WriteInv /\ CacheInv /\ OpInv /\ ShapeInv /\ HighInv /\ ResetInv
      /\ LogInv /\ SetInv
    BY DEF Inv, AtomInv
<1>b. pos \in 0..Size /\ stop \in 0..Size /\ cache \in Bytes /\ Recovered \in Bytes
    BY <1>t, BytesTypes DEF TypeOK, WearLevelingType
<1>a. /\ pos \in Addr /\ pos < stop
      /\ pos' = NextPos /\ NextPos \in (pos + 1)..stop
      /\ Recovered' \in Bytes /\ LogAlone' \in Bytes
      /\ \A a \in Addr : Recovered'[a] =
             IF a \in pos..(NextPos - 1) THEN cache[a] ELSE Recovered[a]
      /\ \A a \in Addr : LogAlone'[a] =
             IF a \in pos..(NextPos - 1) THEN cache[a] ELSE LogAlone[a]
    BY <1>t, AppendStep
<1>c. /\ pc = "append" /\ UNCHANGED <<cache, stop, op>>
      /\ pc' \in {"erase_data", "append", Return}
      /\ ~(NextPos < stop) => pc' # "append"
      /\ NextPos < stop => pc' # Return
    BY DEF Append, Return
<1>d. op \in {"reset", "set"} /\ Return = "idle"
    BY <1>t, <1>c DEF TypeOK, WriteInv, Return
<1>e. MagicOk(cache)
    BY <1>t, <1>d, MagicFacts DEF OpInv
<1>1. OpInv'
    BY <1>t, <1>c, <1>d, <1>e DEF OpInv, MagicOk
<1>2. HighInv'
    <2> SUFFICES ASSUME NEW f \in Fields, NEW a \in Field(f) \ {First[f]}
                 PROVE  cache'[a] = 0 /\ Recovered'[a] = 0
        BY DEF HighInv, Field
    <2>1. a \in Addr
        BY FieldFacts
    <2>2. cache[a] = 0 /\ Recovered[a] = 0
        BY <1>t DEF HighInv
    <2> QED BY <1>a, <1>c, <2>1, <2>2
<1>3. CASE op = "reset"
    <2>1. cache = Defaults /\ stop = Size /\ Resetting
        BY <1>t, <1>3, <1>c DEF OpInv, ResetInv, Resetting
    <2>2. \A a \in Addr : a < pos => LogAlone[a] = Defaults[a] /\ Recovered[a] = Defaults[a]
        BY <1>t, <2>1 DEF ResetInv
    <2>3. \A a \in Addr : a < NextPos => LogAlone'[a] = Defaults[a] /\ Recovered'[a] = Defaults[a]
        BY <1>a, <1>b, <2>1, <2>2, Arithmetic DEF Addr
    <2>4. ASSUME NextPos < MagicLen PROVE ~(Recovered'[Mark] = Defaults[Mark])
        <3>1. pos < MagicLen
            BY <1>a, <1>b, <2>4, MagicFacts, Arithmetic DEF Addr
        <3>2. ~HasMark(Recovered)
            BY <1>t, <2>1, <3>1 DEF ResetInv
        <3>3. Mark \notin pos..(NextPos - 1) /\ Mark \in Addr
            BY <1>a, <1>b, <2>4, MagicFacts, Arithmetic DEF Addr, Mark
        <3> QED BY <1>a, <3>2, <3>3 DEF HasMark
    <2>5. ResetInv'
        BY <1>a, <1>c, <2>1, <2>3, <2>4 DEF ResetInv, HasMark, Mark
    <2>6. Shaped(Recovered)'
        <3>1. CASE NextPos < MagicLen
            BY <2>4, <3>1 DEF Shaped, HasMark, Mark
        <3>2. CASE ~(NextPos < MagicLen)
            <4>1. \A a \in Magic : a \in Addr /\ a < NextPos
                BY <1>a, <1>b, <3>2, MagicFacts, Arithmetic DEF Addr, Magic
            <4> QED BY <2>3, <4>1 DEF Shaped, MagicOk, Magic
        <3> QED BY <3>1, <3>2
    <2>7. ShapeInv'
        BY <1>t, <1>c, <2>6 DEF ShapeInv, Shaped, HasMark, MagicOk, Mark, Magic
    <2>8. LogInv'
        <3> SUFFICES ASSUME ~Resetting' PROVE LogAlone' = Recovered'
            BY DEF LogInv
        <3>1. pc' = "idle"
            BY <1>c, <1>d, <1>3 DEF Resetting
        <3>2. NextPos = Size
            BY <1>a, <1>b, <1>c, <1>d, <2>1, <3>1, Arithmetic DEF Addr
        <3>3. \A a \in Addr : LogAlone'[a] = Recovered'[a]
            BY <2>3, <3>2, Arithmetic DEF Addr
        <3> QED BY <1>a, <3>3 DEF Bytes
    <2>9. SetInv' /\ EraseInv'
        BY <1>3, <1>c DEF SetInv, EraseInv
    <2> QED BY <1>1, <1>2, <2>5, <2>7, <2>8, <2>9 DEF AtomInv
<1>4. CASE op = "set"
    <2>1. PICK f \in Fields : First[f] <= pos /\ stop = Last[f] + 1 /\ Of(f, cache) \in Values[f]
        BY <1>t, <1>c, <1>4 DEF SetInv
    <2>2. /\ First[f] \in Addr /\ Last[f] \in Addr /\ MagicLen \in 1..Size
          /\ First[f] >= MagicLen
        BY FieldFacts, MagicFacts
    <2>3. \A a \in Addr : a < MagicLen => a \notin pos..(NextPos - 1)
        BY <1>b, <2>1, <2>2, Arithmetic DEF Addr
    <2>4. \A a \in Addr : a < MagicLen =>
              Recovered'[a] = Recovered[a] /\ LogAlone'[a] = LogAlone[a]
        BY <1>a, <2>3
    <2>5. Mark \in Addr /\ Mark < MagicLen
        BY MagicFacts
    <2>6. ShapeInv'
        BY <1>t, <1>c, <2>4, <2>5, MagicFacts
           DEF ShapeInv, Shaped, HasMark, MagicOk, Mark, Magic
    <2>7. LogInv'
        <3> SUFFICES ASSUME HasMark(LogAlone)' PROVE LogAlone' = Recovered'
            BY DEF LogInv
        <3>1. HasMark(LogAlone)
            BY <2>4, <2>5 DEF HasMark, Mark
        <3>2. LogAlone = Recovered
            BY <1>t, <1>4, <3>1 DEF LogInv, Resetting
        <3>3. \A a \in Addr : LogAlone'[a] = Recovered'[a]
            BY <1>a, <3>2
        <3> QED BY <1>a, <3>3 DEF Bytes
    <2>8. ResetInv'
        BY <1>4, <1>c DEF ResetInv, Resetting
    <2>9. SetInv'
        <3>1. First[f] <= pos' /\ stop' = Last[f] + 1
            BY <1>a, <1>b, <1>c, <2>1, <2>2, Arithmetic DEF Addr
        <3> QED BY <1>c, <2>1, <3>1 DEF SetInv, Of, Field
    <2>10. \A a \in Addr : Recovered'[a] = cache[a]
        <3> SUFFICES ASSUME NEW a \in Addr PROVE Recovered'[a] = cache[a]
            OBVIOUS
        <3>1. CASE a \in pos..(NextPos - 1)
            BY <1>a, <3>1
        <3>2. CASE a \notin pos..(stop - 1)
            <4>1. Recovered[a] = cache[a]
                BY <1>t, <1>c, <3>2 DEF CacheInv
            <4>2. a \notin pos..(NextPos - 1)
                BY <1>a, <1>b, <3>2, Arithmetic DEF Addr
            <4> QED BY <1>a, <4>1, <4>2
        <3>3. CASE a \in NextPos..(stop - 1)
            <4>1. a \in Field(f) \ {First[f]} /\ a \notin pos..(NextPos - 1)
                BY <1>a, <1>b, <2>1, <2>2, <3>3, Arithmetic DEF Field, Addr
            <4>2. cache[a] = 0 /\ Recovered[a] = 0
                BY <1>t, <4>1 DEF HighInv
            <4> QED BY <1>a, <4>1, <4>2
        <3>4. a \in pos..(NextPos - 1) \/ a \notin pos..(stop - 1) \/ a \in NextPos..(stop - 1)
            BY <1>a, <1>b, Arithmetic DEF Addr
        <3> QED BY <3>1, <3>2, <3>3, <3>4
    <2>11. Recovered' = cache
        <3>1. Recovered' \in [Addr -> Byte] /\ cache \in [Addr -> Byte]
            BY <1>a, <1>b DEF Bytes
        <3> QED BY <2>10, <3>1
    <2>12. EraseInv'
        BY <1>c, <1>d, <2>11 DEF EraseInv
    <2> QED BY <1>1, <1>2, <2>6, <2>7, <2>8, <2>9, <2>12 DEF AtomInv
<1> QED BY <1>d, <1>3, <1>4

LEMMA EraseDataAtom ==
    ASSUME Inv, AtomInv, EraseData, UNCHANGED op
    PROVE  AtomInv'
<1>t. TypeOK /\ OpInv /\ ShapeInv /\ HighInv /\ ResetInv /\ LogInv /\ EraseInv
    BY DEF Inv, AtomInv
<1>1. /\ pc = "erase_data" /\ pc' = "erase_log" /\ UNCHANGED <<cache, pos, op>>
      /\ Recovered' = LogAlone /\ LogAlone' = LogAlone
    BY <1>t, EraseDataStep DEF EraseData
<1>2. OpInv'
    BY <1>t, <1>1 DEF OpInv, MagicOk
<1>3. HighInv'
    <2> SUFFICES ASSUME NEW f \in Fields, NEW a \in Field(f) \ {First[f]}
                 PROVE  cache'[a] = 0 /\ Recovered'[a] = 0
        BY DEF HighInv, Field
    <2>1. a \in Addr /\ cache[a] = 0 /\ Recovered[a] = 0
        BY <1>t, FieldFacts DEF HighInv
    <2> QED BY <1>1, <2>1, LogAloneFacts
<1>4. Shaped(LogAlone)
    <2>1. CASE op # "reset"
        BY <1>t, <2>1 DEF Resetting, LogInv, ShapeInv, Shaped
    <2>2. CASE op = "reset" /\ pos < MagicLen
        BY <1>t, <1>1, <2>2, LogAloneFacts DEF Resetting, ResetInv, Shaped
    <2>3. CASE op = "reset" /\ ~(pos < MagicLen)
        <3>1. \A a \in Addr : a < pos => LogAlone[a] = Defaults[a]
            BY <1>t, <1>1, <2>3 DEF Resetting, ResetInv
        <3>2. \A a \in Magic : a \in Addr /\ a < pos
            BY <1>t, <2>3, MagicFacts, Arithmetic
               DEF TypeOK, WearLevelingType, Addr, Magic
        <3> QED BY <3>1, <3>2 DEF Shaped, MagicOk
    <2> QED BY <2>1, <2>2, <2>3
<1>5. ShapeInv'
    BY <1>t, <1>1, <1>4 DEF ShapeInv, Shaped, HasMark, MagicOk
<1>6. ResetInv'
    <2> SUFFICES ASSUME op = "reset"
                 PROVE  /\ \A a \in Addr : a < pos => LogAlone[a] = Defaults[a]
                        /\ pos < MagicLen => ~HasMark(LogAlone)
        BY <1>1 DEF ResetInv, Resetting, HasMark
    <2> QED BY <1>t, <1>1, LogAloneFacts DEF Resetting, ResetInv
<1>7. LogInv' /\ SetInv'
    BY <1>1 DEF LogInv, SetInv
<1>8. EraseInv'
    <2> SUFFICES ASSUME op # "reset", HasMark(LogAlone) PROVE LogAlone = cache
        BY <1>1 DEF EraseInv, HasMark
    <2> QED BY <1>t, <1>1 DEF EraseInv, LogInv, Resetting
<1> QED BY <1>2, <1>3, <1>5, <1>6, <1>7, <1>8 DEF AtomInv

\* While and after the copy is written back, the flash is empty or complete.
LEMMA ProgramAtom ==
    ASSUME Inv, AtomInv, EraseLog \/ ProgramBatch \/ ProgramHash(Return), UNCHANGED op
    PROVE  AtomInv'
<1>t. /\ TypeOK /\ WriteInv /\ OpInv /\ ShapeInv /\ HighInv
      /\ TypeOK' /\ WriteInv'
    <2>1. Next
        BY DEF Next, WearLevel
    <2>2. Inv'
        BY <2>1, StepInv
    <2> QED BY <2>2 DEF Inv, AtomInv
<1>1. /\ UNCHANGED <<cache, op>>
      /\ pc' \in {"program", Return}
    BY DEF EraseLog, ProgramBatch, ProgramHash
<1>2. LogAlone' = Zeros /\ Recovered' \in {Zeros, cache}
    <2>1. CASE ProgramHash(Return)
        BY <1>t, <2>1, ProgramHashStep
    <2>2. CASE EraseLog \/ ProgramBatch
        <3>1. pc' = "program"
            BY <2>2 DEF EraseLog, ProgramBatch
        <3>2. data' \in Bytes /\ hash' = NoHash /\ FilledTo(log', 0)
            BY <1>t, <3>1 DEF WriteInv, TypeOK, WearLevelingType
        <3> QED BY <3>2, NoCopyStep
    <2> QED BY <2>1, <2>2
<1>3. pc' \in {"program", "check", "idle"} /\ (pc' = "check" => op = "init")
      /\ (pc' = "idle" => op # "init")
    BY <1>1 DEF Return
<1>4. OpInv'
    <2>1. pc' = "idle" => MagicOk(cache)
        BY <1>t, <1>3, MagicFacts DEF OpInv, TypeOK
    <2> QED BY <1>t, <1>1, <1>3, <2>1 DEF OpInv, MagicOk
<1>5. ShapeInv'
    BY <1>t, <1>1, <1>2, MagicFacts DEF ShapeInv, Shaped, HasMark, MagicOk
<1>6. HighInv'
    <2> SUFFICES ASSUME NEW f \in Fields, NEW a \in Field(f) \ {First[f]}
                 PROVE  cache'[a] = 0 /\ Recovered'[a] = 0
        BY DEF HighInv, Field
    <2>1. a \in Addr /\ cache[a] = 0
        BY <1>t, FieldFacts DEF HighInv
    <2> QED BY <1>1, <1>2, <2>1 DEF Zeros
<1>7. LogInv'
    BY <1>2, MagicFacts DEF LogInv, HasMark
<1>8. ResetInv' /\ SetInv' /\ EraseInv'
    BY <1>3 DEF ResetInv, Resetting, SetInv, EraseInv
<1> QED BY <1>4, <1>5, <1>6, <1>7, <1>8 DEF AtomInv

\* A step that leaves the flash alone.
LEMMA CacheOnlyAtom ==
    ASSUME Inv, AtomInv, ~ResetTears,
           Boot \/ Accept \/ Restart \/ UNCHANGED vars
    PROVE  AtomInv'
<1>t. TypeOK /\ CacheInv /\ OpInv /\ ShapeInv /\ HighInv /\ ResetInv /\ LogInv
      /\ SetInv /\ EraseInv
    BY DEF Inv, AtomInv
<1>1. Recovered' = Recovered /\ LogAlone' = LogAlone
    BY FlashKept DEF Boot, InitCache, Accept, Restart, vars, flash
<1>2. CASE Boot
    <2>1. /\ pc = "off" /\ op = "init" /\ op' = "init" /\ cache' = Recovered
          /\ pc' \in {"erase_data", "check"}
        BY <1>t, <1>2 DEF Boot, InitCache, OpInv
    <2>2. OpInv' /\ ResetInv' /\ SetInv'
        BY <2>1 DEF OpInv, ResetInv, Resetting, SetInv
    <2>3. ShapeInv' /\ HighInv'
        BY <1>t, <1>1, <2>1 DEF ShapeInv, HighInv, Shaped, HasMark, MagicOk, Field
    <2>4. LogInv' /\ EraseInv'
        BY <1>t, <1>1, <2>1 DEF LogInv, EraseInv, Resetting, HasMark
    <2> QED BY <2>2, <2>3, <2>4 DEF AtomInv
<1>3. CASE Accept
    <2>1. /\ pc = "check" /\ MagicOk(cache) /\ pc' = "idle"
          /\ UNCHANGED <<cache, op>> /\ op = "init"
        BY <1>t, <1>3 DEF Accept, OpInv
    <2>2. OpInv' /\ ResetInv' /\ SetInv' /\ EraseInv'
        BY <2>1 DEF OpInv, MagicOk, ResetInv, Resetting, SetInv, EraseInv
    <2>3. ShapeInv' /\ HighInv'
        BY <1>t, <1>1, <2>1 DEF ShapeInv, HighInv, Shaped, HasMark, MagicOk
    <2>4. LogInv'
        BY <1>t, <1>1, <2>1 DEF LogInv, Resetting, HasMark
    <2> QED BY <2>2, <2>3, <2>4 DEF AtomInv
<1>4. CASE Restart
    <2>1. pc' = "off" /\ op' = "init" /\ cache' = Zeros /\ ~ResetTorn
        BY <1>4 DEF Restart
    <2>2. OpInv' /\ ResetInv' /\ SetInv' /\ EraseInv'
        BY <2>1 DEF OpInv, ResetInv, Resetting, SetInv, EraseInv
    <2>3. ShapeInv'
        BY <1>t, <1>1, <2>1, MagicFacts DEF ShapeInv, Shaped, HasMark, MagicOk
    <2>4. HighInv'
        <3> SUFFICES ASSUME NEW f \in Fields, NEW a \in Field(f) \ {First[f]}
                     PROVE  cache'[a] = 0 /\ Recovered'[a] = 0
            BY DEF HighInv, Field
        <3>1. a \in Addr /\ Recovered[a] = 0
            BY <1>t, FieldFacts DEF HighInv
        <3> QED BY <1>1, <2>1, <3>1 DEF Zeros
    <2>5. Resetting => ~HasMark(LogAlone)
        <3> SUFFICES ASSUME Resetting PROVE ~HasMark(Recovered)
            BY LogAloneFacts
        <3>1. pos < MagicLen
            BY <1>t, <2>1, MagicFacts, Arithmetic
               DEF Resetting, ResetTorn, TypeOK, WearLevelingType
        <3> QED BY <1>t, <3>1 DEF ResetInv
    <2>6. LogInv'
        BY <1>t, <1>1, <2>5 DEF LogInv, HasMark
    <2> QED BY <2>2, <2>3, <2>4, <2>6 DEF AtomInv
<1>5. CASE UNCHANGED vars
    <2>1. UNCHANGED <<cache, pc, pos, stop, op>>
        BY <1>5 DEF vars
    <2>2. OpInv' /\ SetInv'
        BY <1>t, <2>1 DEF OpInv, MagicOk, SetInv, Of, Field
    <2>3. ShapeInv' /\ HighInv'
        BY <1>t, <1>1, <2>1 DEF ShapeInv, HighInv, Shaped, HasMark, MagicOk
    <2>4. LogInv' /\ EraseInv' /\ ResetInv'
        BY <1>t, <1>1, <2>1 DEF LogInv, EraseInv, ResetInv, Resetting, HasMark
    <2> QED BY <2>2, <2>3, <2>4 DEF AtomInv
<1> QED BY <1>2, <1>3, <1>4, <1>5

LEMMA ResetAtom ==
    ASSUME Inv, AtomInv, Reset
    PROVE  AtomInv'
<1>t. TypeOK /\ CacheInv /\ ShapeInv /\ HighInv
    BY DEF Inv, AtomInv
<1>1. /\ pc = "check" /\ ~MagicOk(cache) /\ UNCHANGED flash
      /\ pc' = "append" /\ op' = "reset" /\ pos' = 0 /\ stop' = Size
      /\ cache' = [a \in Addr |-> IF a \in 0..(Size - 1) THEN Defaults[a] ELSE cache[a]]
    BY Arithmetic DEF Reset, WriteBytes
<1>2. cache' = Defaults
    <2>1. Defaults \in Bytes
        BY SettingsAssumption
    <2> QED BY <1>1, <2>1 DEF Bytes, Addr
<1>3. Recovered' = Recovered /\ Recovered = cache
    BY <1>t, <1>1, FlashKept DEF CacheInv
<1>4. ~HasMark(Recovered)
    BY <1>t, <1>1, <1>3 DEF ShapeInv, Shaped
<1>5. OpInv' /\ LogInv' /\ SetInv' /\ EraseInv'
    BY <1>1, <1>2 DEF OpInv, LogInv, SetInv, EraseInv, Resetting
<1>6. ShapeInv'
    BY <1>t, <1>2, <1>3, MagicFacts DEF ShapeInv, Shaped, HasMark, MagicOk
<1>7. HighInv'
    <2> SUFFICES ASSUME NEW f \in Fields, NEW a \in Field(f) \ {First[f]}
                 PROVE  cache'[a] = 0 /\ Recovered'[a] = 0
        BY DEF HighInv, Field
    <2> QED BY <1>t, <1>2, <1>3, FieldFacts DEF HighInv
<1>8. ResetInv'
    BY <1>1, <1>3, <1>4, Arithmetic DEF ResetInv, HasMark, Addr
<1> QED BY <1>5, <1>6, <1>7, <1>8 DEF AtomInv

LEMMA SetAtom ==
    ASSUME Inv, AtomInv, NEW f \in Fields, NEW v \in Values[f], Set(f, v)
    PROVE  /\ AtomInv'
           /\ UNCHANGED flash /\ pc = "idle" /\ pc' = "append" /\ op' = "set"
<1>t. TypeOK /\ OpInv /\ ShapeInv /\ HighInv /\ LogInv
    BY DEF Inv, AtomInv
<1>1. /\ pc = "idle" /\ UNCHANGED flash
      /\ pc' = "append" /\ op' = "set" /\ pos' = First[f] /\ stop' = Last[f] + 1
      /\ cache' = [a \in Addr |-> IF a \in Field(f) THEN v[a] ELSE cache[a]]
    BY DEF Set, WriteBytes, Field
<1>2. Recovered' = Recovered /\ LogAlone' = LogAlone
    BY <1>1, FlashKept
<1>3. MagicOk(cache')
    <2>1. MagicOk(cache)
        BY <1>t, <1>1 DEF OpInv
    <2> QED BY <1>1, <2>1, FieldFacts, MagicFacts DEF MagicOk
<1>4. OpInv' /\ ResetInv' /\ EraseInv'
    BY <1>1, <1>3 DEF OpInv, MagicOk, ResetInv, EraseInv, Resetting
<1>5. ShapeInv'
    BY <1>t, <1>2, <1>3 DEF ShapeInv, Shaped, HasMark, MagicOk
<1>6. HighInv'
    <2> SUFFICES ASSUME NEW g \in Fields, NEW a \in Field(g) \ {First[g]}
                 PROVE  cache'[a] = 0 /\ Recovered'[a] = 0
        BY DEF HighInv, Field
    <2>1. a \in Addr /\ cache[a] = 0 /\ Recovered[a] = 0
        BY <1>t, FieldFacts DEF HighInv
    <2>2. CASE a \in Field(f)
        <3>1. f = g
            BY <2>2, SettingsAssumption
        <3> QED BY <1>1, <1>2, <2>1, <3>1, FieldFacts
    <2>3. CASE a \notin Field(f)
        BY <1>1, <1>2, <2>1, <2>3
    <2> QED BY <2>2, <2>3
<1>7. LogInv'
    BY <1>t, <1>1, <1>2 DEF LogInv, Resetting, HasMark
<1>8. SetInv'
    <2>1. v \in [Field(f) -> Byte]
        BY SettingsAssumption
    <2>2. \A a \in Field(f) : cache'[a] = v[a]
        BY <1>1, FieldFacts
    <2>3. Of(f, cache') = v
        BY <2>1, <2>2 DEF Of
    <2>4. First[f] <= First[f]
        BY FieldFacts, Arithmetic DEF Addr
    <2> QED BY <1>1, <2>3, <2>4 DEF SetInv, Of, Field
<1> QED BY <1>1, <1>4, <1>5, <1>6, <1>7, <1>8 DEF AtomInv

LEMMA StepAtom == Inv /\ AtomInv /\ ~ResetTears /\ [Next]_vars => AtomInv'
<1> SUFFICES ASSUME Inv, AtomInv, ~ResetTears, [Next]_vars PROVE AtomInv'
    OBVIOUS
<1>1. CASE Boot \/ Accept \/ Restart \/ UNCHANGED vars
    BY <1>1, CacheOnlyAtom
<1>2. CASE Reset
    BY <1>2, ResetAtom
<1>3. ASSUME NEW f \in Fields, NEW v \in Values[f], Set(f, v) PROVE AtomInv'
    BY <1>3, SetAtom
<1>4. CASE WearLevel
    <2>1. CASE Append(Return) /\ UNCHANGED op
        BY <2>1, AppendAtom
    <2>2. CASE EraseData /\ UNCHANGED op
        BY <2>2, EraseDataAtom
    <2>3. CASE (EraseLog \/ ProgramBatch \/ ProgramHash(Return)) /\ UNCHANGED op
        BY <2>3, ProgramAtom
    <2> QED BY <1>4, <2>1, <2>2, <2>3 DEF WearLevel
<1> QED BY <1>1, <1>2, <1>3, <1>4 DEF Next

\* A restart in a consolidation finds all settings or none.
LEMMA TotalLoss == Inv /\ AtomInv => LossIsTotal
<1> SUFFICES ASSUME Inv, AtomInv, pc \in Consolidating, op # "reset", MagicOk(Recovered)
             PROVE  Recovered = cache
    BY DEF LossIsTotal
<1>t. TypeOK /\ WriteInv /\ EraseInv
    BY DEF Inv, AtomInv
<1>1. CASE pc = "erase_data"
    BY <1>t, <1>1 DEF EraseInv
<1>2. CASE pc = "erase_log"
    <2>1. Consolidated = Zeros
        BY <1>t, <1>2 DEF WriteInv, Consolidated
    <2>2. Recovered = LogAlone
        BY <2>1 DEF Recovered, LogAlone
    <2>3. HasMark(LogAlone)
        BY <2>2, MagicFacts
    <2> QED BY <1>t, <1>2, <2>2, <2>3 DEF EraseInv
<1>3. CASE pc = "program"
    <2>1. Recovered = Zeros
        BY <1>t, <1>3, NothingRecovered DEF WriteInv
    <2> QED BY <2>1, MagicFacts
<1> QED BY <1>1, <1>2, <1>3 DEF Consolidating

-----------------------------------------------------------------------------
(***************************************************************************)
(* Settings implements SettingsStore                                       *)
(***************************************************************************)

\* The settings that settings_init takes from some bytes.
View(b) == [f \in Fields |-> Of(f, IF MagicOk(b) THEN b ELSE Defaults)]

LEMMA ViewFacts ==
    /\ Stored = View(Kept)
    /\ View(Defaults) = [f \in Fields |-> Of(f, Defaults)]
    /\ \A b : ~HasMark(b) => View(b) = View(Defaults)
    /\ View(Zeros) = View(Defaults)
BY MagicFacts DEF Stored, View

\* A log word of a setter changes one setting, if any.
LEMMA AppendView ==
    ASSUME Inv, AtomInv, AtomInv', op = "set", Append(Return), UNCHANGED op
    PROVE  \E f \in Fields : \E v \in Values[f] :
               View(Recovered') = [View(Recovered) EXCEPT ![f] = v]
<1>t. TypeOK /\ WriteInv /\ CacheInv /\ OpInv /\ HighInv /\ SetInv
      /\ (HighInv)'
    BY DEF Inv, AtomInv
<1>b. pos \in 0..Size /\ stop \in 0..Size
    BY <1>t DEF TypeOK, WearLevelingType
<1>a. /\ pos \in Addr /\ pos < stop /\ NextPos \in (pos + 1)..stop
      /\ \A a \in Addr : Recovered'[a] =
             IF a \in pos..(NextPos - 1) THEN cache[a] ELSE Recovered[a]
    BY <1>t, AppendStep
<1>c. pc = "append"
    BY DEF Append
<1>1. PICK f \in Fields : First[f] <= pos /\ stop = Last[f] + 1 /\ Of(f, cache) \in Values[f]
    BY <1>t, <1>c DEF SetInv
<1>2. /\ First[f] \in Addr /\ Last[f] \in Addr /\ First[f] <= Last[f]
      /\ First[f] >= MagicLen /\ MagicLen \in 1..Size
    BY FieldFacts, MagicFacts
<1>3. pos..(stop - 1) \subseteq Field(f) /\ pos..(NextPos - 1) \subseteq pos..(stop - 1)
    BY <1>a, <1>b, <1>1, <1>2, Arithmetic DEF Field, Addr
<1>4. \A a \in Addr : a \notin Field(f) => Recovered'[a] = Recovered[a]
    BY <1>a, <1>3
<1>5. \A a \in Field(f) : Recovered'[a] = cache[a]
    <2> SUFFICES ASSUME NEW a \in Field(f) PROVE Recovered'[a] = cache[a]
        OBVIOUS
    <2>1. a \in Addr
        BY FieldFacts
    <2>2. CASE a = First[f]
        <3>1. CASE pos = First[f]
            <4>1. a \in pos..(NextPos - 1)
                BY <1>a, <1>b, <2>2, <3>1, Arithmetic DEF Addr
            <4> QED BY <1>a, <2>1, <4>1
        <3>2. CASE pos # First[f]
            <4>1. a \notin pos..(stop - 1) /\ a \notin pos..(NextPos - 1)
                BY <1>a, <1>b, <1>1, <1>2, <2>2, <3>2, Arithmetic DEF Addr
            <4>2. Recovered[a] = cache[a]
                BY <1>t, <1>c, <2>1, <4>1 DEF CacheInv
            <4> QED BY <1>a, <2>1, <4>1, <4>2
        <3> QED BY <3>1, <3>2
    <2>3. CASE a # First[f]
        <3>1. cache[a] = 0 /\ Recovered[a] = 0
            BY <1>t, <2>3 DEF HighInv
        <3> QED BY <1>a, <2>1, <3>1
    <2> QED BY <2>2, <2>3
<1>6. \A a \in Magic : a \in Addr /\ a \notin pos..(stop - 1) /\ a \notin pos..(NextPos - 1)
    BY <1>a, <1>b, <1>1, <1>2, MagicFacts, Arithmetic DEF Addr, Magic
<1>7. MagicOk(Recovered)
    <2>1. MagicOk(cache)
        BY <1>t DEF OpInv
    <2> QED BY <1>t, <1>c, <1>6, <2>1 DEF CacheInv, MagicOk
<1>8. MagicOk(Recovered')
    BY <1>a, <1>6, <1>7 DEF MagicOk
<1>9. Of(f, Recovered') = Of(f, cache)
    BY <1>5 DEF Of
<1>10. \A g \in Fields : g # f => Of(g, Recovered') = Of(g, Recovered)
    <2> SUFFICES ASSUME NEW g \in Fields, g # f
                 PROVE  \A a \in Field(g) : Recovered'[a] = Recovered[a]
        BY DEF Of
    <2>1. \A a \in Field(g) : a \in Addr /\ a \notin Field(f)
        BY FieldFacts, SettingsAssumption
    <2> QED BY <1>4, <2>1
<1>11. View(Recovered') = [View(Recovered) EXCEPT ![f] = Of(f, cache)]
    BY <1>7, <1>8, <1>9, <1>10 DEF View
<1> QED BY <1>1, <1>11

LEMMA StepAtomic ==
    ASSUME Inv, Inv', AtomInv, AtomInv', ~ResetTears, [Next]_vars
    PROVE  [Store!Next]_Stored
<1>t. /\ TypeOK /\ WriteInv /\ CacheInv /\ OpInv /\ ResetInv
      /\ CacheInv' /\ EraseInv' /\ OpInv'
    BY DEF Inv, AtomInv
<1>v. Stored = View(Kept) /\ Stored' = View(Kept')
    BY ViewFacts DEF Stored, View, Kept
<1>s. View(Kept') = View(Kept) => [Store!Next]_Stored
    BY <1>v
<1>k. /\ pc \in Consolidating \cup {"check"} \/ op = "reset" => Kept = cache
      /\ pc \in {"off", "append", "idle"} /\ op # "reset" => Kept = Recovered
    BY DEF Kept, Consolidating
<1>p. /\ pc' \in Consolidating \cup {"check"} \/ op' = "reset" => Kept' = cache'
      /\ pc' \in {"off", "append", "idle"} /\ op' # "reset" => Kept' = Recovered'
    BY DEF Kept, Consolidating
<1>1. CASE Boot
    <2>1. /\ pc = "off" /\ op = "init" /\ cache' = Recovered
          /\ pc' \in {"erase_data", "check"}
        BY <1>t, <1>1 DEF Boot, InitCache, OpInv
    <2> QED BY <1>k, <1>p, <1>s, <2>1 DEF Consolidating
<1>2. CASE Accept
    <2>1. pc = "check" /\ pc' = "idle" /\ cache' = cache /\ op' = op /\ op = "init"
        BY <1>t, <1>2 DEF Accept, OpInv
    <2>2. Recovered' = cache'
        BY <1>t, <2>1 DEF CacheInv
    <2> QED BY <1>k, <1>p, <1>s, <2>1, <2>2
<1>3. CASE Reset
    <2>1. pc = "check" /\ ~MagicOk(cache) /\ op' = "reset"
        BY <1>3 DEF Reset
    <2>2. cache' = Defaults
        BY <1>t, <2>1 DEF OpInv
    <2>3. View(cache) = View(Defaults)
        BY <2>1, MagicFacts DEF View
    <2> QED BY <1>k, <1>p, <1>s, <2>1, <2>2, <2>3
<1>4. ASSUME NEW f \in Fields, NEW v \in Values[f], Set(f, v)
      PROVE  [Store!Next]_Stored
    <2>1. UNCHANGED flash /\ pc = "idle" /\ pc' = "append" /\ op' = "set"
        BY <1>4, SetAtom
    <2>2. Recovered' = Recovered /\ Recovered = cache
        BY <1>t, <2>1, FlashKept DEF CacheInv
    <2> QED BY <1>k, <1>p, <1>s, <2>1, <2>2
<1>5. CASE Append(Return) /\ UNCHANGED op
    <2>1. pc = "append" /\ op' = op /\ cache' = cache /\ op \in {"reset", "set"}
          /\ pc' \in {"erase_data", "append", "idle"}
        BY <1>t, <1>5 DEF Append, WriteInv, TypeOK, Return
    <2>2. CASE op = "reset"
        BY <1>k, <1>p, <1>s, <2>1, <2>2
    <2>3. CASE op = "set"
        <3>1. Kept = Recovered
            BY <1>k, <2>1, <2>3
        <3>2. Kept' = Recovered'
            <4>1. CASE pc' = "erase_data"
                <5>1. Recovered' = cache'
                    BY <1>t, <2>1, <2>3, <4>1 DEF EraseInv
                <5> QED BY <1>p, <4>1, <5>1 DEF Consolidating
            <4>2. CASE pc' # "erase_data"
                BY <1>p, <2>1, <2>3, <4>2
            <4> QED BY <4>1, <4>2
        <3>3. \E f \in Fields : \E v \in Values[f] :
                  View(Recovered') = [View(Recovered) EXCEPT ![f] = v]
            BY <1>5, <2>3, AppendView
        <3>4. Store!Set
            BY <1>v, <3>1, <3>2, <3>3 DEF Store!Set
        <3> QED BY <3>4 DEF Store!Next
    <2> QED BY <2>1, <2>2, <2>3
<1>6. CASE (EraseData \/ EraseLog \/ ProgramBatch) /\ UNCHANGED op
    <2>1. pc \in Consolidating /\ pc' \in Consolidating /\ cache' = cache
        BY <1>6 DEF EraseData, EraseLog, ProgramBatch, Consolidating
    <2> QED BY <1>k, <1>p, <1>s, <2>1
<1>7. CASE ProgramHash(Return) /\ UNCHANGED op
    <2>1. pc \in Consolidating /\ cache' = cache /\ pc' \in {"check", "idle"}
        BY <1>7 DEF ProgramHash, Return, Consolidating
    <2>2. Recovered' = cache'
        BY <1>t, <2>1 DEF CacheInv
    <2> QED BY <1>k, <1>p, <1>s, <2>1, <2>2
<1>8. CASE Restart
    <2>1. /\ pc # "off" /\ ~ResetTorn /\ UNCHANGED flash
          /\ pc' = "off" /\ op' = "init"
        BY <1>8 DEF Restart
    <2>2. Kept' = Recovered
        BY <1>p, <2>1, FlashKept
    <2>3. CASE op = "reset" /\ pc \in {"append", "erase_data", "erase_log"}
        <3>1. pos < MagicLen
            BY <1>t, <2>1, <2>3, MagicFacts, Arithmetic
               DEF ResetTorn, TypeOK, WearLevelingType
        <3>2. ~HasMark(Recovered)
            BY <1>t, <2>3, <3>1 DEF ResetInv, Resetting
        <3>3. Kept = Defaults
            BY <1>t, <1>k, <2>3 DEF OpInv
        <3> QED BY <1>s, <2>2, <3>2, <3>3, ViewFacts
    <2>4. CASE op = "reset" /\ pc = "program"
        <3>1. Recovered = Zeros
            BY <1>t, <2>4, NothingRecovered DEF WriteInv
        <3>2. Kept = Defaults
            BY <1>t, <1>k, <2>4 DEF OpInv
        <3> QED BY <1>s, <2>2, <3>1, <3>2, ViewFacts
    <2>5. CASE pc \in {"check", "idle"}
        <3>1. Recovered = cache
            BY <1>t, <2>5 DEF CacheInv
        <3>2. Kept = cache
            BY <3>1 DEF Kept
        <3> QED BY <1>s, <2>2, <3>1, <3>2
    <2>6. CASE pc = "append" /\ op # "reset"
        BY <1>k, <1>s, <2>2, <2>6
    <2>7. CASE pc \in Consolidating /\ op # "reset"
        <3>1. Kept = cache
            BY <1>k, <2>7
        <3>2. CASE MagicOk(Recovered)
            <4>1. Recovered = cache
                BY <2>7, <3>2, TotalLoss DEF LossIsTotal
            <4> QED BY <1>s, <2>2, <3>1, <4>1
        <3>3. CASE ~MagicOk(Recovered)
            <4>1. View(Recovered) = View(Defaults)
                BY <3>3, MagicFacts DEF View
            <4>2. Stored' = [f \in Fields |-> Of(f, Defaults)]
                BY <1>v, <2>2, <4>1, ViewFacts
            <4>3. Store!Forget
                BY <4>2 DEF Store!Forget
            <4> QED BY <4>3 DEF Store!Next
        <3> QED BY <3>2, <3>3
    <2> QED BY <1>t, <2>1, <2>3, <2>4, <2>5, <2>6, <2>7 DEF TypeOK, Consolidating
<1>9. CASE UNCHANGED vars
    <2>1. UNCHANGED flash /\ UNCHANGED <<cache, pc, op>>
        BY <1>9 DEF vars, flash
    <2>2. Recovered' = Recovered
        BY <2>1, FlashKept
    <2>3. Kept' = Kept
        BY <2>1, <2>2 DEF Kept, Consolidating
    <2> QED BY <1>s, <2>3
<1> QED BY <1>1, <1>2, <1>3, <1>4, <1>5, <1>6, <1>7, <1>8, <1>9 DEF Next, WearLevel

LEMMA InitAtomic == Init /\ Inv => Store!Init
<1> SUFFICES ASSUME Init, Inv PROVE Store!Init
    OBVIOUS
<1>1. FilledTo(log, 0) /\ TypeOK /\ hash = NoHash /\ pc = "off" /\ op = "init"
    BY DEF Init, FilledTo, Slots, Inv
<1>2. Kept = Zeros
    BY <1>1, NothingRecovered DEF Kept, Consolidating
<1> QED BY <1>2, ViewFacts DEF Store!Init

\* The invariants of atomicity hold when settings_reset is not cut.
THEOREM AtomInvariance == ASSUME ~ResetTears PROVE Spec => [](Inv /\ AtomInv)
<1>1. Init => Inv /\ AtomInv
    BY InitInv, InitAtom
<1>2. Inv /\ AtomInv /\ [Next]_vars => (Inv /\ AtomInv)'
    BY StepInv, StepAtom
<1> QED BY <1>1, <1>2, PTL DEF Spec

\* A restart in a consolidation finds every setting as it was, or no magic and
\* so the defaults: never a mixture.
THEOREM LossTotal == ASSUME ~ResetTears PROVE Spec => []LossIsTotal
<1>1. Inv /\ AtomInv => LossIsTotal
    BY TotalLoss
<1> QED BY <1>1, AtomInvariance, PTL

\* What settings_init finds after a restart changes like an abstract store of
\* settings: one setting at a time, or all of them to the defaults.
THEOREM AtomicSettings == ASSUME ~ResetTears PROVE Spec => SettingsAtomic
<1>1. Init /\ Inv => Store!Init
    BY InitAtomic
<1>2. Inv /\ AtomInv /\ (Inv /\ AtomInv)' /\ [Next]_vars => [Store!Next]_Stored
    BY StepAtomic
<1>3. Spec => [](Inv /\ AtomInv)
    BY AtomInvariance
<1> QED BY <1>1, <1>2, <1>3, PTL DEF Spec, SettingsAtomic, Store!Spec
=============================================================================
