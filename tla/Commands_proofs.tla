---------------------------- MODULE Commands_proofs ----------------------------
(***************************************************************************)
(* Proofs about Commands.  The inductive invariant says what the parser    *)
(* holds when the library pokes: the bytes of the call so far; the same    *)
(* without one; the beginning of a command that is none; or all bytes but  *)
(* one of an earlier attempt.  Only the first can execute anything, and    *)
(* the others are gone after two attempts.                                 *)
(***************************************************************************)
EXTENDS Commands, SequenceTheorems, TLAPS

\* The theorems are about bytes that are lost one at a time: the next one may be
\* once the attempts have failed that the last one excuses.  With more, the
\* bytes of two calls can make up one that nobody made (TLC finds it).
OneLoss == MaxOwed \in Nat /\ MaxOwed <= LossCost
AllUnmistakable == \A op \in Ops : Unmistakable(op)

SlowCmds == {"KV_SET", "ERASE_FLASH_SECTOR", "WRITE_FLASH_SECTOR", "TEST_BUSY"}

\* The first n bytes of a call without the k-th.
Without(op, k, n) ==
    [i \in 1..(n - 1) |-> IF i < k THEN Pokes(op)[i] ELSE Pokes(op)[i + 1]]

\* The parser has seen the first n bytes of a call but the k-th.  One that misses
\* a byte of the command itself drops it with the next byte.
Misses(op, n) ==
    \E k \in 1..n : (k <= 4 => n = k) /\ rx = Without(op, k, n)

\* It still waits for the last byte of an attempt that is over.
Awaits == \E op \in Ops : Misses(op, Len(Pokes(op)))

\* It has dropped a byte since the attempt began, and may have seen the beginning
\* of a command since.
Dropped(op, n) ==
    \/ rx = <<>>
    \/ \E m \in 2..n :
          n < m + 3 /\ rx = SubSeq(Pokes(op), m, n) /\ Matching(rx) # {}

\* What the parser holds while the library pokes.
Parsing ==
    \/ rx = SubSeq(Pokes(call.op), 1, call.n)
    \/ /\ owed > 0
       /\ IF call.n = 0 THEN Awaits
          ELSE \/ owed = LossCost /\ Misses(call.op, call.n)
               \/ Dropped(call.op, call.n)

Busys(m) == [i \in 1..m |-> BUSY]

\* A command is refused, whether that has been said or not.
Refusal ==
    \/ answer = <<>> /\ \E c \in FlashCmds : busy = [NoReq EXCEPT !.cmd = c]
    \/ busy = NoReq /\ \E m \in 0..MaxBusyLeft : answer = Busys(m) \o <<ERR>>

\* What a call is for has been done.
Done ==
    LET op == call.op
    IN  /\ op.cmd = "KV_SET" =>
              settings[op.args[1]] = Stored(op.args[1], op.args[2])
        /\ op.cmd = "WRITE_LOCK" => lock = (op.args[1] # 0)
        /\ op.cmd = "DISABLE_NEXT_OSDSYS_HOOK" => hook_off
        /\ op.cmd = "REBOOT" => reboot

\* The words behind the status word of the call's answer.
Data == Payload(call.op.cmd, call.op.args)
Words == Data \o (IF HasCrc(call.op.cmd, call.op.args) THEN <<<<"crc", Data>>>> ELSE <<>>)

\* The chip executes the call, or has executed it and its answer is being read.
Serving ==
    \/ /\ call.pc = "status" /\ call.op.cmd \in SlowCmds
       /\ \/ /\ busy = AskedBusy /\ answer = <<>>
             /\ InRange(call.op.cmd, call.op.args)
          \/ /\ busy = NoReq /\ Done
             /\ \E m \in 0..MaxBusyLeft : answer = Busys(m) \o <<OK>>
    \/ /\ call.pc = "status" /\ call.op.cmd \notin SlowCmds
       /\ busy = NoReq /\ Done /\ answer = <<OK>> \o Words
    \/ /\ call.pc = "data" /\ busy = NoReq /\ Done
       /\ Len(call.got) < DataWords(call.op.cmd, call.op.args)
       /\ call.got = SubSeq(Data, 1, Len(call.got))
       /\ answer = SubSeq(Words, Len(call.got) + 1, Len(Words))
    \/ /\ call.pc = "crc" /\ busy = NoReq /\ Done
       /\ call.got = Data /\ answer = <<<<"crc", Data>>>>

-----------------------------------------------------------------------------
CallInv ==
    /\ call = [pc |-> call.pc, op |-> call.op, n |-> call.n, try |-> call.try,
               got |-> call.got, res |-> call.res]
    /\ call.pc \in {"idle", "poke", "status", "data", "crc"}
    /\ call.pc = "poke" => call.n < Len(Pokes(call.op))
    /\ call.pc \in {"poke", "status"} => call.got = <<>>
    /\ call.res = "ok" => call.pc = "idle"
    /\ settings \in [Keys -> Nat]
    /\ owed \in 0..LossCost

\* The chip listens.
ListenInv ==
    Sniffing =>
        CASE call.pc = "poke" -> Parsing
          [] call.pc = "idle" -> rx = <<>> \/ (owed > 0 /\ Awaits)
          [] OTHER -> /\ call.pc = "status" /\ owed > 0
                      /\ rx = <<>> \/ (owed = LossCost /\ Awaits)

\* It answers: the call, or what the missing byte of an earlier one completed.
AnswerInv ==
    ~Sniffing =>
        /\ rx = <<>>
        /\ \/ Refusal /\ owed > 0 /\ call.pc \in {"idle", "poke", "status"}
           \/ /\ Refusal /\ call.pc = "status"
              /\ ~InRange(call.op.cmd, call.op.args)
              /\ call.op.cmd \in FlashCmds \/ answer = <<ERR>>
           \/ Serving

IInv == TypeOK /\ CallInv /\ ListenInv /\ AnswerInv /\ SuccessIsTrue

\* The parser holds a flash command, or the beginning of its arguments.
HoldsFlash == \E c \in FlashCmds : \A i \in 1..4 : i \in DOMAIN rx /\ rx[i] = Code[c][i]

\* Unless a flash command has failed in all its attempts, nothing of one is left for a
\* call of another kind, and a refusal comes without BUSY words.
LeftInv ==
    ~flash_failed
    /\ \/ call.pc = "idle"
       \/ call.pc \in {"poke", "status"} /\ call.op.cmd \notin FlashCmds
    => ~HoldsFlash /\ (Refusal => answer = <<ERR>>)

-----------------------------------------------------------------------------
(***************************************************************************)
(* Commands and their encoding                                             *)
(***************************************************************************)
Thirds == {97, 8, 110, 44, 56, 184, 39, 177, 106, 87, 58, 93, 151, 154, 119, 6, 49,
           205, 11, 100, 167}

CmdOf(b) ==
    CASE b = 97 -> "DISABLE_NEXT_OSDSYS_HOOK" [] b = 8 -> "GET_EE_STAGE1_SIZE"
      [] b = 110 -> "GET_EE_STAGE2_SIZE" [] b = 44 -> "GET_EE_STAGE2"
      [] b = 56 -> "READ_EE_STAGE3" [] b = 184 -> "READ_APP" [] b = 39 -> "KV_GET"
      [] b = 177 -> "KV_SET" [] b = 106 -> "FW_GIT_REV"
      [] b = 87 -> "BOOTLOADER_GIT_REV" [] b = 58 -> "GET_PARTITION_SIZE"
      [] b = 93 -> "GET_FLASH_SECTOR_SIZE" [] b = 151 -> "WRITE_LOCK"
      [] b = 154 -> "ERASE_FLASH_SECTOR" [] b = 119 -> "WRITE_FLASH_SECTOR"
      [] b = 6 -> "REBOOT" [] b = 49 -> "PIN_CONFIG" [] b = 205 -> "TEST_STATUS"
      [] b = 11 -> "TEST_STATUS_DATA" [] b = 100 -> "TEST_STATUS_DATA_CRC"
      [] b = 167 -> "TEST_BUSY"

\* The four bytes of a command: the third one tells which it is.
LEMMA CodeShape ==
    ASSUME NEW c \in Cmds
    PROVE  /\ Code[c] \in Seq(Octet) /\ Len(Code[c]) = 4
           /\ Code[c][1] = Prefix /\ Code[c][2] \in {Group0, Group1}
           /\ Code[c][3] \in Thirds /\ Code[c][4] \notin Thirds
           /\ Code[c][4] # Prefix
           /\ CmdOf(Code[c][3]) = c
<1>1. Cmds = {"DISABLE_NEXT_OSDSYS_HOOK", "GET_EE_STAGE1_SIZE", "GET_EE_STAGE2_SIZE",
        "GET_EE_STAGE2", "READ_EE_STAGE3", "READ_APP", "KV_GET", "KV_SET",
        "FW_GIT_REV", "BOOTLOADER_GIT_REV", "GET_PARTITION_SIZE",
        "GET_FLASH_SECTOR_SIZE", "WRITE_LOCK", "ERASE_FLASH_SECTOR",
        "WRITE_FLASH_SECTOR", "REBOOT", "PIN_CONFIG", "TEST_STATUS",
        "TEST_STATUS_DATA", "TEST_STATUS_DATA_CRC", "TEST_BUSY"}
    BY DEF Cmds, Code
<1> DEFINE R(s, t) == /\ s \in Seq(Octet) /\ Len(s) = 4
           /\ s[1] = Prefix /\ s[2] \in {Group0, Group1}
           /\ s[3] \in Thirds /\ s[4] \notin Thirds /\ s[4] # Prefix
           /\ CmdOf(s[3]) = t
<1>2. CASE c = "DISABLE_NEXT_OSDSYS_HOOK"
    <2>1. Code[c] = <<Prefix, Group0, 97, 28>>
        BY <1>2 DEF Code
    <2>2. R(<<Prefix, Group0, 97, 28>>, "DISABLE_NEXT_OSDSYS_HOOK")
        BY DEF Prefix, Group0, Group1, Thirds, CmdOf, Octet
    <2> QED BY <1>2, <2>1, <2>2
<1>3. CASE c = "GET_EE_STAGE1_SIZE"
    <2>1. Code[c] = <<Prefix, Group0, 8, 208>>
        BY <1>3 DEF Code
    <2>2. R(<<Prefix, Group0, 8, 208>>, "GET_EE_STAGE1_SIZE")
        BY DEF Prefix, Group0, Group1, Thirds, CmdOf, Octet
    <2> QED BY <1>3, <2>1, <2>2
<1>4. CASE c = "GET_EE_STAGE2_SIZE"
    <2>1. Code[c] = <<Prefix, Group0, 110, 196>>
        BY <1>4 DEF Code
    <2>2. R(<<Prefix, Group0, 110, 196>>, "GET_EE_STAGE2_SIZE")
        BY DEF Prefix, Group0, Group1, Thirds, CmdOf, Octet
    <2> QED BY <1>4, <2>1, <2>2
<1>5. CASE c = "GET_EE_STAGE2"
    <2>1. Code[c] = <<Prefix, Group0, 44, 136>>
        BY <1>5 DEF Code
    <2>2. R(<<Prefix, Group0, 44, 136>>, "GET_EE_STAGE2")
        BY DEF Prefix, Group0, Group1, Thirds, CmdOf, Octet
    <2> QED BY <1>5, <2>1, <2>2
<1>6. CASE c = "READ_EE_STAGE3"
    <2>1. Code[c] = <<Prefix, Group0, 56, 115>>
        BY <1>6 DEF Code
    <2>2. R(<<Prefix, Group0, 56, 115>>, "READ_EE_STAGE3")
        BY DEF Prefix, Group0, Group1, Thirds, CmdOf, Octet
    <2> QED BY <1>6, <2>1, <2>2
<1>7. CASE c = "READ_APP"
    <2>1. Code[c] = <<Prefix, Group0, 184, 51>>
        BY <1>7 DEF Code
    <2>2. R(<<Prefix, Group0, 184, 51>>, "READ_APP")
        BY DEF Prefix, Group0, Group1, Thirds, CmdOf, Octet
    <2> QED BY <1>7, <2>1, <2>2
<1>8. CASE c = "KV_GET"
    <2>1. Code[c] = <<Prefix, Group0, 39, 29>>
        BY <1>8 DEF Code
    <2>2. R(<<Prefix, Group0, 39, 29>>, "KV_GET")
        BY DEF Prefix, Group0, Group1, Thirds, CmdOf, Octet
    <2> QED BY <1>8, <2>1, <2>2
<1>9. CASE c = "KV_SET"
    <2>1. Code[c] = <<Prefix, Group0, 177, 64>>
        BY <1>9 DEF Code
    <2>2. R(<<Prefix, Group0, 177, 64>>, "KV_SET")
        BY DEF Prefix, Group0, Group1, Thirds, CmdOf, Octet
    <2> QED BY <1>9, <2>1, <2>2
<1>10. CASE c = "FW_GIT_REV"
    <2>1. Code[c] = <<Prefix, Group0, 106, 30>>
        BY <1>10 DEF Code
    <2>2. R(<<Prefix, Group0, 106, 30>>, "FW_GIT_REV")
        BY DEF Prefix, Group0, Group1, Thirds, CmdOf, Octet
    <2> QED BY <1>10, <2>1, <2>2
<1>11. CASE c = "BOOTLOADER_GIT_REV"
    <2>1. Code[c] = <<Prefix, Group0, 87, 27>>
        BY <1>11 DEF Code
    <2>2. R(<<Prefix, Group0, 87, 27>>, "BOOTLOADER_GIT_REV")
        BY DEF Prefix, Group0, Group1, Thirds, CmdOf, Octet
    <2> QED BY <1>11, <2>1, <2>2
<1>12. CASE c = "GET_PARTITION_SIZE"
    <2>1. Code[c] = <<Prefix, Group0, 58, 80>>
        BY <1>12 DEF Code
    <2>2. R(<<Prefix, Group0, 58, 80>>, "GET_PARTITION_SIZE")
        BY DEF Prefix, Group0, Group1, Thirds, CmdOf, Octet
    <2> QED BY <1>12, <2>1, <2>2
<1>13. CASE c = "GET_FLASH_SECTOR_SIZE"
    <2>1. Code[c] = <<Prefix, Group0, 93, 103>>
        BY <1>13 DEF Code
    <2>2. R(<<Prefix, Group0, 93, 103>>, "GET_FLASH_SECTOR_SIZE")
        BY DEF Prefix, Group0, Group1, Thirds, CmdOf, Octet
    <2> QED BY <1>13, <2>1, <2>2
<1>14. CASE c = "WRITE_LOCK"
    <2>1. Code[c] = <<Prefix, Group0, 151, 7>>
        BY <1>14 DEF Code
    <2>2. R(<<Prefix, Group0, 151, 7>>, "WRITE_LOCK")
        BY DEF Prefix, Group0, Group1, Thirds, CmdOf, Octet
    <2> QED BY <1>14, <2>1, <2>2
<1>15. CASE c = "ERASE_FLASH_SECTOR"
    <2>1. Code[c] = <<Prefix, Group0, 154, 40>>
        BY <1>15 DEF Code
    <2>2. R(<<Prefix, Group0, 154, 40>>, "ERASE_FLASH_SECTOR")
        BY DEF Prefix, Group0, Group1, Thirds, CmdOf, Octet
    <2> QED BY <1>15, <2>1, <2>2
<1>16. CASE c = "WRITE_FLASH_SECTOR"
    <2>1. Code[c] = <<Prefix, Group0, 119, 52>>
        BY <1>16 DEF Code
    <2>2. R(<<Prefix, Group0, 119, 52>>, "WRITE_FLASH_SECTOR")
        BY DEF Prefix, Group0, Group1, Thirds, CmdOf, Octet
    <2> QED BY <1>16, <2>1, <2>2
<1>17. CASE c = "REBOOT"
    <2>1. Code[c] = <<Prefix, Group0, 6, 109>>
        BY <1>17 DEF Code
    <2>2. R(<<Prefix, Group0, 6, 109>>, "REBOOT")
        BY DEF Prefix, Group0, Group1, Thirds, CmdOf, Octet
    <2> QED BY <1>17, <2>1, <2>2
<1>18. CASE c = "PIN_CONFIG"
    <2>1. Code[c] = <<Prefix, Group0, 49, 4>>
        BY <1>18 DEF Code
    <2>2. R(<<Prefix, Group0, 49, 4>>, "PIN_CONFIG")
        BY DEF Prefix, Group0, Group1, Thirds, CmdOf, Octet
    <2> QED BY <1>18, <2>1, <2>2
<1>19. CASE c = "TEST_STATUS"
    <2>1. Code[c] = <<Prefix, Group1, 205, 24>>
        BY <1>19 DEF Code
    <2>2. R(<<Prefix, Group1, 205, 24>>, "TEST_STATUS")
        BY DEF Prefix, Group0, Group1, Thirds, CmdOf, Octet
    <2> QED BY <1>19, <2>1, <2>2
<1>20. CASE c = "TEST_STATUS_DATA"
    <2>1. Code[c] = <<Prefix, Group1, 11, 42>>
        BY <1>20 DEF Code
    <2>2. R(<<Prefix, Group1, 11, 42>>, "TEST_STATUS_DATA")
        BY DEF Prefix, Group0, Group1, Thirds, CmdOf, Octet
    <2> QED BY <1>20, <2>1, <2>2
<1>21. CASE c = "TEST_STATUS_DATA_CRC"
    <2>1. Code[c] = <<Prefix, Group1, 100, 120>>
        BY <1>21 DEF Code
    <2>2. R(<<Prefix, Group1, 100, 120>>, "TEST_STATUS_DATA_CRC")
        BY DEF Prefix, Group0, Group1, Thirds, CmdOf, Octet
    <2> QED BY <1>21, <2>1, <2>2
<1>22. CASE c = "TEST_BUSY"
    <2>1. Code[c] = <<Prefix, Group1, 167, 92>>
        BY <1>22 DEF Code
    <2>2. R(<<Prefix, Group1, 167, 92>>, "TEST_BUSY")
        BY DEF Prefix, Group0, Group1, Thirds, CmdOf, Octet
    <2> QED BY <1>22, <2>1, <2>2
<1> QED BY <1>1, <1>2, <1>3, <1>4, <1>5, <1>6, <1>7, <1>8, <1>9, <1>10, <1>11,
           <1>12, <1>13, <1>14, <1>15, <1>16, <1>17, <1>18, <1>19, <1>20, <1>21, <1>22

\* What the table of widths says of every command.
LEMMA WidthsShape ==
    ASSUME NEW c \in Cmds
    PROVE  /\ Widths(c) \in Seq({1, 2, 4}) /\ Len(Widths(c)) <= 4
           /\ c = "WRITE_FLASH_SECTOR" => Widths(c) = <<1, 4, 4>>
           /\ IsFlag(c, Len(Widths(c))) => Widths(c)[Len(Widths(c))] = 1
<1> DEFINE R(s) == s \in Seq({1, 2, 4}) /\ Len(s) <= 4
<1>1. R(<<2>>) /\ R(<<2, 4>>) /\ R(<<1, 4, 4, 1>>) /\ R(<<4, 4, 1>>) /\ R(<<1, 4, 4>>)
         /\ R(<<1>>) /\ R(<<>>)
    OBVIOUS
<1>2. Widths(c) \in {<<2>>, <<2, 4>>, <<1, 4, 4, 1>>, <<4, 4, 1>>, <<1, 4, 4>>, <<1>>, <<>>}
    BY DEF Widths
<1>3. R(Widths(c))
    BY <1>1, <1>2
<1>4. c = "WRITE_FLASH_SECTOR" => Widths(c) = <<1, 4, 4>>
    BY DEF Widths
<1>5. IsFlag(c, Len(Widths(c))) => Widths(c)[Len(Widths(c))] = 1
    <2> SUFFICES ASSUME c \in {"READ_APP", "READ_EE_STAGE3"}
                 PROVE  Widths(c)[Len(Widths(c))] = 1
        BY DEF IsFlag
    <2>1. Widths(c) = <<1, 4, 4, 1>> \/ Widths(c) = <<4, 4, 1>>
        BY DEF Widths
    <2>2. CASE Widths(c) = <<1, 4, 4, 1>>
        <3>1. Len(<<1, 4, 4, 1>>) = 4 /\ <<1, 4, 4, 1>>[4] = 1
            OBVIOUS
        <3> QED BY <2>2, <3>1
    <2>3. CASE Widths(c) = <<4, 4, 1>>
        <3>1. Len(<<4, 4, 1>>) = 3 /\ <<4, 4, 1>>[3] = 1
            OBVIOUS
        <3> QED BY <2>3, <3>1
    <2> QED BY <2>1, <2>2, <2>3
<1> QED BY <1>3, <1>4, <1>5

\* Sums of widths
LEMMA SumOfStep ==
    ASSUME NEW ws \in Seq({1, 2, 4}), Len(ws) <= 4
    PROVE  /\ SumOf(ws, 0) = 0
           /\ \A i \in 0..4 : SumOf(ws, i) \in Nat
           /\ \A i \in 1..4 : SumOf(ws, i) = SumOf(ws, i - 1)
                                 + (IF i <= Len(ws) THEN ws[i] ELSE 0)
<1> DEFINE v(i) == IF i <= Len(ws) THEN ws[i] ELSE 0
<1>0. Len(ws) \in Nat
    OBVIOUS
<1>1. \A i \in 1..4 : v(i) \in Nat
    <2> TAKE i \in 1..4
    <2>1. CASE i <= Len(ws)
        <3>1. i \in 1..Len(ws)
            BY <1>0, <2>1
        <3>2. ws[i] \in {1, 2, 4}
            BY <3>1
        <3> QED BY <2>1, <3>2
    <2> QED BY <2>1
<1>2. /\ SumOf(ws, 0) = 0
      /\ SumOf(ws, 1) = v(1)
      /\ SumOf(ws, 2) = v(1) + v(2)
      /\ SumOf(ws, 3) = v(1) + v(2) + v(3)
      /\ SumOf(ws, 4) = v(1) + v(2) + v(3) + v(4)
    BY <1>0, <1>1 DEF SumOf
<1>3. \A i \in 0..4 : i = 0 \/ i = 1 \/ i = 2 \/ i = 3 \/ i = 4
    OBVIOUS
<1>4. \A i \in 0..4 : SumOf(ws, i) \in Nat
    <2> HIDE DEF v
    <2> QED BY <1>1, <1>2, <1>3
<1>5. \A i \in 1..4 : SumOf(ws, i) = SumOf(ws, i - 1) + v(i)
    <2> HIDE DEF v
    <2> TAKE i \in 1..4
    <2>1. CASE i = 1
        BY <1>1, <1>2, <2>1
    <2>2. CASE i = 2
        BY <1>1, <1>2, <2>2
    <2>3. CASE i = 3
        BY <1>1, <1>2, <2>3
    <2>4. CASE i = 4
        BY <1>1, <1>2, <2>4
    <2> QED BY <2>1, <2>2, <2>3, <2>4
<1> QED BY <1>2, <1>4, <1>5

\* The bytes in front of argument i of a command.
At(c, i) == 4 + 2 * SumOf(Widths(c), i - 1)

\* Where each argument of a command begins among the bytes received.
LEMMA AtStep ==
    ASSUME NEW c \in Cmds
    PROVE  /\ At(c, 1) = 4
           /\ \A i \in 1..5 : At(c, i) \in Nat /\ At(c, i) >= 4
           /\ \A i \in 1..4 : At(c, i + 1) = At(c, i)
                                 + 2 * (IF i <= Len(Widths(c)) THEN Widths(c)[i] ELSE 0)
           /\ \A i \in 1..5 : i > Len(Widths(c)) => At(c, i) = At(c, 5)
           /\ ArgBytes(c) \in Nat
           /\ 4 + ArgBytes(c) = At(c, 5)
                 + (IF c = "WRITE_FLASH_SECTOR" THEN SectorBytes ELSE 0)
<1> DEFINE ws == Widths(c)
           v(i) == IF i <= Len(ws) THEN ws[i] ELSE 0
<1>1. ws \in Seq({1, 2, 4}) /\ Len(ws) <= 4 /\ Len(ws) \in Nat
    BY WidthsShape
<1>2. /\ SumOf(ws, 0) = 0
      /\ \A i \in 0..4 : SumOf(ws, i) \in Nat
      /\ \A i \in 1..4 : SumOf(ws, i) = SumOf(ws, i - 1) + v(i)
    BY <1>1, SumOfStep
<1>3. \A i \in 1..4 : v(i) \in Nat
    <2> TAKE i \in 1..4
    <2>1. CASE i <= Len(ws)
        <3>1. i \in 1..Len(ws)
            BY <1>1, <2>1
        <3>2. ws[i] \in {1, 2, 4}
            BY <1>1, <3>1
        <3> QED BY <2>1, <3>2
    <2> QED BY <2>1
<1>4. \A i \in 1..5 : At(c, i) = 4 + 2 * SumOf(ws, i - 1)
    BY DEF At
<1>5. ArgBytes(c) = 2 * SumOf(ws, 4)
                       + (IF c = "WRITE_FLASH_SECTOR" THEN SectorBytes ELSE 0)
    BY DEF ArgBytes
<1>6. \A i \in 1..4 : v(i) = IF i <= Len(ws) THEN ws[i] ELSE 0
    OBVIOUS
<1>7. SectorBytes \in Nat
    BY OpsAssumption
<1> HIDE DEF ws, v
<1>8. \A i \in 1..5 : i - 1 \in 0..4
    OBVIOUS
<1>9. \A i \in 1..5 : At(c, i) \in Nat /\ At(c, i) >= 4
    BY <1>2, <1>4, <1>8
<1>10. At(c, 1) = 4
    BY <1>2, <1>4
<1>11. \A i \in 1..4 : At(c, i + 1) = At(c, i) + 2 * v(i)
    <2> TAKE i \in 1..4
    <2>1. i \in 1..5 /\ i + 1 \in 1..5 /\ (i + 1) - 1 = i /\ i \in 0..4 /\ i - 1 \in 0..4
        OBVIOUS
    <2>2. At(c, i) = 4 + 2 * SumOf(ws, i - 1) /\ At(c, i + 1) = 4 + 2 * SumOf(ws, i)
        BY <1>4, <2>1
    <2>3. SumOf(ws, i) = SumOf(ws, i - 1) + v(i)
        BY <1>2
    <2>4. SumOf(ws, i) \in Nat /\ SumOf(ws, i - 1) \in Nat /\ v(i) \in Nat
        BY <1>2, <1>3, <2>1
    <2> QED BY <2>2, <2>3, <2>4
<1>12. \A i \in 1..5 : i > Len(ws) => At(c, i) = At(c, 5)
    <2>1. \A i \in 1..4 : i > Len(ws) => At(c, i + 1) = At(c, i)
        <3> TAKE i \in 1..4
        <3> HAVE i > Len(ws)
        <3>1. v(i) = 0
            BY <1>1, <1>6
        <3>2. At(c, i) \in Nat
            BY <1>9
        <3> QED BY <1>11, <3>1, <3>2
    <2>2. 4 > Len(ws) => At(c, 5) = At(c, 4)
        BY <2>1
    <2>3. 3 > Len(ws) => At(c, 4) = At(c, 3)
        BY <2>1
    <2>4. 2 > Len(ws) => At(c, 3) = At(c, 2)
        BY <2>1
    <2>5. 1 > Len(ws) => At(c, 2) = At(c, 1)
        BY <2>1
    <2>6. \A i \in 1..5 : i = 1 \/ i = 2 \/ i = 3 \/ i = 4 \/ i = 5
        OBVIOUS
    <2> QED BY <1>1, <2>2, <2>3, <2>4, <2>5, <2>6
<1>13. 4 + ArgBytes(c) = At(c, 5)
                 + (IF c = "WRITE_FLASH_SECTOR" THEN SectorBytes ELSE 0)
    BY <1>2, <1>4, <1>5, <1>7
<1>14. ArgBytes(c) \in Nat
    BY <1>2, <1>5, <1>7
<1> QED BY <1>6, <1>9, <1>10, <1>11, <1>12, <1>13, <1>14 DEF ws

\* Two sequences, one behind the other.
LEMMA Concat2 ==
    ASSUME NEW S, NEW a \in Seq(S), NEW b \in Seq(S)
    PROVE  /\ a \o b \in Seq(S)
           /\ Len(a \o b) = Len(a) + Len(b)
           /\ \A i \in 1..Len(a) : (a \o b)[i] = a[i]
           /\ \A i \in 1..Len(b) : (a \o b)[Len(a) + i] = b[i]
<1>0. Len(a) \in Nat /\ Len(b) \in Nat
    OBVIOUS
<1>1. /\ a \o b \in Seq(S) /\ Len(a \o b) = Len(a) + Len(b)
      /\ \A i \in 1..(Len(a) + Len(b)) :
            (a \o b)[i] = IF i <= Len(a) THEN a[i] ELSE b[i - Len(a)]
    BY ConcatProperties
<1> QED BY <1>0, <1>1

\* An argument as it is poked, byte by byte.
LEMMA WithComplementShape ==
    ASSUME NEW v \in Nat, NEW w \in Nat, w \in {1, 2, 4}
    PROVE  /\ Bytes(v, w) \in Seq(Octet) /\ Len(Bytes(v, w)) = w
           /\ WithComplement(v, w) \in Seq(Octet) /\ Len(WithComplement(v, w)) = 2 * w
           /\ \A i \in 1..w : WithComplement(v, w)[i] = Bytes(v, w)[i]
           /\ \A i \in 1..w : WithComplement(v, w)[w + i] = 255 - Bytes(v, w)[i]
<1> DEFINE b == Bytes(v, w)
           d == Complement(b)
<1>0. \A x \in Octet : x \in Int /\ 255 - x \in Octet
    BY SMT DEF Octet
<1>1. \A i \in 1..w : (v \div Place[i]) % 256 \in Octet
    <2> TAKE i \in 1..w
    <2>1. Place[i] \in {1, 256, 65536, 16777216}
        <3>1. i = 1 \/ i = 2 \/ i = 3 \/ i = 4
            OBVIOUS
        <3> QED BY <3>1 DEF Place
    <2>2. v \div Place[i] \in Int
        BY <2>1
    <2>3. \A z \in Int : z % 256 \in Octet
        BY DEF Octet
    <2> QED BY <2>2, <2>3
<1>2. b = [i \in 1..w |-> (v \div Place[i]) % 256]
    BY DEF Bytes
<1>3. b \in [1..w -> Octet]
    BY <1>1, <1>2
<1>4. b \in Seq(Octet) /\ Len(b) = w /\ DOMAIN b = 1..w
    BY <1>3
<1>5. d = [i \in 1..w |-> 255 - b[i]]
    BY <1>4 DEF Complement
<1>6. d \in [1..w -> Octet]
    <2> HIDE DEF b, d
    <2> QED BY <1>0, <1>3, <1>5
<1>7. d \in Seq(Octet) /\ Len(d) = w
    BY <1>6
<1>9. WithComplement(v, w) = b \o d
    BY DEF WithComplement
<1>10. /\ b \o d \in Seq(Octet) /\ Len(b \o d) = w + w
       /\ \A i \in 1..w : (b \o d)[i] = b[i]
       /\ \A i \in 1..w : (b \o d)[w + i] = d[i]
    <2> HIDE DEF b, d
    <2> QED BY <1>4, <1>7, Concat2
<1>11. \A i \in 1..w : d[i] = 255 - b[i]
    BY <1>5
<1> HIDE DEF d
<1> QED BY <1>4, <1>9, <1>10, <1>11

\* The bytes of an argument.
LEMMA BytesShape ==
    ASSUME NEW v \in Nat, NEW w \in Nat, w \in {1, 2, 4}
    PROVE  Bytes(v, w) \in Seq(Octet) /\ Len(Bytes(v, w)) = w
BY WithComplementShape

\* The length of an argument with its complement.
LEMMA WithComplementLen ==
    ASSUME NEW v \in Nat, NEW w \in Nat, w \in {1, 2, 4}
    PROVE  WithComplement(v, w) \in Seq(Octet) /\ Len(WithComplement(v, w)) = 2 * w
BY WithComplementShape

\* Each byte of an argument and the complement of it.
LEMMA ComplementShape ==
    ASSUME NEW v \in Nat, NEW w \in Nat, w \in {1, 2, 4}, NEW i \in 1..w
    PROVE  /\ WithComplement(v, w)[i] = Bytes(v, w)[i]
           /\ WithComplement(v, w)[w + i] = 255 - Bytes(v, w)[i]
<1>1. \A j \in 1..w : WithComplement(v, w)[j] = Bytes(v, w)[j]
    BY WithComplementShape
<1>2. \A j \in 1..w : WithComplement(v, w)[w + j] = 255 - Bytes(v, w)[j]
    BY WithComplementShape
<1> QED BY <1>1, <1>2

\* The largest value is a number.
LEMMA MaxValueNat == MaxValue \in Nat
BY SMT DEF MaxValue

\* What the assumption on the calls says of one of them.
LEMMA OpShape ==
    ASSUME NEW op \in Ops
    PROVE  /\ op.cmd \in Cmds
           /\ op.args \in Seq(0..MaxValue) /\ Len(op.args) = Len(Widths(op.cmd))
           /\ Len(op.args) \in 0..4
           /\ op.data \in Seq(Octet) /\ op.tries \in Nat \ {0}
           /\ \A i \in 1..Len(op.args) : op.args[i] \in Nat /\ Widths(op.cmd)[i] \in {1, 2, 4}
           /\ op = [cmd |-> op.cmd, args |-> op.args, data |-> op.data, tries |-> op.tries]
<1>1. op \in [cmd : Cmds, args : Seq(0..MaxValue), data : Seq(Octet), tries : Nat \ {0}]
         /\ Len(op.args) = Len(Widths(op.cmd))
    BY OpsAssumption
<1>2. /\ op.cmd \in Cmds /\ op.args \in Seq(0..MaxValue)
      /\ op.data \in Seq(Octet) /\ op.tries \in Nat \ {0}
      /\ op = [cmd |-> op.cmd, args |-> op.args, data |-> op.data, tries |-> op.tries]
    BY <1>1
<1>3. Widths(op.cmd) \in Seq({1, 2, 4}) /\ Len(Widths(op.cmd)) <= 4
    BY <1>2, WidthsShape
<1>4. Len(op.args) \in 0..4
    <2> DEFINE as == op.args
               ws == Widths(op.cmd)
    <2>1. as \in Seq(0..MaxValue) /\ ws \in Seq({1, 2, 4}) /\ Len(ws) <= 4 /\ Len(as) = Len(ws)
        BY <1>1, <1>2, <1>3
    <2> HIDE DEF as, ws
    <2>2. Len(as) \in Nat
        BY <2>1
    <2>3. PICK l \in Nat : l = Len(as)
        BY <2>2
    <2>4. l <= 4
        BY <2>1, <2>3
    <2>5. l \in 0..4
        BY <2>4
    <2> QED BY <2>3, <2>5 DEF as
<1>5. \A i \in 1..Len(op.args) : Widths(op.cmd)[i] \in {1, 2, 4}
    <2> DEFINE ws == Widths(op.cmd)
    <2>1. ws \in Seq({1, 2, 4}) /\ Len(ws) = Len(op.args)
        BY <1>1, <1>3
    <2> HIDE DEF ws
    <2>2. \A i \in 1..Len(ws) : ws[i] \in {1, 2, 4}
        BY <2>1
    <2> QED BY <2>1, <2>2 DEF ws
<1>6. \A i \in 1..Len(op.args) : op.args[i] \in Nat
    <2> DEFINE as == op.args
    <2>1. as \in Seq(0..MaxValue)
        BY <1>2
    <2> HIDE DEF as
    <2>2. \A i \in 1..Len(as) : as[i] \in 0..MaxValue
        BY <2>1, ElementOfSeq
    <2>3. 0..MaxValue \subseteq Nat
        BY MaxValueNat
    <2> QED BY <2>2, <2>3 DEF as
<1> QED BY <1>1, <1>2, <1>4, <1>5, <1>6

\* Concatenation of bytes, with the positions of the second part.
LEMMA Extend ==
    ASSUME NEW t \in Seq(Octet), NEW a \in Seq(Octet)
    PROVE  /\ t \o a \in Seq(Octet) /\ Len(t \o a) = Len(t) + Len(a)
           /\ \A j \in 1..Len(t) : (t \o a)[j] = t[j]
           /\ \A j \in 1..Len(a) :
                 (t \o a)[Len(t) + j] = a[j] /\ Len(t) + j \in 1..(Len(t) + Len(a))
<1>1. PICK n \in Nat, l \in Nat : n = Len(t) /\ l = Len(a)
    OBVIOUS
<1>2. \A j \in 1..l : n + j \in 1..(n + l)
    OBVIOUS
<1> QED BY <1>1, <1>2, Concat2

\* The i-th argument of a call as it is poked; nothing if it has none.
LEMMA ArgumentShape ==
    ASSUME NEW op \in Ops, NEW i \in 1..4
    PROVE  /\ Argument(op, i) \in Seq(Octet)
           /\ Len(Argument(op, i)) = 2 * (IF i <= Len(Widths(op.cmd)) THEN Widths(op.cmd)[i] ELSE 0)
           /\ i <= Len(op.args) =>
                 Argument(op, i) = WithComplement(op.args[i], Widths(op.cmd)[i])
<1>1. Len(Widths(op.cmd)) = Len(op.args) /\ Len(op.args) \in Nat
    BY OpShape
<1>2. CASE i <= Len(op.args)
    <2>0. i \in 1..Len(op.args)
        BY <1>1, <1>2
    <2>1. op.args[i] \in Nat /\ Widths(op.cmd)[i] \in {1, 2, 4}
        BY <2>0, OpShape
    <2>2. Argument(op, i) = WithComplement(op.args[i], Widths(op.cmd)[i])
        BY <1>2 DEF Argument
    <2>3. PICK v \in Nat, w \in {1, 2, 4} : v = op.args[i] /\ w = Widths(op.cmd)[i]
        BY <2>1
    <2>4. WithComplement(v, w) \in Seq(Octet) /\ Len(WithComplement(v, w)) = 2 * w
        BY WithComplementShape
    <2> QED BY <1>1, <1>2, <2>2, <2>3, <2>4
<1>3. CASE ~(i <= Len(op.args))
    <2>1. Argument(op, i) = <<>>
        BY <1>3 DEF Argument
    <2>2. <<>> \in Seq(Octet) /\ Len(<<>>) = 0
        OBVIOUS
    <2> QED BY <1>1, <1>3, <2>1, <2>2
<1> QED BY <1>2, <1>3

\* Where the bytes of a call are.
LEMMA PokesShape ==
    ASSUME NEW op \in Ops
    PROVE  /\ Pokes(op) \in Seq(Octet)
           /\ Len(Pokes(op)) = 4 + ArgBytes(op.cmd)
           /\ \A j \in 1..4 : Pokes(op)[j] = Code[op.cmd][j]
           /\ \A i \in 1..Len(op.args) : \A j \in 1..(2 * Widths(op.cmd)[i]) :
                 Pokes(op)[At(op.cmd, i) + j]
                    = WithComplement(op.args[i], Widths(op.cmd)[i])[j]
           /\ \A j \in 1..Len(op.data) : Pokes(op)[At(op.cmd, 5) + j] = op.data[j]
<1>1. PICK c \in Cmds : c = op.cmd
    BY OpShape
<1>2. /\ At(c, 1) = 4
      /\ \A i \in 1..4 : At(c, i + 1) = At(c, i)
                           + 2 * (IF i <= Len(Widths(c)) THEN Widths(c)[i] ELSE 0)
      /\ 4 + ArgBytes(c) = At(c, 5) + (IF c = "WRITE_FLASH_SECTOR" THEN SectorBytes ELSE 0)
    BY AtStep
<1>3. Len(op.data) = (IF c = "WRITE_FLASH_SECTOR" THEN SectorBytes ELSE 0)
    <2>1. IF c = "WRITE_FLASH_SECTOR" THEN Len(op.data) = SectorBytes ELSE op.data = <<>>
        BY <1>1, OpsAssumption
    <2>2. Len(<<>>) = 0
        OBVIOUS
    <2> QED BY <2>1, <2>2
<1>4. Code[c] \in Seq(Octet) /\ Len(Code[c]) = 4 /\ op.data \in Seq(Octet)
    BY <1>1, OpShape, CodeShape
<1>5. PICK a1, a2, a3, a4 :
         /\ a1 = Argument(op, 1) /\ a2 = Argument(op, 2)
         /\ a3 = Argument(op, 3) /\ a4 = Argument(op, 4)
    OBVIOUS
<1>6. /\ a1 \in Seq(Octet) /\ a2 \in Seq(Octet)
      /\ a3 \in Seq(Octet) /\ a4 \in Seq(Octet)
      /\ At(c, 2) = At(c, 1) + Len(a1) /\ At(c, 3) = At(c, 2) + Len(a2)
      /\ At(c, 4) = At(c, 3) + Len(a3) /\ At(c, 5) = At(c, 4) + Len(a4)
    <2>1. \A i \in 1..4 : Argument(op, i) \in Seq(Octet)
                             /\ At(c, i + 1) = At(c, i) + Len(Argument(op, i))
        BY <1>1, <1>2, ArgumentShape
    <2>2. 1 \in 1..4 /\ 2 \in 1..4 /\ 3 \in 1..4 /\ 4 \in 1..4
             /\ 1 + 1 = 2 /\ 2 + 1 = 3 /\ 3 + 1 = 4 /\ 4 + 1 = 5
        OBVIOUS
    <2> QED BY <1>5, <2>1, <2>2
<1>7. /\ At(c, 1) \in Nat /\ At(c, 2) \in Nat /\ At(c, 3) \in Nat
      /\ At(c, 4) \in Nat /\ At(c, 5) \in Nat
    BY AtStep
<1>8. PICK t1, t2, t3, t4, t5 :
         /\ t1 = Code[c] \o a1
         /\ t2 = t1 \o a2 /\ t3 = t2 \o a3 /\ t4 = t3 \o a4 /\ t5 = t4 \o op.data
    OBVIOUS
<1>8a. Pokes(op) = t5
    BY <1>1, <1>5, <1>8 DEF Pokes
<1>8b. t1 = Code[c] \o a1 /\ Len(Code[c]) = At(c, 1)
    BY <1>2, <1>4, <1>8
<1>8c. /\ t1 \in Seq(Octet) /\ Len(t1) = At(c, 2)
       /\ \A j \in 1..At(c, 1) : t1[j] = Code[c][j]
       /\ \A j \in 1..Len(a1) : t1[At(c, 1) + j] = a1[j] /\ At(c, 1) + j \in 1..At(c, 2)
    <2>1. Code[c] \in Seq(Octet)
        BY <1>4
    <2>2. a1 \in Seq(Octet) /\ At(c, 2) = At(c, 1) + Len(a1)
        BY <1>6
    <2>3. At(c, 1) \in Nat /\ At(c, 2) \in Nat
        BY <1>7
    <2>4. /\ Code[c] \o a1 \in Seq(Octet) /\ Len(Code[c] \o a1) = Len(Code[c]) + Len(a1)
          /\ \A j \in 1..Len(Code[c]) : (Code[c] \o a1)[j] = Code[c][j]
          /\ \A j \in 1..Len(a1) : (Code[c] \o a1)[Len(Code[c]) + j] = a1[j]
                 /\ Len(Code[c]) + j \in 1..(Len(Code[c]) + Len(a1))
        BY <2>1, <2>2, Extend
    <2> QED BY <2>2, <2>4, <1>8b
<1>8d. t2 = t1 \o a2 /\ t3 = t2 \o a3 /\ t4 = t3 \o a4 /\ t5 = t4 \o op.data
    BY <1>8
<1>8e. /\ t2 \in Seq(Octet) /\ Len(t2) = At(c, 3)
       /\ \A j \in 1..At(c, 2) : t2[j] = t1[j]
       /\ \A j \in 1..Len(a2) : t2[At(c, 2) + j] = a2[j] /\ At(c, 2) + j \in 1..At(c, 3)
    <2>1. t1 \in Seq(Octet) /\ Len(t1) = At(c, 2)
        BY <1>8c
    <2>2. a2 \in Seq(Octet) /\ At(c, 3) = At(c, 2) + Len(a2)
        BY <1>6
    <2>3. At(c, 2) \in Nat /\ At(c, 3) \in Nat
        BY <1>7
    <2>4. t2 = t1 \o a2
        BY <1>8d
    <2>5. /\ t1 \o a2 \in Seq(Octet) /\ Len(t1 \o a2) = Len(t1) + Len(a2)
          /\ \A j \in 1..Len(t1) : (t1 \o a2)[j] = t1[j]
          /\ \A j \in 1..Len(a2) : (t1 \o a2)[Len(t1) + j] = a2[j]
                 /\ Len(t1) + j \in 1..(Len(t1) + Len(a2))
        BY <2>1, <2>2, Extend
    <2> QED BY <2>1, <2>2, <2>4, <2>5
<1>8f. /\ t3 \in Seq(Octet) /\ Len(t3) = At(c, 4)
       /\ \A j \in 1..At(c, 3) : t3[j] = t2[j]
       /\ \A j \in 1..Len(a3) : t3[At(c, 3) + j] = a3[j] /\ At(c, 3) + j \in 1..At(c, 4)
    <2>1. t2 \in Seq(Octet) /\ Len(t2) = At(c, 3)
        BY <1>8e
    <2>2. a3 \in Seq(Octet) /\ At(c, 4) = At(c, 3) + Len(a3)
        BY <1>6
    <2>3. At(c, 3) \in Nat /\ At(c, 4) \in Nat
        BY <1>7
    <2>4. t3 = t2 \o a3
        BY <1>8d
    <2>5. /\ t2 \o a3 \in Seq(Octet) /\ Len(t2 \o a3) = Len(t2) + Len(a3)
          /\ \A j \in 1..Len(t2) : (t2 \o a3)[j] = t2[j]
          /\ \A j \in 1..Len(a3) : (t2 \o a3)[Len(t2) + j] = a3[j]
                 /\ Len(t2) + j \in 1..(Len(t2) + Len(a3))
        BY <2>1, <2>2, Extend
    <2> QED BY <2>1, <2>2, <2>4, <2>5
<1>8g. /\ t4 \in Seq(Octet) /\ Len(t4) = At(c, 5)
       /\ \A j \in 1..At(c, 4) : t4[j] = t3[j]
       /\ \A j \in 1..Len(a4) : t4[At(c, 4) + j] = a4[j] /\ At(c, 4) + j \in 1..At(c, 5)
    <2>1. t3 \in Seq(Octet) /\ Len(t3) = At(c, 4)
        BY <1>8f
    <2>2. a4 \in Seq(Octet) /\ At(c, 5) = At(c, 4) + Len(a4)
        BY <1>6
    <2>3. At(c, 4) \in Nat /\ At(c, 5) \in Nat
        BY <1>7
    <2>4. t4 = t3 \o a4
        BY <1>8d
    <2>5. /\ t3 \o a4 \in Seq(Octet) /\ Len(t3 \o a4) = Len(t3) + Len(a4)
          /\ \A j \in 1..Len(t3) : (t3 \o a4)[j] = t3[j]
          /\ \A j \in 1..Len(a4) : (t3 \o a4)[Len(t3) + j] = a4[j]
                 /\ Len(t3) + j \in 1..(Len(t3) + Len(a4))
        BY <2>1, <2>2, Extend
    <2> QED BY <2>1, <2>2, <2>4, <2>5
<1>8h. PICK m \in Nat : m = At(c, 5) + Len(op.data)
    BY <1>4, <1>7
<1>8i. /\ t5 \in Seq(Octet) /\ Len(t5) = m
       /\ \A j \in 1..At(c, 5) : t5[j] = t4[j]
       /\ \A j \in 1..Len(op.data) : t5[At(c, 5) + j] = op.data[j]
    <2>1. t4 \in Seq(Octet) /\ Len(t4) = At(c, 5)
        BY <1>8g
    <2>2. op.data \in Seq(Octet)
        BY <1>4
    <2>3. At(c, 5) \in Nat
        BY <1>7
    <2>4. t5 = t4 \o op.data
        BY <1>8d
    <2>5. /\ t4 \o op.data \in Seq(Octet) /\ Len(t4 \o op.data) = Len(t4) + Len(op.data)
          /\ \A j \in 1..Len(t4) : (t4 \o op.data)[j] = t4[j]
          /\ \A j \in 1..Len(op.data) : (t4 \o op.data)[Len(t4) + j] = op.data[j]
                 /\ Len(t4) + j \in 1..(Len(t4) + Len(op.data))
        BY <2>1, <2>2, Extend
    <2> QED BY <2>1, <2>2, <2>4, <2>5, <1>8h
<1>8j. At(c, 1) <= At(c, 2) /\ At(c, 2) <= At(c, 3) /\ At(c, 3) <= At(c, 4) /\ At(c, 4) <= At(c, 5)
    <2>1. PICK l1 \in Nat, l2 \in Nat, l3 \in Nat, l4 \in Nat :
             l1 = Len(a1) /\ l2 = Len(a2) /\ l3 = Len(a3) /\ l4 = Len(a4)
        BY <1>6
    <2>2. /\ At(c, 2) = At(c, 1) + l1 /\ At(c, 3) = At(c, 2) + l2
          /\ At(c, 4) = At(c, 3) + l3 /\ At(c, 5) = At(c, 4) + l4
        BY <1>6, <2>1
    <2> QED BY <1>7, <2>2
<1>8k. /\ \A j \in 1..At(c, 4) : t5[j] = t3[j]
       /\ \A j \in 1..At(c, 3) : t5[j] = t2[j]
       /\ \A j \in 1..At(c, 2) : t5[j] = t1[j]
    <2>1. /\ 1..At(c, 4) \subseteq 1..At(c, 5) /\ 1..At(c, 3) \subseteq 1..At(c, 4)
          /\ 1..At(c, 2) \subseteq 1..At(c, 3) /\ 1..At(c, 1) \subseteq 1..At(c, 2)
        BY <1>7, <1>8j
    <2>2. \A j \in 1..At(c, 4) : t5[j] = t3[j]
        BY <2>1, <1>8g, <1>8i
    <2>3. \A j \in 1..At(c, 3) : t5[j] = t2[j]
        BY <2>1, <2>2, <1>8f
    <2> QED BY <2>1, <2>2, <2>3, <1>8e
<1>9. /\ t5 \in Seq(Octet) /\ Len(t5) = At(c, 5) + Len(op.data)
      /\ \A j \in 1..Len(Code[c]) : t5[j] = Code[c][j]
      /\ \A j \in 1..Len(a1) : t5[At(c, 1) + j] = a1[j]
      /\ \A j \in 1..Len(a2) : t5[At(c, 2) + j] = a2[j]
      /\ \A j \in 1..Len(a3) : t5[At(c, 3) + j] = a3[j]
      /\ \A j \in 1..Len(a4) : t5[At(c, 4) + j] = a4[j]
      /\ \A j \in 1..Len(op.data) : t5[At(c, 5) + j] = op.data[j]
    <2>1. \A j \in 1..Len(Code[c]) : t5[j] = Code[c][j]
        <3>1. 1..At(c, 1) \subseteq 1..At(c, 2)
            BY <1>7, <1>8j
        <3> QED BY <3>1, <1>8b, <1>8c, <1>8k
    <2>2. \A j \in 1..Len(a1) : t5[At(c, 1) + j] = a1[j]
        BY <1>8c, <1>8k
    <2>3. \A j \in 1..Len(a2) : t5[At(c, 2) + j] = a2[j]
        BY <1>8e, <1>8k
    <2>4. \A j \in 1..Len(a3) : t5[At(c, 3) + j] = a3[j]
        BY <1>8f, <1>8k
    <2>5. \A j \in 1..Len(a4) : t5[At(c, 4) + j] = a4[j]
        BY <1>8g, <1>8i
    <2> QED BY <2>1, <2>2, <2>3, <2>4, <2>5, <1>8h, <1>8i
<1>10. \A i \in 1..4 : \A j \in 1..Len(Argument(op, i)) :
          t5[At(c, i) + j] = Argument(op, i)[j]
    <2>1. \A i \in 1..4 : i = 1 \/ i = 2 \/ i = 3 \/ i = 4
        OBVIOUS
    <2> QED BY <1>5, <1>9, <2>1
<1>11. ASSUME NEW i \in 1..Len(op.args)
       PROVE  \A j \in 1..(2 * Widths(c)[i]) : Pokes(op)[At(c, i) + j]
                    = WithComplement(op.args[i], Widths(c)[i])[j]
    <2>1. Len(op.args) \in 0..4 /\ Len(op.args) = Len(Widths(c))
        BY <1>1, OpShape
    <2>2. i \in 1..4 /\ i <= Len(op.args)
        <3>1. PICK l \in 0..4 : l = Len(op.args)
            BY <2>1
        <3>2. PICK j \in 1..l : j = i
            BY <3>1
        <3>3. j \in 1..4 /\ j <= l
            OBVIOUS
        <3> QED BY <3>1, <3>2, <3>3
    <2>3. Argument(op, i) = WithComplement(op.args[i], Widths(c)[i])
             /\ Len(Argument(op, i)) = 2 * Widths(c)[i]
        BY <1>1, <2>1, <2>2, ArgumentShape
    <2> QED BY <1>8a, <1>10, <2>2, <2>3
<1>12. Len(Pokes(op)) = 4 + ArgBytes(c)
    BY <1>2, <1>3, <1>8a, <1>9
<1> QED BY <1>1, <1>4, <1>8a, <1>9, <1>11, <1>12

\* The bytes from a position on.
LEMMA SubSeqAt ==
    ASSUME NEW S, NEW s \in Seq(S), NEW a \in Nat, NEW w \in Nat, a + w <= Len(s)
    PROVE  /\ SubSeq(s, a + 1, a + w) \in Seq(S) /\ Len(SubSeq(s, a + 1, a + w)) = w
           /\ \A j \in 1..w : SubSeq(s, a + 1, a + w)[j] = s[a + j]
<1>1. PICK l \in Nat : l = Len(s)
    OBVIOUS
<1>2. \A i \in (a + 1)..(a + w) : i \in 1..l
    BY <1>1
<1>3. \A i \in (a + 1)..(a + w) : s[i] \in S
    BY <1>1, <1>2, ElementOfSeq
<1>4. PICK m \in Nat, n \in Nat : m = a + 1 /\ n = a + w
    OBVIOUS
<1>5. SubSeq(s, m, n) \in Seq(S) /\ Len(SubSeq(s, m, n)) = IF m <= n THEN n - m + 1 ELSE 0
    BY <1>1, <1>2, <1>3, <1>4, SubSeqProperties
<1>6. \A i \in 1..(n - m + 1) : SubSeq(s, m, n)[i] = s[m + i - 1]
    BY <1>1, <1>2, <1>4, SubSeqProperties
<1>7. (IF m <= n THEN n - m + 1 ELSE 0) = w /\ n - m + 1 = w
    BY <1>4
<1>8. \A j \in 1..w : m + j - 1 = a + j
    BY <1>4
<1> QED BY <1>4, <1>5, <1>6, <1>7, <1>8

\* Two sequences are equal if they have the same length and elements.
LEMMA SameSeq ==
    ASSUME NEW S, NEW s \in Seq(S), NEW t \in Seq(S), Len(s) = Len(t),
           \A i \in 1..Len(s) : s[i] = t[i]
    PROVE  s = t
BY SeqEqual

\* The largest value, for the solver.
LEMMA MaxValueIs == MaxValue = 2147483647
BY SMT DEF MaxValue

\* Taking the bytes of a value together gives the value back.
LEMMA ValueOfBytes ==
    ASSUME NEW v \in Nat, v <= MaxValue, NEW w \in {1, 2, 4}, w < 4 => v < Place[w + 1]
    PROVE  Value(Bytes(v, w)) = v
<1>0. v <= 2147483647
    BY SMT, MaxValueIs
<1>1. PICK b : b = Bytes(v, w)
    BY SMT
<1>2. b \in Seq(Octet) /\ Len(b) = w
    BY <1>1, WithComplementShape
<1>3. \A i \in 1..w : b[i] = (v \div Place[i]) % 256
    BY SMT, <1>1 DEF Bytes
<1>4. Place[1] = 1 /\ Place[2] = 256 /\ Place[3] = 65536 /\ Place[4] = 16777216
    BY SMT DEF Place
<1>5. CASE w = 1
    <2>1. v < 256
        BY SMT, <1>4, <1>5
    <2>2. b[1] = v
        <3>1. v \div 1 = v /\ v % 256 = v
            BY SMT, <1>0, <2>1
        <3> QED BY SMT, <1>3, <1>4, <1>5, <3>1
    <2>3. Value(b) = Place[1] * b[1] + 0 + 0 + 0
        BY SMT, <1>2, <1>5 DEF Value
    <2> QED BY SMT, <1>0, <1>1, <1>4, <2>2, <2>3
<1>6. CASE w = 2
    <2>1. v < 65536
        BY SMT, <1>4, <1>6
    <2>2. b[1] = v % 256 /\ b[2] = (v \div 256) % 256
        <3>1. v \div 1 = v
            BY SMT, <1>0
        <3> QED BY SMT, <1>3, <1>4, <1>6, <3>1
    <2>3. Value(b) = Place[1] * b[1] + Place[2] * b[2] + 0 + 0
        BY SMT, <1>2, <1>6 DEF Value
    <2>4. 1 * (v % 256) + 256 * ((v \div 256) % 256) + 0 + 0 = v
        BY SMT, <1>0, <2>1
    <2> QED BY SMT, <1>1, <1>4, <2>2, <2>3, <2>4
<1>7. CASE w = 4
    <2>2. /\ b[1] = v % 256 /\ b[2] = (v \div 256) % 256
          /\ b[3] = (v \div 65536) % 256 /\ b[4] = (v \div 16777216) % 256
        <3>1. v \div 1 = v
            BY SMT, <1>0
        <3> QED BY SMT, <1>3, <1>4, <1>7, <3>1
    <2>3. (v \div 16777216) % 256 < 128
        BY SMT, <1>0
    <2>4. ~(b[4] >= 128)
        <3>1. PICK x \in Int : x = (v \div 16777216) % 256
            BY SMT, <1>0
        <3> QED BY SMT, <2>2, <2>3, <3>1
    <2>5. Value(b) = Place[1] * b[1] + Place[2] * b[2] + Place[3] * b[3] + Place[4] * b[4]
        BY SMT, <1>2, <1>7, <2>4 DEF Value
    <2>6. 1 * (v % 256) + 256 * ((v \div 256) % 256)
             + 65536 * ((v \div 65536) % 256) + 16777216 * ((v \div 16777216) % 256) = v
        <3>1. PICK q1 \in Nat, q2 \in Nat, q3 \in Nat :
                 q1 = v \div 256 /\ q2 = v \div 65536 /\ q3 = v \div 16777216
            BY SMT, <1>0
        <3>2. v = 256 * q1 + (v % 256)
            BY SMT, <1>0, <3>1
        <3>3. q1 = 256 * q2 + (q1 % 256)
            BY SMT, <1>0, <3>1
        <3>4. q2 = 256 * q3 + (q2 % 256)
            BY SMT, <1>0, <3>1
        <3>5. q3 % 256 = q3
            BY SMT, <1>0, <3>1
        <3>6. PICK r0 \in Nat, r1 \in Nat, r2 \in Nat : r0 = v % 256 /\ r1 = q1 % 256 /\ r2 = q2 % 256
            BY SMT, <1>0, <3>1
        <3>7. 1 * r0 + 256 * r1 + 65536 * r2 + 16777216 * q3 = v
            BY SMT, <1>0, <3>2, <3>3, <3>4, <3>6
        <3> QED BY SMT, <3>1, <3>5, <3>6, <3>7
    <2> QED BY SMT, <1>1, <1>4, <2>2, <2>5, <2>6
<1> QED BY SMT, <1>5, <1>6, <1>7

\* The arguments lie one behind the other, in front of a sector's data.
LEMMA AtFits ==
    ASSUME NEW c \in Cmds
    PROVE  /\ \A i \in 1..Len(Widths(c)) : At(c, i) + 2 * Widths(c)[i] <= At(c, 5)
           /\ Len(Widths(c)) > 0 => At(c, Len(Widths(c)))
                                       + 2 * Widths(c)[Len(Widths(c))] = At(c, 5)
           /\ At(c, 5) <= 4 + ArgBytes(c)
<1> DEFINE ws == Widths(c)
           v(i) == IF i <= Len(ws) THEN ws[i] ELSE 0
<1>1. ws \in Seq({1, 2, 4}) /\ Len(ws) <= 4
    BY WidthsShape
<1>2. PICK l \in 0..4 : l = Len(ws)
    <2> HIDE DEF ws
    <2>1. PICK l \in Nat : l = Len(ws)
        BY <1>1
    <2> QED BY <1>1, <2>1
<1>3. /\ \A i \in 1..5 : At(c, i) \in Nat
      /\ \A i \in 1..4 : At(c, i + 1) = At(c, i) + 2 * v(i)
      /\ \A i \in 1..5 : i > l => At(c, i) = At(c, 5)
      /\ 4 + ArgBytes(c) = At(c, 5) + (IF c = "WRITE_FLASH_SECTOR" THEN SectorBytes ELSE 0)
      /\ ArgBytes(c) \in Nat
    BY <1>2, AtStep
<1>4. \A i \in 1..4 : v(i) \in Nat
    <2> TAKE i \in 1..4
    <2>1. CASE i <= l
        <3>1. i \in 1..Len(ws)
            BY <1>2, <2>1
        <3>2. ws[i] \in {1, 2, 4}
            BY <1>1, <3>1
        <3> QED BY <1>2, <2>1, <3>2
    <2> QED BY <1>2, <2>1
<1>5. \A i \in 1..l : v(i) = ws[i]
    BY <1>2
<1> HIDE DEF ws, v
<1>6. /\ At(c, 2) = At(c, 1) + 2 * v(1) /\ At(c, 3) = At(c, 2) + 2 * v(2)
      /\ At(c, 4) = At(c, 3) + 2 * v(3) /\ At(c, 5) = At(c, 4) + 2 * v(4)
    <2>1. 1 + 1 = 2 /\ 2 + 1 = 3 /\ 3 + 1 = 4 /\ 4 + 1 = 5
        OBVIOUS
    <2> QED BY <1>3, <2>1
<1>7. \A i \in 1..4 : At(c, i) + 2 * v(i) <= At(c, 5)
    <2>1. PICK x1 \in Nat, x2 \in Nat, x3 \in Nat, x4 \in Nat :
             x1 = v(1) /\ x2 = v(2) /\ x3 = v(3) /\ x4 = v(4)
        BY <1>4
    <2>2. PICK y1 \in Nat, y2 \in Nat, y3 \in Nat, y4 \in Nat, y5 \in Nat :
             /\ y1 = At(c, 1) /\ y2 = At(c, 2) /\ y3 = At(c, 3)
             /\ y4 = At(c, 4) /\ y5 = At(c, 5)
        BY <1>3
    <2>3. y2 = y1 + 2 * x1 /\ y3 = y2 + 2 * x2 /\ y4 = y3 + 2 * x3 /\ y5 = y4 + 2 * x4
        BY <1>6, <2>1, <2>2
    <2>4. /\ y1 + 2 * x1 <= y5 /\ y2 + 2 * x2 <= y5
          /\ y3 + 2 * x3 <= y5 /\ y4 + 2 * x4 <= y5
        BY <2>3
    <2>5. \A i \in 1..4 : i = 1 \/ i = 2 \/ i = 3 \/ i = 4
        OBVIOUS
    <2> QED BY <2>1, <2>2, <2>4, <2>5
<1>8. \A i \in 1..l : At(c, i) + 2 * ws[i] <= At(c, 5)
    <2>1. \A i \in 1..l : i \in 1..4
        BY <1>2
    <2> QED BY <1>5, <1>7, <2>1
<1>9. l > 0 => At(c, l) + 2 * ws[l] = At(c, 5)
    <2> SUFFICES ASSUME l > 0 PROVE At(c, l) + 2 * ws[l] = At(c, 5)
        OBVIOUS
    <2>1. l \in 1..4 /\ l + 1 \in 1..5 /\ l + 1 > l /\ l \in 1..l
        BY <1>2
    <2> QED BY <1>3, <1>5, <2>1
<1>10. At(c, 5) <= 4 + ArgBytes(c)
    <2>1. SectorBytes \in Nat
        BY OpsAssumption
    <2>2. At(c, 5) \in Nat
        BY <1>3
    <2> QED BY <1>3, <2>1, <2>2
<1> QED BY <1>2, <1>8, <1>9, <1>10 DEF ws

\* The fields of the bytes of a call.
LEMMA FieldAt ==
    ASSUME NEW c \in Cmds, NEW bs \in Seq(Octet), Len(bs) = 4 + ArgBytes(c),
           NEW i \in 1..Len(Widths(c))
    PROVE  /\ Widths(c)[i] \in {1, 2, 4} /\ At(c, i) \in Nat /\ At(c, i) >= 4
           /\ At(c, i) + 2 * Widths(c)[i] <= Len(bs)
           /\ Field(bs, Widths(c), i) \in Seq(Octet)
           /\ Len(Field(bs, Widths(c), i)) = Widths(c)[i]
           /\ \A j \in 1..Widths(c)[i] :
                 Field(bs, Widths(c), i)[j] = bs[At(c, i) + j]
           /\ FieldXor(bs, Widths(c), i) \in Seq(Octet)
           /\ Len(FieldXor(bs, Widths(c), i)) = Widths(c)[i]
           /\ \A j \in 1..Widths(c)[i] :
                 FieldXor(bs, Widths(c), i)[j] = bs[At(c, i) + Widths(c)[i] + j]
<1> DEFINE ws == Widths(c)
<1>1. ws \in Seq({1, 2, 4}) /\ Len(ws) <= 4
    BY WidthsShape
<1>2. i \in 1..4 /\ i \in 1..5
    <2> HIDE DEF ws
    <2>1. PICK l \in Nat : l = Len(ws)
        BY <1>1
    <2>2. i \in 1..l /\ l <= 4
        BY <1>1, <2>1 DEF ws
    <2> QED BY <2>2
<1>3. PICK w \in {1, 2, 4} : w = ws[i]
    BY <1>1
<1>4. PICK at \in Nat : at = At(c, i) /\ at >= 4
    BY <1>2, AtStep
<1>5. PICK n \in Nat : n = Len(bs)
    OBVIOUS
<1>6. at + 2 * w <= n
    <2>1. at + 2 * w <= At(c, 5) /\ At(c, 5) <= n
        BY <1>3, <1>4, <1>5, AtFits
    <2>2. At(c, 5) \in Nat
        BY AtStep
    <2> QED BY <2>1, <2>2
<1>7. Field(bs, ws, i) = SubSeq(bs, at + 1, at + w)
    BY <1>3, <1>4 DEF Field, At
<1>8. FieldXor(bs, ws, i) = SubSeq(bs, at + w + 1, at + w + w)
    BY <1>3, <1>4 DEF FieldXor, At
<1>9. /\ SubSeq(bs, at + 1, at + w) \in Seq(Octet)
      /\ Len(SubSeq(bs, at + 1, at + w)) = w
      /\ \A j \in 1..w : SubSeq(bs, at + 1, at + w)[j] = bs[at + j]
    <2>1. at + w <= Len(bs) /\ w \in Nat
        BY <1>5, <1>6
    <2> QED BY <2>1, SubSeqAt
<1>10. /\ SubSeq(bs, at + w + 1, at + w + w) \in Seq(Octet)
       /\ Len(SubSeq(bs, at + w + 1, at + w + w)) = w
       /\ \A j \in 1..w : SubSeq(bs, at + w + 1, at + w + w)[j] = bs[at + w + j]
    <2>1. PICK a \in Nat : a = at + w
        OBVIOUS
    <2>2. a + w <= Len(bs) /\ w \in Nat
        BY <1>5, <1>6, <2>1
    <2>3. /\ SubSeq(bs, a + 1, a + w) \in Seq(Octet)
          /\ Len(SubSeq(bs, a + 1, a + w)) = w
          /\ \A j \in 1..w : SubSeq(bs, a + 1, a + w)[j] = bs[a + j]
        BY <2>2, SubSeqAt
    <2> QED BY <2>1, <2>3
<1>11. at + 2 * w <= Len(bs)
    BY <1>5, <1>6
<1> HIDE DEF ws
<1> QED BY <1>3, <1>4, <1>7, <1>8, <1>9, <1>10, <1>11 DEF ws

\* A call's own bytes are its arguments and their complements.
LEMMA OwnFields ==
    ASSUME NEW op \in Ops, NEW i \in 1..Len(op.args)
    PROVE  /\ Field(Pokes(op), Widths(op.cmd), i) = Bytes(op.args[i], Widths(op.cmd)[i])
           /\ FieldXor(Pokes(op), Widths(op.cmd), i)
                 = Complement(Bytes(op.args[i], Widths(op.cmd)[i]))
<1>1. PICK c \in Cmds : c = op.cmd
    BY OpShape
<1>2. PICK p : p = Pokes(op)
    OBVIOUS
<1>3. p \in Seq(Octet) /\ Len(p) = 4 + ArgBytes(c) /\ i \in 1..Len(Widths(c))
    BY <1>1, <1>2, PokesShape, OpShape
<1>4. PICK v \in Nat, w \in {1, 2, 4} : v = op.args[i] /\ w = Widths(c)[i]
    BY <1>1, OpShape
<1>5. PICK at \in Nat : at = At(c, i)
    BY <1>3, FieldAt
<1>6. \A j \in 1..(2 * w) : p[at + j] = WithComplement(v, w)[j]
    BY <1>1, <1>2, <1>4, <1>5, PokesShape
<1>7. PICK b : b = Bytes(v, w)
    OBVIOUS
<1>8. /\ b \in Seq(Octet) /\ Len(b) = w
      /\ \A j \in 1..w : WithComplement(v, w)[j] = b[j]
      /\ \A j \in 1..w : WithComplement(v, w)[w + j] = 255 - b[j]
    <2>1. /\ Bytes(v, w) \in Seq(Octet) /\ Len(Bytes(v, w)) = w
          /\ \A j \in 1..w : WithComplement(v, w)[j] = Bytes(v, w)[j]
          /\ \A j \in 1..w : WithComplement(v, w)[w + j] = 255 - Bytes(v, w)[j]
        <3>1. /\ Bytes(v, w) \in Seq(Octet) /\ Len(Bytes(v, w)) = w
            BY BytesShape
        <3>2. \A j \in 1..w : WithComplement(v, w)[j] = Bytes(v, w)[j]
            BY ComplementShape
        <3>3. \A j \in 1..w : WithComplement(v, w)[w + j] = 255 - Bytes(v, w)[j]
            BY ComplementShape
        <3> QED BY <3>1, <3>2, <3>3
    <2> QED BY <1>7, <2>1
<1>9. PICK f, g : f = Field(p, Widths(c), i) /\ g = FieldXor(p, Widths(c), i)
    OBVIOUS
<1>10. /\ f \in Seq(Octet) /\ Len(f) = w /\ \A j \in 1..w : f[j] = p[at + j]
       /\ g \in Seq(Octet) /\ Len(g) = w /\ \A j \in 1..w : g[j] = p[at + w + j]
    BY <1>3, <1>4, <1>5, <1>9, FieldAt
<1>11. \A j \in 1..w : j \in 1..(2 * w) /\ w + j \in 1..(2 * w)
                         /\ at + (w + j) = at + w + j
    OBVIOUS
<1>12. f = b
    <2>1. \A j \in 1..w : f[j] = b[j]
        BY <1>6, <1>8, <1>10, <1>11
    <2> QED BY <1>8, <1>10, <2>1, SeqEqual
<1>13. g = Complement(b)
    <2>1. \A j \in 1..w : g[j] = 255 - b[j]
        BY <1>6, <1>8, <1>10, <1>11
    <2>2. DOMAIN b = 1..w /\ DOMAIN g = 1..w
        BY <1>8, <1>10
    <2>3. g = [j \in 1..w |-> g[j]]
        BY <1>10, <2>2
    <2>4. Complement(b) = [j \in 1..w |-> 255 - b[j]]
        BY <2>2 DEF Complement
    <2> QED BY <2>1, <2>3, <2>4
<1> QED BY <1>1, <1>2, <1>4, <1>7, <1>9, <1>12, <1>13

\* What the firmware makes of the bytes of a call: the arguments and the sector of
\* the call, and no complement or CRC that does not match.
LEMMA OwnReceived ==
    ASSUME NEW op \in Ops, NEW i \in 1..Len(op.args)
    PROVE  /\ Received(op.cmd, Pokes(op), i) = Bytes(op.args[i], Widths(op.cmd)[i])
           /\ Value(Bytes(op.args[i], Widths(op.cmd)[i])) = op.args[i]
<1>1. PICK c \in Cmds : c = op.cmd
    BY OpShape
<1>2. PICK v \in Nat, w \in {1, 2, 4} : v = op.args[i] /\ w = Widths(c)[i]
    BY <1>1, OpShape
<1>3. Field(Pokes(op), Widths(c), i) = Bytes(v, w)
    BY <1>1, <1>2, OwnFields
<1>4. Len(op.args) = Len(Widths(c)) /\ op.args \in Seq(0..MaxValue)
    BY <1>1, OpShape
<1>5. /\ w < 4 => v < Place[w + 1]
      /\ IsFlag(c, i) => v < 2
    <2>1. i \in DOMAIN op.args
        BY <1>4
    <2> QED BY <1>1, <1>2, <2>1, OpsAssumption
<1>6. v <= MaxValue
    <2>1. op.args[i] \in 0..MaxValue
        BY <1>4, ElementOfSeq
    <2> QED BY <1>2, <2>1, MaxValueNat
<1>7. Value(Bytes(v, w)) = v
    BY <1>5, <1>6, ValueOfBytes
<1>8. CASE ~IsFlag(c, i)
    BY <1>1, <1>2, <1>3, <1>7, <1>8 DEF Received
<1>9. CASE IsFlag(c, i)
    <2>1. w = 1
        <3>1. i = Len(Widths(c))
            BY <1>9 DEF IsFlag
        <3> QED BY <1>2, <1>9, <3>1, WidthsShape
    <2>2. Bytes(v, w)[1] = v /\ Bytes(v, w) = <<Bytes(v, w)[1]>>
        <3>1. Bytes(v, 1) = [j \in 1..1 |-> (v \div Place[j]) % 256]
            BY DEF Bytes
        <3>2. Place[1] = 1
            BY SMT DEF Place
        <3>3. v \div 1 = v /\ v % 256 = v
            BY <1>5, <1>9
        <3>4. Bytes(v, 1)[1] = v /\ Bytes(v, 1) \in Seq(Octet) /\ Len(Bytes(v, 1)) = 1
            <4>1. Bytes(v, 1)[1] = v
                BY <3>1, <3>2, <3>3
            <4>2. Bytes(v, 1) \in Seq(Octet) /\ Len(Bytes(v, 1)) = 1
                BY BytesShape
            <4> QED BY <4>1, <4>2
        <3>5. v \in Octet
            BY <1>5, <1>9 DEF Octet
        <3>6. Bytes(v, 1) = <<v>>
            <4>1. <<v>> \in Seq(Octet) /\ Len(<<v>>) = 1 /\ <<v>>[1] = v
                BY <3>5
            <4> QED BY <3>4, <4>1, SeqEqual
        <3> QED BY <2>1, <3>4, <3>6
    <2>3. (IF v = 0 THEN 0 ELSE 1) = v
        BY <1>5, <1>9
    <2>4. Received(c, Pokes(op), i) = <<IF v = 0 THEN 0 ELSE 1>>
        BY <1>3, <1>9, <2>2 DEF Received
    <2> QED BY <1>1, <1>2, <1>7, <2>2, <2>3, <2>4
<1> QED BY <1>8, <1>9

\* The bytes of a call hold its own arguments, and the complements agree.
LEMMA OwnArgs ==
    ASSUME NEW op \in Ops
    PROVE  /\ ComplementsMatch(op.cmd, Pokes(op))
           /\ Args(op.cmd, Pokes(op)) = op.args
<1>1. PICK c \in Cmds : c = op.cmd
    BY OpShape
<1>2. Len(op.args) = Len(Widths(c)) /\ op.args \in Seq(0..MaxValue)
    BY <1>1, OpShape
<1>3. DOMAIN Widths(c) = 1..Len(op.args) /\ DOMAIN op.args = 1..Len(op.args)
    BY <1>1, <1>2, WidthsShape
<1>4. ComplementsMatch(c, Pokes(op))
    BY <1>1, <1>3, OwnFields, OwnReceived DEF ComplementsMatch
<1>5. \A i \in 1..Len(op.args) : Value(Received(c, Pokes(op), i)) = op.args[i]
    BY <1>1, OwnReceived
<1>6. Args(c, Pokes(op)) = [i \in 1..Len(op.args) |-> op.args[i]]
    BY <1>3, <1>5 DEF Args
<1>7. op.args = [i \in 1..Len(op.args) |-> op.args[i]]
    BY <1>2, <1>3
<1> QED BY <1>1, <1>4, <1>6, <1>7

\* A sector is behind the three arguments.
LEMMA SectorAt ==
    /\ "WRITE_FLASH_SECTOR" \in Cmds
    /\ At("WRITE_FLASH_SECTOR", 1) = 4 /\ At("WRITE_FLASH_SECTOR", 2) = 6
    /\ At("WRITE_FLASH_SECTOR", 3) = 14 /\ At("WRITE_FLASH_SECTOR", 5) = 22
    /\ 4 + ArgBytes("WRITE_FLASH_SECTOR") = 22 + SectorBytes
<1>0. "WRITE_FLASH_SECTOR" \in Cmds
    BY DEF Cmds, Code
<1>1. Widths("WRITE_FLASH_SECTOR") = <<1, 4, 4>>
    BY <1>0, WidthsShape
<1>2. PICK ws : ws = <<1, 4, 4>>
    OBVIOUS
<1>3. Len(ws) = 3 /\ ws[1] = 1 /\ ws[2] = 4 /\ ws[3] = 4
    BY <1>2
<1>4. SumOf(ws, 0) = 0 /\ SumOf(ws, 1) = 1 /\ SumOf(ws, 2) = 5 /\ SumOf(ws, 4) = 9
    BY <1>3 DEF SumOf
<1>5. 1 - 1 = 0 /\ 2 - 1 = 1 /\ 3 - 1 = 2 /\ 5 - 1 = 4
    OBVIOUS
<1>6. 4 + ArgBytes("WRITE_FLASH_SECTOR") = 22 + SectorBytes
    <2>1. SectorBytes \in Nat
        BY OpsAssumption
    <2> QED BY <1>1, <1>2, <1>4, <2>1 DEF ArgBytes
<1> QED BY <1>0, <1>1, <1>2, <1>4, <1>5, <1>6 DEF At

\* The bytes of a sector upload hold its own sector.
LEMMA OwnSector ==
    ASSUME NEW op \in Ops
    PROVE  SectorData(op.cmd, Pokes(op)) = op.data
<1>1. CASE op.cmd # "WRITE_FLASH_SECTOR"
    <2>1. op.data = <<>>
        BY <1>1, OpsAssumption
    <2> QED BY <1>1, <2>1 DEF SectorData
<1>2. CASE op.cmd = "WRITE_FLASH_SECTOR"
    <2>1. PICK p, d : p = Pokes(op) /\ d = op.data
        OBVIOUS
    <2>2. Len(d) = SectorBytes /\ SectorBytes \in Nat
        BY <1>2, <2>1, OpsAssumption
    <2>3. p \in Seq(Octet) /\ Len(p) = 22 + SectorBytes
        BY <1>2, <2>1, PokesShape, SectorAt
    <2>4. d \in Seq(Octet) /\ \A j \in 1..SectorBytes : p[22 + j] = d[j]
        BY <1>2, <2>1, <2>2, PokesShape, OpShape, SectorAt
    <2>5. /\ SubSeq(p, 22 + 1, 22 + SectorBytes) \in Seq(Octet)
          /\ Len(SubSeq(p, 22 + 1, 22 + SectorBytes)) = SectorBytes
          /\ \A j \in 1..SectorBytes : SubSeq(p, 22 + 1, 22 + SectorBytes)[j] = p[22 + j]
        <3>1. 22 \in Nat /\ 22 + SectorBytes <= Len(p)
            BY <2>2, <2>3
        <3> QED BY <2>2, <2>3, <3>1, SubSeqAt
    <2>6. SubSeq(p, 22 + 1, 22 + SectorBytes) = d
        BY <2>2, <2>4, <2>5, SeqEqual
    <2>7. 22 + 1 = 23
        OBVIOUS
    <2> QED BY <1>2, <2>1, <2>6, <2>7 DEF SectorData
<1> QED BY <1>1, <1>2

\* What a call pokes is valid exactly when its arguments are in range.
LEMMA OwnValid ==
    ASSUME NEW op \in Ops
    PROVE  IsValid(op.cmd, Pokes(op)) <=> InRange(op.cmd, op.args)
<1>1. op.cmd = "WRITE_FLASH_SECTOR" => Crc(op.data) = op.args[3]
    BY OpsAssumption
<1> QED BY <1>1, OwnArgs, OwnSector DEF IsValid

-----------------------------------------------------------------------------
(***************************************************************************)
(* The parser                                                              *)
(***************************************************************************)
\* Four bytes of a command are told from those of any other.
LEMMA MatchFour ==
    ASSUME NEW c \in Cmds, NEW bs \in Seq(Octet), Len(bs) >= 4,
           \A i \in 1..4 : bs[i] = Code[c][i]
    PROVE  Matching(bs) = {c}
<1>1. DOMAIN bs \cap 1..4 = 1..4
    <2>1. PICK l \in Nat : l = Len(bs) /\ DOMAIN bs = 1..l
        OBVIOUS
    <2> QED BY <2>1
<1>2. c \in Matching(bs)
    BY <1>1 DEF Matching
<1>3. ASSUME NEW d \in Matching(bs)
      PROVE  d = c
    <2>1. d \in Cmds /\ bs[3] = Code[d][3]
        BY <1>1, <1>3 DEF Matching
    <2>2. bs[3] = Code[c][3]
        OBVIOUS
    <2>3. CmdOf(Code[d][3]) = d /\ CmdOf(Code[c][3]) = c
        BY <2>1, CodeShape
    <2> QED BY <2>1, <2>2, <2>3
<1> QED BY <1>2, <1>3

\* The beginning of a command is taken for it.
LEMMA MatchShort ==
    ASSUME NEW c \in Cmds, NEW bs \in Seq(Octet), Len(bs) < 4,
           \A i \in 1..Len(bs) : bs[i] = Code[c][i]
    PROVE  c \in Matching(bs)
BY DEF Matching

\* A byte that no command has in its place ends the matching.
LEMMA NoMatch ==
    ASSUME NEW bs \in Seq(Octet), NEW i \in 1..4, i <= Len(bs),
           \A c \in Cmds : bs[i] # Code[c][i]
    PROVE  Matching(bs) = {}
<1>1. i \in DOMAIN bs \cap 1..4
    <2>1. PICK l \in Nat : l = Len(bs) /\ DOMAIN bs = 1..l
        OBVIOUS
    <2> QED BY <2>1
<1> QED BY <1>1 DEF Matching

\* What is no command: its first bytes without one, and what comes after.
LEMMA Stray ==
    ASSUME NEW bs \in Seq(Octet)
    PROVE  /\ Len(bs) >= 1 /\ bs[1] # Prefix => Matching(bs) = {}
           /\ Len(bs) >= 2 /\ bs[2] \notin {Group0, Group1} => Matching(bs) = {}
           /\ Len(bs) >= 3 /\ bs[3] \notin Thirds => Matching(bs) = {}
           /\ Len(bs) >= 4 /\ bs[4] = Prefix => Matching(bs) = {}
<1>1. /\ \A c \in Cmds : Code[c][1] = Prefix /\ Code[c][2] \in {Group0, Group1}
      /\ \A c \in Cmds : Code[c][3] \in Thirds /\ Code[c][4] # Prefix
    BY CodeShape
<1>2. 1 \in 1..4 /\ 2 \in 1..4 /\ 3 \in 1..4 /\ 4 \in 1..4
    OBVIOUS
<1>3. ASSUME Len(bs) >= 1, bs[1] # Prefix PROVE Matching(bs) = {}
    <2>1. \A c \in Cmds : bs[1] # Code[c][1]
        BY <1>1, <1>3
    <2>2. 1 <= Len(bs)
        BY <1>3
    <2> QED BY <1>2, <2>1, <2>2, NoMatch
<1>4. ASSUME Len(bs) >= 2, bs[2] \notin {Group0, Group1} PROVE Matching(bs) = {}
    <2>1. \A c \in Cmds : bs[2] # Code[c][2]
        BY <1>1, <1>4
    <2>2. 2 <= Len(bs)
        BY <1>4
    <2> QED BY <1>2, <2>1, <2>2, NoMatch
<1>5. ASSUME Len(bs) >= 3, bs[3] \notin Thirds PROVE Matching(bs) = {}
    <2>1. \A c \in Cmds : bs[3] # Code[c][3]
        BY <1>1, <1>5
    <2>2. 3 <= Len(bs)
        BY <1>5
    <2> QED BY <1>2, <2>1, <2>2, NoMatch
<1>6. ASSUME Len(bs) >= 4, bs[4] = Prefix PROVE Matching(bs) = {}
    <2>1. \A c \in Cmds : bs[4] # Code[c][4]
        BY <1>1, <1>6
    <2>2. 4 <= Len(bs)
        BY <1>6
    <2> QED BY <1>2, <2>1, <2>2, NoMatch
<1> QED BY <1>3, <1>4, <1>5, <1>6

\* A byte is dropped with all before it, kept, or completes a command.
LEMMA Drops ==
    ASSUME NEW b, Receive(b), Matching(Append(rx, b)) = {}
    PROVE  rx' = <<>> /\ UNCHANGED <<busy, answer, settings, hook_off, lock, reboot>>
BY DEF Receive

\* A byte that fits and is not the last one is kept.
LEMMA Keeps ==
    ASSUME NEW b, Receive(b), NEW c, c \in Matching(Append(rx, b)),
           \A d \in Matching(Append(rx, b)) : Len(Append(rx, b)) # 4 + ArgBytes(d)
    PROVE  /\ rx' = Append(rx, b)
           /\ UNCHANGED <<busy, answer, settings, hook_off, lock, reboot>>
BY DEF Receive

\* The last byte of the one command that matches executes it.
LEMMA Completes ==
    ASSUME NEW b, Receive(b), NEW c, Matching(Append(rx, b)) = {c},
           Len(Append(rx, b)) = 4 + ArgBytes(c)
    PROVE  Execute(c, Append(rx, b))
BY DEF Receive

-----------------------------------------------------------------------------
\* The bytes of a call
LEMMA FirstBytes ==
    ASSUME NEW op \in Ops, NEW n \in 0..Len(Pokes(op))
    PROVE  /\ SubSeq(Pokes(op), 1, n) \in Seq(Octet) /\ Len(SubSeq(Pokes(op), 1, n)) = n
           /\ \A i \in 1..n : SubSeq(Pokes(op), 1, n)[i] = Pokes(op)[i]
           /\ n = 0 => SubSeq(Pokes(op), 1, n) = <<>>
           /\ n = Len(Pokes(op)) => SubSeq(Pokes(op), 1, n) = Pokes(op)
<1>1. PICK p \in Seq(Octet) : p = Pokes(op)
    BY PokesShape
<1>2. n \in Nat /\ 0 \in Nat /\ 0 + n <= Len(p) /\ 0 + 1 = 1 /\ 0 + n = n
    BY <1>1
<1>3. /\ SubSeq(p, 0 + 1, 0 + n) \in Seq(Octet) /\ Len(SubSeq(p, 0 + 1, 0 + n)) = n
      /\ \A i \in 1..n : SubSeq(p, 0 + 1, 0 + n)[i] = p[0 + i]
    BY <1>2, SubSeqAt
<1>4. \A i \in 1..n : 0 + i = i
    OBVIOUS
<1>5. n = 0 => SubSeq(p, 1, n) = <<>>
    BY SubSeqEmpty
<1>6. n = Len(p) => SubSeq(p, 1, n) = p
    BY SubSeqFull
<1> QED BY <1>1, <1>2, <1>3, <1>4, <1>5, <1>6

\* The first n bytes of a call and the next one.
LEMMA NextFirstBytes ==
    ASSUME NEW op \in Ops, NEW n \in Nat, n < Len(Pokes(op))
    PROVE  /\ Append(SubSeq(Pokes(op), 1, n), Pokes(op)[n + 1]) = SubSeq(Pokes(op), 1, n + 1)
           /\ Pokes(op)[n + 1] \in Octet
<1>1. PICK p \in Seq(Octet) : p = Pokes(op)
    BY PokesShape
<1>2. PICK m \in Nat : m = n + 1 /\ m \in 1..Len(p) /\ m \in 0..Len(p) /\ n \in 0..Len(p)
    BY <1>1
<1>3. p[m] \in Octet
    BY <1>2, ElementOfSeq
<1>4. PICK s \in Seq(Octet), t \in Seq(Octet) : s = SubSeq(p, 1, n) /\ t = SubSeq(p, 1, m)
    BY <1>1, <1>2, FirstBytes
<1>5. Len(s) = n /\ \A i \in 1..n : s[i] = p[i]
    BY <1>1, <1>2, <1>4, FirstBytes
<1>6. Len(t) = m /\ \A i \in 1..m : t[i] = p[i]
    BY <1>1, <1>2, <1>4, FirstBytes
<1>7. /\ Append(s, p[m]) \in Seq(Octet) /\ Len(Append(s, p[m])) = n + 1
      /\ \A i \in 1..n : Append(s, p[m])[i] = s[i]
      /\ Append(s, p[m])[n + 1] = p[m]
    BY <1>3, <1>5, AppendProperties
<1>8. \A i \in 1..m : i \in 1..n \/ i = n + 1
    BY <1>2
<1>9. \A i \in 1..m : Append(s, p[m])[i] = t[i]
    BY <1>2, <1>5, <1>6, <1>7, <1>8
<1>10. Append(s, p[m]) = t
    BY <1>2, <1>6, <1>7, <1>9, SeqEqual
<1> QED BY <1>1, <1>2, <1>3, <1>4, <1>10

\* The first n bytes of a call without the k-th, byte by byte.
LEMMA WithoutShape ==
    ASSUME NEW op \in Ops, NEW n \in 1..Len(Pokes(op)), NEW k \in 1..n
    PROVE  /\ Without(op, k, n) \in Seq(Octet) /\ Len(Without(op, k, n)) = n - 1
           /\ \A i \in 1..(n - 1) : i < k => Without(op, k, n)[i] = Pokes(op)[i]
           /\ \A i \in 1..(n - 1) : ~(i < k) => Without(op, k, n)[i] = Pokes(op)[i + 1]
<1>1. PICK p \in Seq(Octet) : p = Pokes(op)
    BY PokesShape
<1>2. PICK m \in Nat : m = n - 1
    BY <1>1
<1>3. \A i \in 1..m : i \in 1..Len(p) /\ i + 1 \in 1..Len(p)
    BY <1>1, <1>2
<1>4. \A i \in 1..m : p[i] \in Octet /\ p[i + 1] \in Octet
    BY <1>3, ElementOfSeq
<1>5. Without(op, k, n) = [i \in 1..m |-> IF i < k THEN p[i] ELSE p[i + 1]]
    BY <1>1, <1>2 DEF Without
<1>6. Without(op, k, n) \in [1..m -> Octet]
    BY <1>4, <1>5
<1>7. Without(op, k, n) \in Seq(Octet) /\ Len(Without(op, k, n)) = m
    BY <1>6
<1> QED BY <1>1, <1>2, <1>5, <1>7

\* While nothing is lost, the parser holds what has been poked, and the last byte
\* executes the command.
LEMMA ReceiveNext ==
    ASSUME NEW op \in Ops, NEW n \in Nat, n < Len(Pokes(op)),
           rx = SubSeq(Pokes(op), 1, n), Receive(Pokes(op)[n + 1])
    PROVE  IF n + 1 < Len(Pokes(op))
           THEN /\ rx' = SubSeq(Pokes(op), 1, n + 1)
                /\ UNCHANGED <<busy, answer, settings, hook_off, lock, reboot>>
           ELSE Execute(op.cmd, Pokes(op))
<1>1. PICK p \in Seq(Octet) : p = Pokes(op)
    BY PokesShape
<1>2. PICK c \in Cmds : c = op.cmd
    BY OpShape
<1>3. PICK l \in Nat, m \in Nat : l = Len(p) /\ m = n + 1 /\ m <= l /\ m \in 0..l
    BY <1>1
<1>4. PICK bs \in Seq(Octet) : bs = SubSeq(p, 1, m)
    BY <1>1, <1>3, FirstBytes
<1>5. Append(rx, p[m]) = bs /\ Receive(p[m])
    BY <1>1, <1>3, <1>4, NextFirstBytes
<1>6. Len(bs) = m /\ (\A i \in 1..m : bs[i] = p[i]) /\ (m = l => bs = p)
    BY <1>1, <1>3, <1>4, FirstBytes
<1>7. \A i \in 1..4 : p[i] = Code[c][i]
    BY <1>1, <1>2, PokesShape
<1>8. l = 4 + ArgBytes(c)
    BY <1>1, <1>2, <1>3, PokesShape
<1>9. CASE m < 4
    <2>1. \A i \in 1..Len(bs) : bs[i] = Code[c][i]
        <3>1. \A i \in 1..m : i \in 1..4
            BY <1>9
        <3> QED BY <1>6, <1>7, <3>1
    <2>2. c \in Matching(bs)
        BY <1>6, <1>9, <2>1, MatchShort
    <2>3. \A d \in Matching(bs) : Len(bs) # 4 + ArgBytes(d)
        <3> TAKE d \in Matching(bs)
        <3>1. d \in Cmds
            BY DEF Matching
        <3>2. ArgBytes(d) \in Nat
            BY <3>1, AtStep
        <3> QED BY <1>6, <1>9, <3>2
    <2>4. rx' = bs /\ UNCHANGED <<busy, answer, settings, hook_off, lock, reboot>>
        BY <1>5, <2>2, <2>3, Keeps
    <2>5. m < l
        <3>1. ArgBytes(c) \in Nat
            BY AtStep
        <3> QED BY <1>8, <1>9, <3>1
    <2> QED BY <1>1, <1>3, <1>4, <2>4, <2>5
<1>10. CASE m >= 4
    <2>1. \A i \in 1..4 : bs[i] = Code[c][i]
        <3>1. \A i \in 1..4 : i \in 1..m
            BY <1>10
        <3> QED BY <1>6, <1>7, <3>1
    <2>2. Matching(bs) = {c}
        BY <1>6, <1>10, <2>1, MatchFour
    <2>3. CASE m < l
        <3>1. Len(bs) # 4 + ArgBytes(c)
            BY <1>6, <1>8, <2>3
        <3>2. rx' = bs /\ UNCHANGED <<busy, answer, settings, hook_off, lock, reboot>>
            BY <1>5, <2>2, <3>1, Keeps
        <3> QED BY <1>1, <1>3, <1>4, <2>3, <3>2
    <2>4. CASE m = l
        <3>1. Execute(c, bs)
            BY <1>5, <1>6, <1>8, <2>2, <2>4, Completes
        <3> QED BY <1>1, <1>2, <1>3, <1>6, <2>4, <3>1
    <2> QED BY <1>3, <2>3, <2>4
<1> QED BY <1>3, <1>9, <1>10

\* The bytes without one, with the next byte behind them.
LEMMA NextWithout ==
    ASSUME NEW op \in Ops, NEW n \in Nat, n < Len(Pokes(op)), NEW k \in 1..n
    PROVE  Append(Without(op, k, n), Pokes(op)[n + 1]) = Without(op, k, n + 1)
<1>1. PICK p \in Seq(Octet) : p = Pokes(op)
    BY PokesShape
<1>2. n \in 1..Len(p) /\ n + 1 \in 1..Len(p) /\ k \in 1..(n + 1)
    BY <1>1
<1>3. PICK s \in Seq(Octet), t \in Seq(Octet) : s = Without(op, k, n) /\ t = Without(op, k, n + 1)
    BY <1>1, <1>2, WithoutShape
<1>4. /\ Len(s) = n - 1
      /\ \A i \in 1..(n - 1) : i < k => s[i] = p[i]
      /\ \A i \in 1..(n - 1) : ~(i < k) => s[i] = p[i + 1]
    BY <1>1, <1>2, <1>3, WithoutShape
<1>5. /\ Len(t) = n
      /\ \A i \in 1..n : i < k => t[i] = p[i]
      /\ \A i \in 1..n : ~(i < k) => t[i] = p[i + 1]
    <2>1. (n + 1) - 1 = n
        OBVIOUS
    <2> QED BY <1>1, <1>2, <1>3, <2>1, WithoutShape
<1>6. p[n + 1] \in Octet
    BY <1>1, NextFirstBytes
<1>7. PICK u \in Seq(Octet) : u = Append(s, p[n + 1])
    <2>1. Append(s, p[n + 1]) \in Seq(Octet)
        BY <1>6, AppendProperties
    <2> QED BY <2>1
<1>8. Len(u) = n /\ (\A i \in 1..(n - 1) : u[i] = s[i]) /\ u[n] = p[n + 1]
    <2>1. (n - 1) + 1 = n
        OBVIOUS
    <2> QED BY <1>4, <1>6, <1>7, <2>1, AppendProperties
<1>9. \A i \in 1..n : i \in 1..(n - 1) \/ (i = n /\ ~(i < k))
    OBVIOUS
<1>10. \A i \in 1..n : u[i] = t[i]
    BY <1>4, <1>5, <1>8, <1>9
<1>11. u = t
    BY <1>5, <1>8, <1>10, SeqEqual
<1> QED BY <1>1, <1>3, <1>7, <1>11

\* A parser that misses a byte of the command drops it, unless the next byte is the
\* one it misses.  One that misses a later byte keeps on waiting.
LEMMA ReceiveAfterLoss ==
    ASSUME NEW op \in Ops, NEW n \in Nat, 0 < n, n < Len(Pokes(op)), Misses(op, n),
           Receive(Pokes(op)[n + 1])
    PROVE  /\ UNCHANGED <<busy, answer, settings, hook_off, lock, reboot>>
           /\ \/ rx' = <<>>
              \/ Misses(op, n + 1)'
<1>1. PICK p \in Seq(Octet) : p = Pokes(op)
    BY PokesShape
<1>2. PICK c \in Cmds : c = op.cmd
    BY OpShape
<1>3. PICK k \in 1..n : (k <= 4 => n = k) /\ rx = Without(op, k, n)
    BY DEF Misses
<1>4. PICK l \in Nat : l = Len(p) /\ n < l
    BY <1>1
<1>5. PICK bs \in Seq(Octet) : bs = Without(op, k, n + 1) /\ k \in 1..(n + 1)
    <2>1. n + 1 \in 1..Len(p) /\ k \in 1..(n + 1)
        BY <1>4
    <2> QED BY <1>1, <2>1, WithoutShape
<1>6. Append(rx, p[n + 1]) = bs /\ Receive(p[n + 1])
    BY <1>1, <1>3, <1>5, NextWithout
<1>7. /\ Len(bs) = n
      /\ \A i \in 1..n : i < k => bs[i] = p[i]
      /\ \A i \in 1..n : ~(i < k) => bs[i] = p[i + 1]
    <2>1. (n + 1) - 1 = n /\ n + 1 \in 1..Len(p)
        BY <1>4
    <2> QED BY <1>1, <1>5, <2>1, WithoutShape
<1>8. \A i \in 1..4 : p[i] = Code[c][i]
    BY <1>1, <1>2, PokesShape
<1>9. l = 4 + ArgBytes(c)
    BY <1>1, <1>2, <1>4, PokesShape
<1>10. /\ Code[c][1] = Prefix /\ Code[c][2] \in {Group0, Group1}
       /\ Code[c][3] \in Thirds /\ Code[c][4] \notin Thirds /\ Code[c][4] # Prefix
    BY CodeShape
<1>11. ASSUME Matching(bs) = {}
       PROVE  /\ rx' = <<>>
              /\ UNCHANGED <<busy, answer, settings, hook_off, lock, reboot>>
    BY <1>6, <1>11, Drops
<1>12. CASE k = 1
    <2>1. bs[1] = Code[c][2] /\ Len(bs) >= 1
        <3>1. n = 1
            BY <1>3, <1>12
        <3> QED BY <1>7, <1>8, <1>12, <3>1
    <2>2. bs[1] # Prefix
        BY <1>10, <2>1 DEF Prefix, Group0, Group1
    <2> QED BY <1>11, <2>1, <2>2, Stray
<1>13. CASE k = 2
    <2>1. bs[2] = Code[c][3] /\ Len(bs) >= 2
        <3>1. n = 2
            BY <1>3, <1>13
        <3> QED BY <1>7, <1>8, <1>13, <3>1
    <2>2. bs[2] \notin {Group0, Group1}
        <3>1. \A x \in Thirds : x \notin {Group0, Group1}
            BY DEF Thirds, Group0, Group1
        <3> QED BY <1>10, <2>1, <3>1
    <2> QED BY <1>11, <2>1, <2>2, Stray
<1>14. CASE k = 3
    <2>1. bs[3] = Code[c][4] /\ Len(bs) >= 3
        <3>1. n = 3
            BY <1>3, <1>14
        <3> QED BY <1>7, <1>8, <1>14, <3>1
    <2> QED BY <1>10, <1>11, <2>1, Stray
<1>15. CASE k = 4
    <2>1. /\ n = 4 /\ bs[1] = Code[c][1] /\ bs[2] = Code[c][2] /\ bs[3] = Code[c][3]
          /\ bs[4] = p[5]
        BY <1>3, <1>7, <1>8, <1>15
    <2>2. CASE Matching(bs) = {}
        BY <1>11, <2>2
    <2>3. CASE Matching(bs) # {}
        <3>1. PICK d \in Cmds : d \in Matching(bs)
            BY <2>3 DEF Matching
        <3>2. DOMAIN bs \cap 1..4 = 1..4
            BY <1>7, <2>1
        <3>3. bs[3] = Code[d][3] /\ bs[4] = Code[d][4]
            BY <3>1, <3>2 DEF Matching
        <3>4. CmdOf(Code[d][3]) = d /\ CmdOf(Code[c][3]) = c
            BY CodeShape
        <3>5. d = c
            BY <2>1, <3>3, <3>4
        <3>6. p[5] = Code[c][4]
            BY <2>1, <3>3, <3>5
        <3>7. \A i \in 1..4 : bs[i] = Code[c][i]
            <4>1. \A i \in 1..4 : i = 1 \/ i = 2 \/ i = 3 \/ i = 4
                OBVIOUS
            <4> QED BY <2>1, <3>6, <4>1
        <3>8. Len(bs) >= 4 /\ Len(bs) = 4
            BY <1>7, <2>1
        <3>9. Matching(bs) = {c}
            BY <3>7, <3>8, MatchFour
        <3>10. Len(bs) # 4 + ArgBytes(c)
            BY <1>4, <1>9, <2>1, <3>8
        <3>11. /\ rx' = bs
               /\ UNCHANGED <<busy, answer, settings, hook_off, lock, reboot>>
            BY <1>6, <3>9, <3>10, Keeps
        <3>12. 5 \in 1..Len(p) /\ n + 1 = 5 /\ 5 \in 1..5
            BY <1>4, <2>1
        <3>13. PICK t \in Seq(Octet) : t = Without(op, 5, 5)
            BY <1>1, <3>12, WithoutShape
        <3>14. Len(t) = 4 /\ \A i \in 1..4 : i < 5 => t[i] = p[i]
            <4>1. 5 - 1 = 4
                OBVIOUS
            <4> QED BY <1>1, <3>12, <3>13, <4>1, WithoutShape
        <3>15. bs = t
            <4>1. \A i \in 1..4 : t[i] = Code[c][i]
                <5>1. \A i \in 1..4 : i < 5
                    OBVIOUS
                <5> QED BY <1>8, <3>14, <5>1
            <4> QED BY <3>7, <3>8, <3>14, <4>1, SeqEqual
        <3>16. Misses(op, n + 1)'
            <4>1. rx' = Without(op, 5, 5)
                BY <3>11, <3>13, <3>15
            <4>2. ~(5 <= 4)
                OBVIOUS
            <4> QED BY <3>12, <4>1, <4>2 DEF Misses, Without
        <3> QED BY <3>11, <3>16
    <2> QED BY <2>2, <2>3
<1>16. CASE k > 4
    <2>1. \A i \in 1..4 : bs[i] = Code[c][i]
        <3>1. \A i \in 1..4 : i \in 1..n /\ i < k
            BY <1>16
        <3> QED BY <1>7, <1>8, <3>1
    <2>2. Len(bs) >= 4
        BY <1>7, <1>16
    <2>3. Matching(bs) = {c}
        BY <2>1, <2>2, MatchFour
    <2>4. Len(bs) # 4 + ArgBytes(c)
        BY <1>4, <1>7, <1>9
    <2>5. rx' = bs /\ UNCHANGED <<busy, answer, settings, hook_off, lock, reboot>>
        BY <1>6, <2>3, <2>4, Keeps
    <2>6. Misses(op, n + 1)'
        <3>1. ~(k <= 4)
            BY <1>16
        <3> QED BY <1>5, <2>5, <3>1 DEF Misses, Without
    <2> QED BY <2>5, <2>6
<1>17. k = 1 \/ k = 2 \/ k = 3 \/ k = 4 \/ k > 4
    OBVIOUS
<1> QED BY <1>12, <1>13, <1>14, <1>15, <1>16, <1>17

\* The bytes from one position to another.
LEMMA FromShape ==
    ASSUME NEW p \in Seq(Octet), NEW l \in Nat, l = Len(p), NEW n \in Nat, n <= l,
           NEW m \in 1..(n + 1)
    PROVE  /\ SubSeq(p, m, n) \in Seq(Octet) /\ Len(SubSeq(p, m, n)) = n + 1 - m
           /\ \A i \in 1..(n + 1 - m) : SubSeq(p, m, n)[i] = p[m + i - 1]
<1>1. PICK a \in Nat, w \in Nat : a = m - 1 /\ w = n + 1 - m
    OBVIOUS
<1>2. a + w <= Len(p) /\ a + 1 = m /\ a + w = n
    BY <1>1
<1>3. /\ SubSeq(p, a + 1, a + w) \in Seq(Octet) /\ Len(SubSeq(p, a + 1, a + w)) = w
      /\ \A i \in 1..w : SubSeq(p, a + 1, a + w)[i] = p[a + i]
    BY <1>2, SubSeqAt
<1>4. \A i \in 1..w : a + i = m + i - 1
    BY <1>1
<1> QED BY <1>1, <1>2, <1>3, <1>4

\* The same and the next byte.
LEMMA NextFrom ==
    ASSUME NEW p \in Seq(Octet), NEW l \in Nat, l = Len(p), NEW n \in Nat, n < l,
           NEW m \in 1..(n + 1)
    PROVE  /\ Append(SubSeq(p, m, n), p[n + 1]) = SubSeq(p, m, n + 1)
           /\ SubSeq(p, m, n + 1) \in Seq(Octet)
<1>0. PICK k \in Nat : k = n + 1 /\ k <= l /\ n <= l /\ m \in 1..(k + 1) /\ k + 1 = n + 2
    OBVIOUS
<1>1. PICK s \in Seq(Octet) : s = SubSeq(p, m, n)
    BY <1>0, FromShape
<1>2. Len(s) = n + 1 - m /\ \A i \in 1..(n + 1 - m) : s[i] = p[m + i - 1]
    BY <1>0, <1>1, FromShape
<1>9. PICK t \in Seq(Octet) : t = SubSeq(p, m, k)
    BY <1>0, FromShape
<1>3. Len(t) = n + 2 - m /\ \A i \in 1..(n + 2 - m) : t[i] = p[m + i - 1]
    BY <1>0, <1>9, FromShape
<1>4. PICK b \in Octet : b = p[n + 1]
    <2>1. n + 1 \in 1..Len(p)
        OBVIOUS
    <2> QED BY <2>1, ElementOfSeq
<1>5. /\ Append(s, b) \in Seq(Octet) /\ Len(Append(s, b)) = Len(s) + 1
      /\ \A i \in 1..Len(s) : Append(s, b)[i] = s[i]
      /\ Append(s, b)[Len(s) + 1] = b
    BY AppendProperties
<1>6. \A i \in 1..(n + 2 - m) : i \in 1..(n + 1 - m) \/ (i = n + 2 - m /\ m + i - 1 = n + 1)
    OBVIOUS
<1>7. \A i \in 1..(n + 2 - m) : Append(s, b)[i] = t[i]
    BY <1>2, <1>3, <1>4, <1>5, <1>6
<1>8. Append(s, b) = t
    BY <1>2, <1>3, <1>5, <1>7, SeqEqual
<1> QED BY <1>0, <1>1, <1>9, <1>4, <1>8

\* A parser that has dropped a byte takes nothing of the call for a command.
LEMMA ReceiveDropped ==
    ASSUME NEW op \in Ops, NEW n \in Nat, 0 < n, n < Len(Pokes(op)),
           NoCommandInside(Pokes(op)), Dropped(op, n), Receive(Pokes(op)[n + 1])
    PROVE  /\ UNCHANGED <<busy, answer, settings, hook_off, lock, reboot>>
           /\ IF n + 1 < Len(Pokes(op)) THEN Dropped(op, n + 1)' ELSE rx' = <<>>
<1>1. PICK p \in Seq(Octet) : p = Pokes(op)
    BY PokesShape
<1>2. PICK l \in Nat : l = Len(p) /\ n < l
    BY <1>1
<1>3. PICK b \in Octet : b = p[n + 1] /\ Receive(b)
    <2>1. n + 1 \in 1..Len(p)
        BY <1>2
    <2>2. p[n + 1] \in Octet
        BY <2>1, ElementOfSeq
    <2> QED BY <1>1, <2>2
<1>4. \A k \in 2..l, c \in Cmds :
         \E i \in 1..4 : k + i - 1 <= l /\ p[k + i - 1] # Code[c][i]
    BY <1>1, <1>2 DEF NoCommandInside
<1>5. PICK m \in 2..(n + 1) : n < m + 3 /\ rx = SubSeq(p, m, n)
    <2>1. CASE rx = <<>>
        <3>1. SubSeq(p, n + 1, n) = <<>>
            BY <1>1, SubSeqEmpty
        <3> QED BY <2>1, <3>1
    <2>2. CASE \E k \in 2..n : n < k + 3 /\ rx = SubSeq(p, k, n)
        BY <2>2
    <2> QED BY <1>1, <2>1, <2>2 DEF Dropped
<1>6. PICK s \in Seq(Octet) : s = Append(rx, b) /\ s = SubSeq(p, m, n + 1)
    <2>1. m \in 1..(n + 1)
        BY <1>5
    <2>2. /\ Append(SubSeq(p, m, n), p[n + 1]) = SubSeq(p, m, n + 1)
          /\ SubSeq(p, m, n + 1) \in Seq(Octet)
        BY <1>2, <2>1, NextFrom
    <2> QED BY <1>1, <1>3, <1>5, <2>2
<1>7. Len(s) = n + 2 - m /\ \A i \in 1..(n + 2 - m) : s[i] = p[m + i - 1]
    BY <1>1, <1>2, <1>5, <1>6, FromShape
<1>8. CASE Matching(s) = {}
    <2>1. rx' = <<>> /\ UNCHANGED <<busy, answer, settings, hook_off, lock, reboot>>
        BY <1>3, <1>6, <1>8, Drops
    <2> QED BY <1>1, <2>1 DEF Dropped
<1>9. ASSUME NEW c \in Matching(s)
      PROVE  /\ UNCHANGED <<busy, answer, settings, hook_off, lock, reboot>>
             /\ n + 1 < l /\ Dropped(op, n + 1)'
    <2>1. c \in Cmds /\ \A i \in 1..Len(s) : i \in 1..4 => s[i] = Code[c][i]
        BY <1>9 DEF Matching
    <2>2. PICK i \in 1..4 : m + i - 1 <= l /\ p[m + i - 1] # Code[c][i]
        <3>1. m \in 2..l
            BY <1>2, <1>5
        <3> QED BY <1>4, <2>1, <3>1
    <2>3. ~(i <= n + 2 - m)
        <3>1. ASSUME i <= n + 2 - m PROVE FALSE
            <4>1. i \in 1..(n + 2 - m) /\ i \in 1..Len(s)
                BY <1>7, <3>1
            <4> QED BY <1>7, <2>1, <2>2, <4>1
        <3> QED BY <3>1
    <2>4. n + 1 < l /\ Len(s) < 4 /\ n + 1 < m + 3
        BY <1>2, <1>7, <2>2, <2>3
    <2>5. \A d \in Matching(s) : Len(s) # 4 + ArgBytes(d)
        <3> TAKE d \in Matching(s)
        <3>1. d \in Cmds
            BY DEF Matching
        <3>2. ArgBytes(d) \in Nat
            BY <3>1, AtStep
        <3> QED BY <1>7, <2>4, <3>2
    <2>6. rx' = s /\ UNCHANGED <<busy, answer, settings, hook_off, lock, reboot>>
        BY <1>3, <1>6, <1>9, <2>5, Keeps
    <2>7. Dropped(op, n + 1)'
        <3>1. m \in 2..(n + 1) /\ Matching(rx') # {} /\ rx' = SubSeq(Pokes(op), m, n + 1)
            BY <1>1, <1>6, <1>9, <2>6
        <3> QED BY <2>4, <3>1 DEF Dropped, Matching
    <2> QED BY <2>4, <2>6, <2>7
<1> QED BY <1>1, <1>2, <1>8, <1>9

-----------------------------------------------------------------------------
(***************************************************************************)
(* A byte too few                                                          *)
(***************************************************************************)
\* What the parser has when the prefix of the next call completes an attempt.
LEMMA LateBytes ==
    ASSUME NEW op \in Ops, NEW k \in 1..Len(Pokes(op))
    PROVE  /\ Append(Without(op, k, Len(Pokes(op))), Prefix) \in Seq(Octet)
           /\ Len(Append(Without(op, k, Len(Pokes(op))), Prefix)) = Len(Pokes(op))
           /\ \A i \in 1..(Len(Pokes(op)) - 1) : i < k =>
                 Append(Without(op, k, Len(Pokes(op))), Prefix)[i] = Pokes(op)[i]
           /\ \A i \in 1..(Len(Pokes(op)) - 1) : ~(i < k) =>
                 Append(Without(op, k, Len(Pokes(op))), Prefix)[i] = Pokes(op)[i + 1]
           /\ Append(Without(op, k, Len(Pokes(op))), Prefix)[Len(Pokes(op))] = Prefix
<1>1. PICK p \in Seq(Octet) : p = Pokes(op)
    BY PokesShape
<1>2. PICK l \in Nat : l = Len(p) /\ l \in 1..Len(p) /\ k \in 1..l
    <2>1. PICK l \in Nat : l = Len(p)
        BY <1>1
    <2> QED BY <1>1, <2>1
<1>3. PICK s \in Seq(Octet) : s = Without(op, k, l)
    BY <1>1, <1>2, WithoutShape
<1>4. /\ Len(s) = l - 1
      /\ \A i \in 1..(l - 1) : i < k => s[i] = p[i]
      /\ \A i \in 1..(l - 1) : ~(i < k) => s[i] = p[i + 1]
    BY <1>1, <1>2, <1>3, WithoutShape
<1>5. PICK x \in Octet : x = Prefix
    BY DEF Prefix, Octet
<1>6. /\ Append(s, x) \in Seq(Octet) /\ Len(Append(s, x)) = (l - 1) + 1
      /\ \A i \in 1..(l - 1) : Append(s, x)[i] = s[i]
      /\ Append(s, x)[(l - 1) + 1] = x
    BY <1>4, AppendProperties
<1>7. (l - 1) + 1 = l
    OBVIOUS
<1> QED BY <1>1, <1>2, <1>3, <1>4, <1>5, <1>6, <1>7

\* The prefix and its complement, for the solver.
LEMMA PrefixIs == Prefix = 207 /\ 255 - Prefix = 48
BY SMT DEF Prefix

\* The last argument and its complement do not agree.
LEMMA LateArguments ==
    \A op \in Ops : \A k, bs :
        /\ op.args # <<>> /\ op.cmd # "WRITE_FLASH_SECTOR" /\ ArgumentsApart(op)
        /\ k \in 5..Len(Pokes(op))
        /\ bs = Append(Without(op, k, Len(Pokes(op))), Prefix)
        => ~ComplementsMatch(op.cmd, bs)
<1>0. SUFFICES ASSUME NEW op \in Ops, NEW k, NEW bs,
           op.args # <<>>, op.cmd # "WRITE_FLASH_SECTOR", ArgumentsApart(op),
           k \in 5..Len(Pokes(op)),
           bs = Append(Without(op, k, Len(Pokes(op))), Prefix)
      PROVE ~ComplementsMatch(op.cmd, bs)
    OBVIOUS
<1>1. PICK p \in Seq(Octet) : p = Pokes(op)
    BY PokesShape
<1>2. PICK c \in Cmds : c = op.cmd
    BY OpShape
<1>3. PICK l \in Nat : l = Len(p) /\ k \in 1..l /\ k \in Nat
    <2>1. PICK l \in Nat : l = Len(p)
        BY <1>1
    <2>2. k \in 5..l
        BY <1>0, <1>1, <2>1
    <2>3. k \in 1..l /\ k \in Nat
        BY <2>2
    <2> QED BY <2>1, <2>3
<1>4. /\ bs \in Seq(Octet) /\ Len(bs) = l
      /\ \A i \in 1..(l - 1) : i < k => bs[i] = p[i]
      /\ \A i \in 1..(l - 1) : ~(i < k) => bs[i] = p[i + 1]
      /\ bs[l] = Prefix
    BY <1>0, <1>1, <1>3, LateBytes
<1>5. PICK m \in Nat : m \in 1..4 /\ m = Len(op.args) /\ m = Len(Widths(c)) /\ m \in 1..Len(op.args)
    <2>1. PICK a : a = op.args
        OBVIOUS
    <2>2. a \in Seq(0..MaxValue) /\ a # <<>> /\ Len(a) \in 0..4 /\ Len(a) = Len(Widths(c))
        BY <1>0, <1>2, <2>1, OpShape
    <2>3. Len(a) # 0
        BY <2>2, EmptySeq
    <2>4. PICK m \in 0..4 : m = Len(a)
        BY <2>2
    <2> QED BY <2>1, <2>2, <2>3, <2>4
<1>6. PICK v \in Nat, w \in Nat : v = op.args[m] /\ w = Widths(c)[m] /\ w \in {1, 2, 4}
    BY <1>2, <1>5, OpShape
<1>6a. w \in {1, 2, 4}
    BY <1>6
<1>6b. w >= 1
    BY <1>6a
<1>7. PICK at \in Nat : at = At(c, m) /\ at >= 4
    <2>1. m \in 1..5
        BY <1>5
    <2>2. At(c, m) \in Nat /\ At(c, m) >= 4
        BY <2>1, AtStep
    <2> QED BY <2>2
<1>8. l = 4 + ArgBytes(c)
    BY <1>1, <1>2, <1>3, PokesShape
<1>9. at + w + w = l
    <2>1. Len(Widths(c)) > 0
        BY <1>5
    <2>2. at + 2 * w = At(c, 5)
        BY <1>5, <1>6, <1>7, <2>1, AtFits
    <2>3. c # "WRITE_FLASH_SECTOR"
        BY <1>0, <1>2
    <2>4. /\ At(c, 5) \in Nat
          /\ 4 + ArgBytes(c) = At(c, 5)
                + (IF c = "WRITE_FLASH_SECTOR" THEN SectorBytes ELSE 0)
        BY AtStep
    <2>5. 4 + ArgBytes(c) = At(c, 5)
        BY <2>3, <2>4
    <2> QED BY <1>8, <2>2, <2>5
<1>10. PICK x \in Seq(Octet) : x = Bytes(v, w) /\ Len(x) = w
    BY <1>6, BytesShape
<1>11. x[1] # Prefix /\ x[w] # 255 - Prefix
    BY <1>0, <1>2, <1>5, <1>6, <1>10 DEF ArgumentsApart
<1>12. p[at + w] = x[w] /\ p[at + w + 1] = 255 - x[1]
    <2>1. \A j \in 1..(2 * w) : p[at + j] = WithComplement(v, w)[j]
        BY <1>1, <1>2, <1>5, <1>6, <1>7, PokesShape
    <2>2. w \in 1..(2 * w) /\ w + 1 \in 1..(2 * w) /\ w \in 1..w /\ 1 \in 1..w
             /\ at + (w + 1) = at + w + 1
        BY <1>6b
    <2>3. WithComplement(v, w)[w] = x[w] /\ WithComplement(v, w)[w + 1] = 255 - x[1]
        <3>1. \A i \in 1..w : WithComplement(v, w)[i] = Bytes(v, w)[i]
                                 /\ WithComplement(v, w)[w + i] = 255 - Bytes(v, w)[i]
            BY <1>6a, ComplementShape
        <3> QED BY <1>10, <2>2, <3>1
    <2> QED BY <2>1, <2>2, <2>3
<1>13. x[1] \in Octet /\ x[w] \in Octet
    <2>1. 1 \in 1..Len(x) /\ w \in 1..Len(x)
        BY <1>6, <1>10
    <2> QED BY <2>1, ElementOfSeq
<1>14. PICK f, g : f = Field(bs, Widths(c), m) /\ g = FieldXor(bs, Widths(c), m)
    OBVIOUS
<1>15. /\ f \in Seq(Octet) /\ Len(f) = w /\ \A j \in 1..w : f[j] = bs[at + j]
       /\ g \in Seq(Octet) /\ Len(g) = w /\ \A j \in 1..w : g[j] = bs[at + w + j]
    <2>1. m \in 1..Len(Widths(c))
        BY <1>5
    <2>2. Len(bs) = 4 + ArgBytes(c)
        BY <1>4, <1>8
    <2>3. bs \in Seq(Octet)
        BY <1>4
    <2>4. /\ Field(bs, Widths(c), m) \in Seq(Octet)
          /\ Len(Field(bs, Widths(c), m)) = Widths(c)[m]
          /\ FieldXor(bs, Widths(c), m) \in Seq(Octet)
          /\ Len(FieldXor(bs, Widths(c), m)) = Widths(c)[m]
        BY <2>1, <2>2, <2>3, FieldAt
    <2>5. \A j \in 1..Widths(c)[m] : Field(bs, Widths(c), m)[j] = bs[At(c, m) + j]
        BY <2>1, <2>2, <2>3, FieldAt
    <2>6. \A j \in 1..Widths(c)[m] :
             FieldXor(bs, Widths(c), m)[j] = bs[At(c, m) + Widths(c)[m] + j]
        BY <2>1, <2>2, <2>3, FieldAt
    <2> QED BY <1>6, <1>7, <1>14, <2>4, <2>5, <2>6
<1>16. w \in 1..w /\ at + w \in 1..(l - 1)
    BY <1>6b, <1>9
<1>17. g[w] = Prefix /\ f[w] = bs[at + w] /\ f[w] \in Octet
    <2>1. f[w] \in Octet
        BY <1>15, <1>16, ElementOfSeq
    <2> QED BY <1>4, <1>9, <1>15, <1>16, <2>1
<1>18. ~(255 - f[w] = Prefix)
    <2>1. \A y \in Octet : y \in Int
        BY DEF Octet
    <2>2. CASE at + w < k
        <3>1. f[w] = x[w]
            BY <1>4, <1>12, <1>16, <1>17, <2>2
        <3>2. PICK y \in Int : y = x[w]
            BY <1>13, <2>1
        <3> QED BY <1>11, <3>1, <3>2, PrefixIs
    <2>3. CASE ~(at + w < k)
        <3>1. f[w] = 255 - x[1]
            BY <1>4, <1>12, <1>16, <1>17, <2>3
        <3>2. PICK y \in Int : y = x[1]
            BY <1>13, <2>1
        <3> QED BY <1>11, <3>1, <3>2, PrefixIs
    <2> QED BY <2>2, <2>3
<1>19. SUFFICES ASSUME ComplementsMatch(c, bs) PROVE FALSE
    BY <1>2
<1>20. g = Complement(Received(c, bs, m))
    <2>1. m \in DOMAIN Widths(c)
        <3>1. DOMAIN Widths(c) = 1..Len(Widths(c))
            BY WidthsShape
        <3> QED BY <1>5, <3>1
    <2> QED BY <1>14, <1>19, <2>1 DEF ComplementsMatch
<1>21. CASE ~IsFlag(c, m)
    <2>1. g = Complement(f)
        BY <1>14, <1>20, <1>21 DEF Received
    <2>2. DOMAIN f = 1..w
        BY <1>15
    <2>3. g[w] = 255 - f[w]
        BY <1>16, <2>1, <2>2 DEF Complement
    <2> QED BY <1>17, <1>18, <2>3
<1>22. CASE IsFlag(c, m)
    <2>1. w = 1
        BY <1>5, <1>6, <1>22, WidthsShape
    <2>2. PICK y \in {0, 1} : Received(c, bs, m) = <<y>>
        BY <1>14, <1>22 DEF Received
    <2>3. Complement(<<y>>)[1] = 255 - y
        <3>1. 1 \in DOMAIN <<y>> /\ <<y>>[1] = y
            OBVIOUS
        <3>2. PICK s : s = <<y>>
            OBVIOUS
        <3>3. 1 \in DOMAIN s /\ s[1] = y
            BY <3>1, <3>2
        <3>4. Complement(s)[1] = 255 - s[1]
            BY <3>3 DEF Complement
        <3> QED BY <3>2, <3>3, <3>4
    <2>4. 255 - y = Prefix
        BY <1>17, <1>20, <2>1, <2>2, <2>3
    <2> QED BY <2>4, PrefixIs
<1> QED BY <1>21, <1>22

\* A sequence without its k-th byte, byte by byte.
LEMMA RemoveAtShape ==
    ASSUME NEW s \in Seq(Octet), NEW n \in Nat, Len(s) = n, NEW k \in 1..n
    PROVE  /\ RemoveAt(s, k) \in Seq(Octet) /\ Len(RemoveAt(s, k)) = n - 1
           /\ \A i \in 1..(n - 1) : i < k => RemoveAt(s, k)[i] = s[i]
           /\ \A i \in 1..(n - 1) : ~(i < k) => RemoveAt(s, k)[i] = s[i + 1]
<1>1. PICK a \in Nat, b \in Nat : a = k - 1 /\ b = n - k
    OBVIOUS
<1>2. PICK t, u : t = SubSeq(s, 0 + 1, 0 + a) /\ u = SubSeq(s, k + 1, k + b)
    OBVIOUS
<1>3. /\ t \in Seq(Octet) /\ Len(t) = a /\ \A i \in 1..a : t[i] = s[0 + i]
    <2>1. 0 + a <= Len(s) /\ 0 \in Nat
        BY <1>1
    <2> QED BY <1>2, <2>1, SubSeqAt
<1>4. /\ u \in Seq(Octet) /\ Len(u) = b /\ \A i \in 1..b : u[i] = s[k + i]
    <2>1. k + b <= Len(s) /\ k \in Nat
        BY <1>1
    <2>2. /\ SubSeq(s, k + 1, k + b) \in Seq(Octet) /\ Len(SubSeq(s, k + 1, k + b)) = b
          /\ \A i \in 1..b : SubSeq(s, k + 1, k + b)[i] = s[k + i]
        BY <2>1, SubSeqAt
    <2> QED BY <1>2, <2>2
<1>5. RemoveAt(s, k) = t \o u
    <2>1. 0 + 1 = 1 /\ 0 + a = k - 1 /\ k + b = n
        BY <1>1
    <2> QED BY <1>2, <2>1 DEF RemoveAt
<1>6. /\ t \o u \in Seq(Octet) /\ Len(t \o u) = a + b
      /\ \A i \in 1..(a + b) : (t \o u)[i] = IF i <= a THEN t[i] ELSE u[i - a]
    BY <1>3, <1>4, ConcatProperties
<1>7. a + b = n - 1
    BY <1>1
<1>8. \A i \in 1..(n - 1) : i < k => (t \o u)[i] = s[i]
    <2> TAKE i \in 1..(n - 1)
    <2> HAVE i < k
    <2>1. i <= a /\ i \in 1..a /\ 0 + i = i
        BY <1>1
    <2> QED BY <1>3, <1>6, <1>7, <2>1
<1>9. \A i \in 1..(n - 1) : ~(i < k) => (t \o u)[i] = s[i + 1]
    <2> TAKE i \in 1..(n - 1)
    <2> HAVE ~(i < k)
    <2>1. ~(i <= a) /\ i - a \in 1..b /\ k + (i - a) = i + 1
        BY <1>1
    <2> QED BY <1>4, <1>6, <1>7, <2>1
<1> QED BY <1>5, <1>6, <1>7, <1>8, <1>9

\* A sequence without an element and with a prefix behind it.
LEMMA ShiftedShape ==
    ASSUME NEW s \in Seq(Octet), NEW n \in Nat, Len(s) = n, NEW k \in 1..n
    PROVE  /\ Append(RemoveAt(s, k), Prefix) \in Seq(Octet)
           /\ Len(Append(RemoveAt(s, k), Prefix)) = n
           /\ \A i \in 1..(n - 1) : i < k => Append(RemoveAt(s, k), Prefix)[i] = s[i]
           /\ \A i \in 1..(n - 1) : ~(i < k) => Append(RemoveAt(s, k), Prefix)[i] = s[i + 1]
           /\ Append(RemoveAt(s, k), Prefix)[n] = Prefix
<1>1. PICK r \in Seq(Octet) : r = RemoveAt(s, k)
    BY RemoveAtShape
<1>2. /\ Len(r) = n - 1
      /\ \A i \in 1..(n - 1) : i < k => r[i] = s[i]
      /\ \A i \in 1..(n - 1) : ~(i < k) => r[i] = s[i + 1]
    BY <1>1, RemoveAtShape
<1>3. PICK x \in Octet : x = Prefix
    BY DEF Prefix, Octet
<1>4. /\ Append(r, x) \in Seq(Octet) /\ Len(Append(r, x)) = Len(r) + 1
      /\ \A i \in 1..Len(r) : Append(r, x)[i] = r[i]
      /\ Append(r, x)[Len(r) + 1] = x
    BY AppendProperties
<1>5. (n - 1) + 1 = n
    OBVIOUS
<1> QED BY <1>1, <1>2, <1>3, <1>4, <1>5

\* A sector without a byte, or with one too few in front of it, has another CRC.
LEMMA LateSector ==
    \A op \in Ops : \A k, bs :
        /\ op.cmd = "WRITE_FLASH_SECTOR" /\ SectorApart(op)
        /\ k \in 5..Len(Pokes(op))
        /\ bs = Append(Without(op, k, Len(Pokes(op))), Prefix)
        => Crc(SectorData(op.cmd, bs)) # Args(op.cmd, bs)[3]
<1>0. SUFFICES ASSUME NEW op \in Ops, NEW k, NEW bs,
           op.cmd = "WRITE_FLASH_SECTOR", SectorApart(op),
           k \in 5..Len(Pokes(op)),
           bs = Append(Without(op, k, Len(Pokes(op))), Prefix)
      PROVE Crc(SectorData("WRITE_FLASH_SECTOR", bs)) # Args("WRITE_FLASH_SECTOR", bs)[3]
    OBVIOUS
<1>1. PICK p \in Seq(Octet) : p = Pokes(op)
    BY PokesShape
<1>2. PICK c \in Cmds : c = "WRITE_FLASH_SECTOR"
    BY SectorAt
<1>3. PICK n \in Nat : n = SectorBytes /\ n > 0
    <2>1. SectorBytes \in Nat /\ SectorBytes # 0
        BY OpsAssumption
    <2> QED BY <2>1
<1>4. PICK l \in Nat : l = Len(p) /\ l = 22 + n
    BY <1>0, <1>1, <1>3, PokesShape, SectorAt
<1>5. k \in Nat /\ k >= 5 /\ k <= l /\ k \in 1..l
    <2>1. k \in 5..l
        BY <1>0, <1>1, <1>4
    <2> QED BY <2>1
<1>6. /\ bs \in Seq(Octet) /\ Len(bs) = l
      /\ \A i \in 1..(l - 1) : i < k => bs[i] = p[i]
      /\ \A i \in 1..(l - 1) : ~(i < k) => bs[i] = p[i + 1]
      /\ bs[l] = Prefix
    BY <1>0, <1>1, <1>4, <1>5, LateBytes
<1>7. PICK d \in Seq(Octet) : d = op.data /\ Len(d) = n
    <2>1. op.data \in Seq(Octet)
        BY OpShape
    <2> QED BY <1>0, <1>3, <2>1, OpsAssumption
<1>8. \A j \in 1..n : p[22 + j] = d[j]
    <2>1. \A j \in 1..Len(op.data) : Pokes(op)[At(op.cmd, 5) + j] = op.data[j]
        BY PokesShape
    <2>2. At(op.cmd, 5) = 22
        BY <1>0, SectorAt
    <2> QED BY <1>1, <1>7, <2>1, <2>2
\* the sector
<1>9. PICK e \in Seq(Octet) : /\ e = SectorData("WRITE_FLASH_SECTOR", bs) /\ Len(e) = n
                              /\ \A j \in 1..n : e[j] = bs[22 + j]
    <2>1. 22 + n <= Len(bs) /\ 22 \in Nat
        BY <1>4, <1>6
    <2>2. /\ SubSeq(bs, 22 + 1, 22 + n) \in Seq(Octet) /\ Len(SubSeq(bs, 22 + 1, 22 + n)) = n
          /\ \A j \in 1..n : SubSeq(bs, 22 + 1, 22 + n)[j] = bs[22 + j]
        BY <1>6, <2>1, SubSeqAt
    <2>3. 22 + 1 = 23
        OBVIOUS
    <2> QED BY <1>3, <2>2, <2>3 DEF SectorData
<1>10. PICK kk \in Nat : kk = (IF k <= 22 THEN 1 ELSE k - 22) /\ kk \in 1..n
    <2>1. CASE k <= 22
        BY <1>3, <2>1
    <2>2. CASE ~(k <= 22)
        BY <1>4, <1>5, <2>2
    <2> QED BY <2>1, <2>2
<1>11. e = Append(RemoveAt(d, kk), Prefix)
    <2>1. PICK s \in Seq(Octet) : s = Append(RemoveAt(d, kk), Prefix)
        BY <1>7, <1>10, ShiftedShape
    <2>2. /\ Len(s) = n
          /\ \A i \in 1..(n - 1) : i < kk => s[i] = d[i]
          /\ \A i \in 1..(n - 1) : ~(i < kk) => s[i] = d[i + 1]
          /\ s[n] = Prefix
        BY <1>7, <1>10, <2>1, ShiftedShape
    <2>3. \A j \in 1..n : e[j] = s[j]
        <3> TAKE j \in 1..n
        <3>1. CASE j = n
            BY <1>4, <1>6, <1>9, <2>2, <3>1
        <3>2. CASE j # n
            <4>1. j \in 1..(n - 1) /\ 22 + j \in 1..(l - 1) /\ j + 1 \in 1..n
                     /\ 22 + (j + 1) = 22 + j + 1
                BY <1>4, <3>2
            <4>2. (j < kk) <=> (22 + j < k)
                BY <1>5, <1>10
            <4>3. CASE j < kk
                BY <1>6, <1>8, <1>9, <2>2, <4>1, <4>2, <4>3
            <4>4. CASE ~(j < kk)
                BY <1>6, <1>8, <1>9, <2>2, <4>1, <4>2, <4>4
            <4> QED BY <4>3, <4>4
        <3> QED BY <3>1, <3>2
    <2> QED BY <1>9, <2>1, <2>2, <2>3, SeqEqual
\* the third argument
<1>12. /\ Widths(c) = <<1, 4, 4>> /\ 3 \in 1..Len(Widths(c)) /\ Widths(c)[3] = 4
       /\ Len(op.args) = 3 /\ 3 \in 1..Len(op.args)
    <2>1. Widths(c) = <<1, 4, 4>>
        BY <1>2, WidthsShape
    <2>2. Len(<<1, 4, 4>>) = 3 /\ <<1, 4, 4>>[3] = 4
        OBVIOUS
    <2>3. Len(op.args) = Len(Widths(c))
        BY <1>0, <1>2, OpShape
    <2> QED BY <2>1, <2>2, <2>3
<1>13. PICK v \in Nat : v = op.args[3]
    BY <1>12, OpShape
<1>14. PICK f \in Seq(Octet) : /\ f = Field(bs, Widths(c), 3) /\ Len(f) = 4
                               /\ \A j \in 1..4 : f[j] = bs[14 + j]
    <2>1. Len(bs) = 4 + ArgBytes(c) /\ At(c, 3) = 14
        BY <1>2, <1>3, <1>4, <1>6, SectorAt
    <2>2. /\ Field(bs, Widths(c), 3) \in Seq(Octet)
          /\ Len(Field(bs, Widths(c), 3)) = Widths(c)[3]
        BY <1>6, <1>12, <2>1, FieldAt
    <2>3. \A j \in 1..Widths(c)[3] : Field(bs, Widths(c), 3)[j] = bs[At(c, 3) + j]
        BY <1>6, <1>12, <2>1, FieldAt
    <2> QED BY <1>12, <2>1, <2>2, <2>3
<1>15. Args("WRITE_FLASH_SECTOR", bs)[3] = Value(f)
    <2>1. ~IsFlag(c, 3)
        BY <1>2 DEF IsFlag
    <2>2. Received(c, bs, 3) = f
        BY <1>14, <2>1 DEF Received
    <2>3. 3 \in DOMAIN Widths(c)
        BY <1>12
    <2> QED BY <1>2, <2>2, <2>3 DEF Args
<1>16. PICK crc \in Seq(Octet) : /\ crc = WithComplement(v, 4) /\ Len(crc) = 8
                                 /\ \A j \in 1..8 : p[14 + j] = crc[j]
    <2>1. 4 \in {1, 2, 4} /\ 4 \in Nat /\ 2 * 4 = 8
        OBVIOUS
    <2>2. WithComplement(v, 4) \in Seq(Octet) /\ Len(WithComplement(v, 4)) = 2 * 4
        <3>1. PICK w \in Nat : w \in {1, 2, 4} /\ w = 4
            OBVIOUS
        <3>2. WithComplement(v, w) \in Seq(Octet) /\ Len(WithComplement(v, w)) = 2 * w
            BY <3>1, WithComplementLen
        <3> QED BY <3>1, <3>2
    <2>3. \A j \in 1..(2 * Widths(c)[3]) : p[At(c, 3) + j] = WithComplement(v, Widths(c)[3])[j]
        BY <1>0, <1>1, <1>2, <1>12, <1>13, PokesShape
    <2>4. At(c, 3) = 14
        BY <1>2, SectorAt
    <2> QED BY <1>12, <2>1, <2>2, <2>3, <2>4
<1>17. CASE k > 18
    <2>1. f = Bytes(v, 4)
        <3>1. PICK x \in Seq(Octet) : x = Bytes(v, 4) /\ Len(x) = 4
            <4>1. 4 \in {1, 2, 4} /\ 4 \in Nat
                OBVIOUS
            <4> QED BY <4>1, BytesShape
        <3>2. \A j \in 1..4 : WithComplement(v, 4)[j] = Bytes(v, 4)[j]
            <4>1. 4 \in {1, 2, 4} /\ 4 \in Nat
                OBVIOUS
            <4> QED BY <4>1, ComplementShape
        <3>3. \A j \in 1..4 : j \in 1..8 /\ 14 + j \in 1..(l - 1) /\ 14 + j < k
            BY <1>3, <1>4, <1>5, <1>17
        <3>4. \A j \in 1..4 : f[j] = x[j]
            BY <1>6, <1>14, <1>16, <3>1, <3>2, <3>3
        <3> QED BY <1>14, <3>1, <3>4, SeqEqual
    <2>2. Value(f) = v
        BY <1>0, <1>2, <1>12, <1>13, <2>1, OwnReceived
    <2>3. \A j \in 1..SectorBytes : Crc(Append(RemoveAt(op.data, j), Prefix)) # op.args[3]
        BY <1>0 DEF SectorApart
    <2>4. Crc(e) # v
        BY <1>3, <1>7, <1>10, <1>11, <1>13, <2>3
    <2> QED BY <1>9, <1>15, <2>2, <2>4
<1>18. CASE k <= 18
    <2>1. kk = 1
        BY <1>5, <1>10, <1>18
    <2>2. PICK m \in Nat : m = (IF k <= 15 THEN 1 ELSE k - 14) /\ m \in 1..4 /\ m \in 1..8
        <3>1. CASE k <= 15
            BY <3>1
        <3>2. CASE ~(k <= 15)
            BY <1>5, <1>18, <3>2
        <3> QED BY <3>1, <3>2
    <2>3. PICK r \in Seq(Octet) : /\ r = RemoveAt(crc, m) /\ Len(r) = 7
                                  /\ \A i \in 1..7 : i < m => r[i] = crc[i]
                                  /\ \A i \in 1..7 : ~(i < m) => r[i] = crc[i + 1]
        <3>1. 8 - 1 = 7 /\ 8 \in Nat
            OBVIOUS
        <3>2. /\ RemoveAt(crc, m) \in Seq(Octet) /\ Len(RemoveAt(crc, m)) = 8 - 1
              /\ \A i \in 1..(8 - 1) : i < m => RemoveAt(crc, m)[i] = crc[i]
              /\ \A i \in 1..(8 - 1) : ~(i < m) => RemoveAt(crc, m)[i] = crc[i + 1]
            BY <1>16, <2>2, <3>1, RemoveAtShape
        <3> QED BY <3>1, <3>2
    <2>4. PICK q \in Seq(Octet) : q = SubSeq(r, 1, 4) /\ Len(q) = 4
                                     /\ \A j \in 1..4 : q[j] = r[j]
        <3>1. 0 \in Nat /\ 4 \in Nat /\ 0 + 4 <= Len(r) /\ 0 + 1 = 1 /\ 0 + 4 = 4
            BY <2>3
        <3>2. /\ SubSeq(r, 0 + 1, 0 + 4) \in Seq(Octet) /\ Len(SubSeq(r, 0 + 1, 0 + 4)) = 4
              /\ \A j \in 1..4 : SubSeq(r, 0 + 1, 0 + 4)[j] = r[0 + j]
            BY <3>1, SubSeqAt
        <3>3. \A j \in 1..4 : 0 + j = j
            OBVIOUS
        <3> QED BY <3>1, <3>2, <3>3
    <2>5. \A j \in 1..4 : f[j] = q[j]
        <3> TAKE j \in 1..4
        <3>1. j \in 1..7 /\ j \in 1..8 /\ j + 1 \in 1..8 /\ 14 + j \in 1..(l - 1)
                 /\ 14 + (j + 1) = 14 + j + 1
            BY <1>3, <1>4
        <3>2. (j < m) <=> (14 + j < k)
            BY <1>5, <2>2
        <3>3. f[j] = bs[14 + j] /\ q[j] = r[j]
            BY <1>14, <2>4
        <3>4. p[14 + j] = crc[j] /\ p[14 + j + 1] = crc[j + 1]
            BY <1>16, <3>1
        <3>5. CASE j < m
            <4>1. r[j] = crc[j]
                BY <2>3, <3>1, <3>5
            <4>2. bs[14 + j] = p[14 + j]
                BY <1>6, <3>1, <3>2, <3>5
            <4> QED BY <3>3, <3>4, <4>1, <4>2
        <3>6. CASE ~(j < m)
            <4>1. r[j] = crc[j + 1]
                BY <2>3, <3>1, <3>6
            <4>2. bs[14 + j] = p[14 + j + 1]
                BY <1>6, <3>1, <3>2, <3>6
            <4> QED BY <3>3, <3>4, <4>1, <4>2
        <3> QED BY <3>5, <3>6
    <2>6. f = q
        BY <1>14, <2>4, <2>5, SeqEqual
    <2>7. \A j \in 1..4 : Crc(Append(RemoveAt(op.data, 1), Prefix))
                # Value(SubSeq(RemoveAt(WithComplement(op.args[3], 4), j), 1, 4))
        BY <1>0 DEF SectorApart
    <2>8. Crc(e) # Value(f)
        BY <1>7, <1>11, <1>13, <1>16, <2>1, <2>2, <2>3, <2>4, <2>6, <2>7
    <2> QED BY <1>9, <1>15, <2>8
<1> QED BY <1>5, <1>17, <1>18

\* A call that is unmistakable is refused when the prefix of the next one completes it.
LEMMA LateIsInvalid ==
    ASSUME NEW op \in Ops, Unmistakable(op), NEW k \in 5..Len(Pokes(op))
    PROVE  /\ ~IsValid(op.cmd, Append(Without(op, k, Len(Pokes(op))), Prefix))
           /\ op.args # <<>>
<1>1. PICK bs : bs = Append(Without(op, k, Len(Pokes(op))), Prefix)
    OBVIOUS
<1>2. CASE op.cmd = "WRITE_FLASH_SECTOR"
    <2>1. SectorApart(op)
        BY <1>2 DEF Unmistakable
    <2>2. Crc(SectorData(op.cmd, bs)) # Args(op.cmd, bs)[3]
        BY <1>1, <1>2, <2>1, LateSector
    <2>3. op.args # <<>>
        <3>1. Len(op.args) = Len(Widths(op.cmd)) /\ Widths(op.cmd) = <<1, 4, 4>>
            BY <1>2, OpShape, WidthsShape
        <3>2. Len(op.args) = 3
            BY <3>1
        <3> QED BY <3>2, EmptySeq
    <2> QED BY <1>1, <1>2, <2>2, <2>3 DEF IsValid
<1>3. CASE op.cmd # "WRITE_FLASH_SECTOR"
    <2>1. op.args # <<>>
        <3> SUFFICES ASSUME op.args = <<>> PROVE FALSE
            OBVIOUS
        <3>1. PICK c \in Cmds : c = op.cmd
            BY OpShape
        <3>2. Len(Widths(c)) = 0
            <4>1. Len(op.args) = Len(Widths(c)) /\ Len(<<>>) = 0
                BY <3>1, OpShape
            <4> QED BY <4>1
        <3>3. At(c, 1) = 4 /\ At(c, 1) = At(c, 5)
            <4>1. 1 \in 1..5 /\ 1 > Len(Widths(c))
                BY <3>2
            <4> QED BY <4>1, AtStep
        <3>4. Len(Pokes(op)) = 4 + ArgBytes(c)
            BY <3>1, PokesShape
        <3>5. 4 + ArgBytes(c) = At(c, 5) + 0
            BY <1>3, <3>1, AtStep
        <3>6. Len(Pokes(op)) = 4
            BY <3>3, <3>4, <3>5
        <3> QED BY <3>6
    <2>2. ArgumentsApart(op)
        BY <1>3, <2>1 DEF Unmistakable
    <2>3. ~ComplementsMatch(op.cmd, bs)
        BY <1>1, <1>3, <2>1, <2>2, LateArguments
    <2> QED BY <1>1, <2>1, <2>3 DEF IsValid
<1> QED BY <1>2, <1>3

\* A parser that waits for the last byte of an attempt that is over, and now sees the
\* prefix of the next: nothing comes of it but a refusal.
LEMMA ReceiveAwaited ==
    ASSUME NEW op \in Ops, Unmistakable(op), Misses(op, Len(Pokes(op))), Receive(Prefix),
           busy = NoReq, answer = <<>>, hook_off \in BOOLEAN, reboot \in BOOLEAN
    PROVE  /\ rx' = <<>> /\ UNCHANGED <<settings, hook_off, lock, reboot>>
           /\ \/ UNCHANGED <<busy, answer>>
              \/ busy' = busy /\ answer' = <<ERR>>
              \/ answer' = answer /\ \E c \in FlashCmds : busy' = [NoReq EXCEPT !.cmd = c]
<1>1. PICK p \in Seq(Octet) : p = Pokes(op)
    BY PokesShape
<1>2. PICK c \in Cmds : c = op.cmd
    BY OpShape
<1>3. PICK l \in Nat : l = Len(p) /\ l = 4 + ArgBytes(c) /\ l >= 4
    <2>1. Len(p) = 4 + ArgBytes(c) /\ ArgBytes(c) \in Nat
        BY <1>1, <1>2, PokesShape, AtStep
    <2> QED BY <2>1
<1>4. PICK k \in 1..l : (k <= 4 => l = k) /\ rx = Without(op, k, l)
    BY <1>1, <1>3 DEF Misses
<1>5. PICK bs \in Seq(Octet) :
         /\ bs = Append(rx, Prefix) /\ Len(bs) = l
         /\ \A i \in 1..(l - 1) : i < k => bs[i] = p[i]
         /\ \A i \in 1..(l - 1) : ~(i < k) => bs[i] = p[i + 1]
         /\ bs[l] = Prefix
    <2>1. k \in 1..Len(Pokes(op))
        BY <1>1, <1>3
    <2> QED BY <1>1, <1>3, <1>4, <2>1, LateBytes
<1>6. \A i \in 1..4 : p[i] = Code[c][i]
    BY <1>1, <1>2, PokesShape
<1>7. CASE k <= 4
    <2>1. l = 4
        BY <1>3, <1>4, <1>7
    <2>2. Len(bs) >= 4 /\ bs[4] = Prefix
        BY <1>5, <2>1
    <2>3. Matching(bs) = {}
        BY <2>2, Stray
    <2>4. /\ rx' = <<>>
          /\ UNCHANGED <<busy, answer, settings, hook_off, lock, reboot>>
        BY <1>5, <2>3, Drops
    <2> QED BY <2>4
<1>8. CASE k > 4
    <2>1. \A i \in 1..4 : bs[i] = Code[c][i]
        <3>1. \A i \in 1..4 : i \in 1..(l - 1) /\ i < k
            BY <1>4, <1>8
        <3> QED BY <1>5, <1>6, <3>1
    <2>2. Matching(bs) = {c}
        <3>1. Len(bs) >= 4
            BY <1>3, <1>5
        <3> QED BY <2>1, <3>1, MatchFour
    <2>3. Execute(c, bs)
        BY <1>3, <1>5, <2>2, Completes
    <2>4. ~IsValid(c, bs) /\ op.args # <<>>
        <3>1. k \in 5..Len(Pokes(op))
            BY <1>1, <1>3, <1>8
        <3>2. bs = Append(Without(op, k, Len(Pokes(op))), Prefix)
            BY <1>1, <1>3, <1>4, <1>5
        <3> QED BY <1>2, <3>1, <3>2, LateIsInvalid
    <2>5. c \notin {"DISABLE_NEXT_OSDSYS_HOOK", "TEST_BUSY"}
        <3> SUFFICES ASSUME c \in {"DISABLE_NEXT_OSDSYS_HOOK", "TEST_BUSY"} PROVE FALSE
            OBVIOUS
        <3>1. Widths(c) = <<>>
            BY DEF Widths
        <3>2. Len(op.args) = 0 /\ op.args \in Seq(0..MaxValue)
            <4>1. Len(op.args) = Len(Widths(c)) /\ op.args \in Seq(0..MaxValue) /\ Len(<<>>) = 0
                BY <1>2, OpShape
            <4> QED BY <3>1, <4>1
        <3>3. op.args = <<>>
            BY <3>2, EmptySeq
        <3> QED BY <2>4, <3>3
    <2>6. /\ rx' = <<>> /\ settings' = settings
          /\ hook_off' = HookAfter(c)
          /\ lock' = LockAfter(c, Args(c, bs), IsValid(c, bs))
          /\ reboot' = RebootAfter(c, IsValid(c, bs))
          /\ IF Slow(c, bs)
             THEN busy' = [NoReq EXCEPT !.cmd = c] /\ answer' = answer
             ELSE busy' = busy /\ answer' = <<ERR>>
        BY <2>3, <2>4 DEF Execute
    <2>7. hook_off' = hook_off
        <3>1. HookAfter(c) = hook_off
            BY <2>5 DEF HookAfter
        <3> QED BY <2>6, <3>1
    <2>8. lock' = lock /\ reboot' = reboot
        <3>1. lock' = lock
            BY <2>4, <2>6 DEF LockAfter
        <3>2. RebootAfter(c, IsValid(c, bs)) = reboot
            BY <2>4 DEF RebootAfter
        <3> QED BY <2>6, <3>1, <3>2
    <2>9. Slow(c, bs) => c \in FlashCmds
        BY <2>4, <2>5 DEF Slow, FlashCmds
    <2> QED BY <2>6, <2>7, <2>8, <2>9
<1> QED BY <1>4, <1>7, <1>8

-----------------------------------------------------------------------------
\* What the firmware does once it has all bytes of a call.

\* Two checks accept whatever arrives.
LEMMA AlwaysInRange ==
    ASSUME NEW c \in {"TEST_BUSY", "WRITE_LOCK"}, NEW a
    PROVE  InRange(c, a)
BY DEF InRange

\* It executes the call, with its arguments and its sector, or refuses it because
\* they are out of range.
LEMMA ExecuteAsked ==
    ASSUME NEW op \in Ops, Execute(op.cmd, Pokes(op)), busy = NoReq, answer = <<>>
    PROVE  /\ rx' = <<>> /\ settings' = settings
           /\ hook_off' = (hook_off \/ op.cmd = "DISABLE_NEXT_OSDSYS_HOOK")
           /\ lock' = IF op.cmd = "WRITE_LOCK" THEN op.args[1] # 0 ELSE lock
           /\ reboot' = (reboot \/ (op.cmd = "REBOOT" /\ InRange(op.cmd, op.args)))
           /\ \/ /\ InRange(op.cmd, op.args) /\ op.cmd \in SlowCmds /\ answer' = <<>>
                 /\ busy' = [cmd |-> op.cmd, args |-> op.args, data |-> op.data, valid |-> TRUE]
              \/ /\ InRange(op.cmd, op.args) /\ op.cmd \notin SlowCmds /\ busy' = NoReq
                 /\ answer' = Reply(op.cmd, op.args)
              \/ /\ ~InRange(op.cmd, op.args) /\ op.cmd \in FlashCmds /\ answer' = <<>>
                 /\ busy' = [NoReq EXCEPT !.cmd = op.cmd]
              \/ ~InRange(op.cmd, op.args) /\ busy' = NoReq /\ answer' = <<ERR>>
<1>1. PICK c \in Cmds, a \in {op.args}, d \in {op.data}, p \in {Pokes(op)} :
         c = op.cmd /\ a = op.args /\ d = op.data /\ p = Pokes(op)
    BY OpShape
<1>2. Args(c, p) = a /\ SectorData(c, p) = d /\ (IsValid(c, p) <=> InRange(c, a))
    BY <1>1, OwnArgs, OwnSector, OwnValid
<1>3. /\ rx' = <<>> /\ settings' = settings
      /\ hook_off' = HookAfter(c)
      /\ lock' = LockAfter(c, a, IsValid(c, p))
      /\ reboot' = RebootAfter(c, IsValid(c, p))
      /\ Slow(c, p) =>
            /\ busy' = IF IsValid(c, p) THEN [cmd |-> c, args |-> a, data |-> d, valid |-> TRUE]
                                        ELSE [NoReq EXCEPT !.cmd = c]
            /\ answer' = answer
      /\ ~Slow(c, p) =>
            busy' = busy /\ answer' = IF IsValid(c, p) THEN Reply(c, a) ELSE <<ERR>>
    BY <1>1, <1>2 DEF Execute
<1>4. hook_off' = (hook_off \/ c = "DISABLE_NEXT_OSDSYS_HOOK")
    BY <1>3 DEF HookAfter
<1>5. lock' = IF c = "WRITE_LOCK" THEN a[1] # 0 ELSE lock
    <2>1. CASE c = "WRITE_LOCK"
        <3>1. IsValid(c, p)
            BY <1>2, <2>1, AlwaysInRange
        <3> QED BY <1>3, <2>1, <3>1 DEF LockAfter
    <2>2. CASE c # "WRITE_LOCK"
        BY <1>3, <2>2 DEF LockAfter
    <2> QED BY <2>1, <2>2
<1>6. reboot' = (reboot \/ (c = "REBOOT" /\ InRange(c, a)))
    <2>1. RebootAfter(c, IsValid(c, p)) = (reboot \/ (c = "REBOOT" /\ IsValid(c, p)))
        BY DEF RebootAfter
    <2> QED BY <1>2, <1>3, <2>1
<1>7. CASE InRange(c, a)
    <2>1. IsValid(c, p)
        BY <1>2, <1>7
    <2>2. Slow(c, p) <=> c \in SlowCmds
        BY <2>1 DEF Slow, SlowCmds
    <2>3. \/ c \in SlowCmds /\ answer' = <<>>
             /\ busy' = [cmd |-> c, args |-> a, data |-> d, valid |-> TRUE]
          \/ c \notin SlowCmds /\ busy' = NoReq /\ answer' = Reply(c, a)
        BY <1>3, <2>1, <2>2
    <2> QED BY <1>1, <1>3, <1>4, <1>5, <1>6, <1>7, <2>3
<1>8. CASE ~InRange(c, a)
    <2>1. ~IsValid(c, p)
        BY <1>2, <1>8
    <2>2. c # "TEST_BUSY"
        BY <1>8, AlwaysInRange
    <2>3. Slow(c, p) <=> c \in FlashCmds
        BY <2>1, <2>2 DEF Slow, FlashCmds
    <2>4. \/ c \in FlashCmds /\ answer' = <<>> /\ busy' = [NoReq EXCEPT !.cmd = c]
          \/ busy' = NoReq /\ answer' = <<ERR>>
        BY <1>3, <2>1, <2>3
    <2> QED BY <1>1, <1>3, <1>4, <1>5, <1>6, <1>8, <2>4
<1> QED BY <1>7, <1>8

-----------------------------------------------------------------------------
\* The words of an answer, one by one.
LEMMA FirstWord ==
    ASSUME NEW S, NEW s \in Seq(S), NEW x \in S
    PROVE  <<x>> \o s # <<>> /\ Head(<<x>> \o s) = x /\ Tail(<<x>> \o s) = s
<1>1. <<x>> \in Seq(S) /\ Len(<<x>>) = 1 /\ <<x>>[1] = x
    OBVIOUS
<1>2. PICK t : t = <<x>> \o s
    OBVIOUS
<1>3. PICK l \in Nat : l = Len(s)
    OBVIOUS
<1>4. t \in Seq(S) /\ Len(t) = 1 + l /\ t[1] = x /\ \A i \in 1..l : t[1 + i] = s[i]
    <2>1. 1 \in 1..Len(<<x>>)
        BY <1>1
    <2> QED BY <1>1, <1>2, <1>3, <2>1, Concat2
<1>5. t # <<>>
    <2>1. Len(t) # 0
        BY <1>3, <1>4
    <2> QED BY <2>1, EmptySeq
<1>6. Head(t) = x /\ Tail(t) \in Seq(S) /\ Len(Tail(t)) = l
      /\ \A i \in 1..l : Tail(t)[i] = t[i + 1]
    <2>1. /\ Head(t) = t[1] /\ Tail(t) \in Seq(S) /\ Len(Tail(t)) = Len(t) - 1
          /\ \A i \in 1..Len(Tail(t)) : Tail(t)[i] = t[i + 1]
        BY <1>4, <1>5, HeadTailProperties
    <2>2. (1 + l) - 1 = l
        BY <1>3
    <2> QED BY <1>4, <2>1, <2>2
<1>7. Tail(t) = s
    <2>1. \A i \in 1..l : Tail(t)[i] = s[i]
        <3>1. \A i \in 1..l : i + 1 = 1 + i
            BY <1>3
        <3> QED BY <1>4, <1>6, <3>1
    <2> QED BY <1>3, <1>6, <2>1, SameSeq
<1> QED BY <1>2, <1>5, <1>6, <1>7

\* The words left of an answer, and what is left when one is read.
LEMMA NextWord ==
    ASSUME NEW S, NEW s \in Seq(S), NEW n \in Nat, n < Len(s)
    PROVE  /\ SubSeq(s, n + 1, Len(s)) # <<>>
           /\ Head(SubSeq(s, n + 1, Len(s))) = s[n + 1]
           /\ Tail(SubSeq(s, n + 1, Len(s))) = SubSeq(s, n + 2, Len(s))
           /\ n + 1 = Len(s) => SubSeq(s, n + 2, Len(s)) = <<>>
<1>1. PICK l \in Nat : l = Len(s)
    OBVIOUS
<1>2. PICK m \in Nat : m + n = l /\ m > 0
    <2>1. l - n \in Nat /\ (l - n) + n = l /\ l - n > 0
        BY <1>1
    <2> QED BY <2>1
<1>3. PICK k \in Nat : k + 1 = m
    <2>1. m - 1 \in Nat /\ (m - 1) + 1 = m
        BY <1>2
    <2> QED BY <2>1
<1>4. PICK t, u : t = SubSeq(s, n + 1, n + m) /\ u = SubSeq(s, (n + 1) + 1, (n + 1) + k)
    OBVIOUS
<1>5. t \in Seq(S) /\ Len(t) = m /\ \A j \in 1..m : t[j] = s[n + j]
    <2>1. n + m <= Len(s)
        BY <1>1, <1>2
    <2> QED BY <1>4, <2>1, SubSeqAt
<1>6. u \in Seq(S) /\ Len(u) = k /\ \A j \in 1..k : u[j] = s[(n + 1) + j]
    <2>1. n + 1 \in Nat /\ (n + 1) + k <= Len(s)
        BY <1>1, <1>2, <1>3
    <2> QED BY <1>4, <2>1, SubSeqAt
<1>7. t # <<>>
    <2>1. Len(t) # 0
        BY <1>2, <1>5
    <2> QED BY <2>1, EmptySeq
<1>8. Head(t) = t[1] /\ Tail(t) \in Seq(S) /\ Len(Tail(t)) = k
      /\ \A i \in 1..k : Tail(t)[i] = t[i + 1]
    <2>1. /\ Head(t) = t[1] /\ Tail(t) \in Seq(S) /\ Len(Tail(t)) = Len(t) - 1
          /\ \A i \in 1..Len(Tail(t)) : Tail(t)[i] = t[i + 1]
        BY <1>5, <1>7, HeadTailProperties
    <2>2. m - 1 = k
        BY <1>2, <1>3
    <2> QED BY <1>5, <2>1, <2>2
<1>9. Tail(t) = u
    <2>1. \A i \in 1..k : Tail(t)[i] = u[i]
        <3> TAKE i \in 1..k
        <3>1. i + 1 \in 1..m /\ n + (i + 1) = (n + 1) + i
            BY <1>2, <1>3
        <3> QED BY <1>5, <1>6, <1>8, <3>1
    <2> QED BY <1>3, <1>6, <1>8, <2>1, SameSeq
<1>10. Head(t) = s[n + 1]
    <2>1. 1 \in 1..m
        BY <1>2
    <2> QED BY <1>5, <1>8, <2>1
<1>11. n + m = Len(s) /\ (n + 1) + 1 = n + 2 /\ (n + 1) + k = Len(s)
    BY <1>1, <1>2, <1>3
<1>12. n + 1 = Len(s) => u = <<>>
    <2>1. n + 1 = Len(s) => Len(u) = 0
        BY <1>1, <1>2, <1>3, <1>6
    <2> QED BY <1>6, <2>1, EmptySeq
<1> QED BY <1>4, <1>7, <1>9, <1>10, <1>11, <1>12

\* The words read of an answer, and the next one.
LEMMA NextFirst ==
    ASSUME NEW S, NEW s \in Seq(S), NEW n \in Nat, n < Len(s)
    PROVE  /\ Append(SubSeq(s, 1, n), s[n + 1]) = SubSeq(s, 1, n + 1)
           /\ Len(SubSeq(s, 1, n)) = n
           /\ n + 1 = Len(s) => SubSeq(s, 1, n + 1) = s
<1>1. PICK l \in Nat : l = Len(s)
    OBVIOUS
<1>2. PICK t, u : t = SubSeq(s, 0 + 1, 0 + n) /\ u = SubSeq(s, 0 + 1, 0 + (n + 1))
    OBVIOUS
<1>3. t \in Seq(S) /\ Len(t) = n /\ \A j \in 1..n : t[j] = s[0 + j]
    <2>1. 0 \in Nat /\ 0 + n <= Len(s)
        BY <1>1
    <2> QED BY <1>2, <2>1, SubSeqAt
<1>4. u \in Seq(S) /\ Len(u) = n + 1 /\ \A j \in 1..(n + 1) : u[j] = s[0 + j]
    <2>1. 0 \in Nat /\ n + 1 \in Nat /\ 0 + (n + 1) <= Len(s)
        BY <1>1
    <2> QED BY <1>2, <2>1, SubSeqAt
<1>5. s[n + 1] \in S
    <2>1. n + 1 \in 1..Len(s)
        BY <1>1
    <2> QED BY <2>1, ElementOfSeq
<1>6. PICK a : a = Append(t, s[n + 1])
    OBVIOUS
<1>7. a \in Seq(S) /\ Len(a) = n + 1 /\ a[n + 1] = s[n + 1] /\ \A j \in 1..n : a[j] = t[j]
    BY <1>3, <1>5, <1>6, AppendProperties
<1>8. a = u
    <2>1. \A j \in 1..(n + 1) : a[j] = u[j]
        <3> TAKE j \in 1..(n + 1)
        <3>1. 0 + j = j /\ (j \in 1..n \/ j = n + 1)
            OBVIOUS
        <3> QED BY <1>3, <1>4, <1>7, <3>1
    <2> QED BY <1>4, <1>7, <2>1, SameSeq
<1>9. n + 1 = Len(s) => u = s
    <2> SUFFICES ASSUME n + 1 = Len(s) PROVE u = s
        OBVIOUS
    <2>1. \A j \in 1..(n + 1) : u[j] = s[j]
        <3> TAKE j \in 1..(n + 1)
        <3>1. 0 + j = j
            OBVIOUS
        <3> QED BY <1>4, <3>1
    <2> QED BY <1>4, <2>1, SameSeq
<1>10. 0 + 1 = 1 /\ 0 + n = n /\ 0 + (n + 1) = n + 1
    OBVIOUS
<1> QED BY <1>2, <1>3, <1>6, <1>8, <1>9, <1>10

\* The status word behind some BUSYs.
LEMMA BusyWords ==
    ASSUME NEW m \in Nat, NEW x
    PROVE  /\ Busys(m) \o <<x>> # <<>>
           /\ m = 0 => Busys(m) \o <<x>> = <<x>>
           /\ m > 0 => /\ Head(Busys(m) \o <<x>>) = BUSY
                       /\ Tail(Busys(m) \o <<x>>) = Busys(m - 1) \o <<x>>
<1>1. PICK S : S = {BUSY, x}
    OBVIOUS
<1>2. <<x>> \in Seq(S) /\ Len(<<x>>) = 1 /\ <<x>>[1] = x
    BY <1>1
<1>3. ASSUME NEW n \in Nat
      PROVE  /\ Busys(n) \o <<x>> \in Seq(S) /\ Len(Busys(n) \o <<x>>) = n + 1
             /\ \A i \in 1..n : (Busys(n) \o <<x>>)[i] = BUSY
             /\ (Busys(n) \o <<x>>)[n + 1] = x
    <2>1. Busys(n) \in Seq(S) /\ Len(Busys(n)) = n /\ \A i \in 1..n : Busys(n)[i] = BUSY
        BY <1>1 DEF Busys
    <2>2. 1 \in 1..Len(<<x>>)
        BY <1>2
    <2> QED BY <1>2, <2>1, <2>2, Concat2
<1>4. PICK t : t = Busys(m) \o <<x>>
    OBVIOUS
<1>5. t \in Seq(S) /\ Len(t) = m + 1 /\ (\A i \in 1..m : t[i] = BUSY) /\ t[m + 1] = x
    BY <1>3, <1>4
<1>6. t # <<>>
    <2>1. Len(t) # 0
        BY <1>5
    <2> QED BY <2>1, EmptySeq
<1>7. m = 0 => t = <<x>>
    <2> SUFFICES ASSUME m = 0 PROVE t = <<x>>
        OBVIOUS
    <2>1. Len(t) = 1 /\ t[1] = x
        BY <1>5
    <2>2. Len(t) = Len(<<x>>) /\ \A i \in 1..Len(t) : t[i] = <<x>>[i]
        <3>1. \A i \in 1..1 : i = 1
            OBVIOUS
        <3> QED BY <1>2, <2>1, <3>1
    <2> QED BY <1>2, <1>5, <2>2, SameSeq
<1>8. ASSUME m > 0 PROVE Head(t) = BUSY /\ Tail(t) = Busys(m - 1) \o <<x>>
    <2>1. PICK n \in Nat : n + 1 = m /\ n = m - 1
        <3>1. m - 1 \in Nat /\ (m - 1) + 1 = m
            BY <1>8
        <3> QED BY <3>1
    <2>2. PICK u : u = Busys(n) \o <<x>>
        OBVIOUS
    <2>3. u \in Seq(S) /\ Len(u) = m /\ (\A i \in 1..n : u[i] = BUSY) /\ u[m] = x
        BY <1>3, <2>1, <2>2
    <2>4. /\ Head(t) = t[1] /\ Tail(t) \in Seq(S) /\ Len(Tail(t)) = Len(t) - 1
          /\ \A i \in 1..Len(Tail(t)) : Tail(t)[i] = t[i + 1]
        BY <1>5, <1>6, HeadTailProperties
    <2>5. Len(Tail(t)) = m
        <3>1. (m + 1) - 1 = m
            OBVIOUS
        <3> QED BY <1>5, <2>4, <3>1
    <2>6. \A i \in 1..m : Tail(t)[i] = u[i]
        <3> TAKE i \in 1..m
        <3>1. (i \in 1..n /\ i + 1 \in 1..m) \/ i = m
            BY <2>1
        <3> QED BY <1>5, <2>3, <2>4, <2>5, <3>1
    <2>7. Tail(t) = u
        BY <2>3, <2>4, <2>5, <2>6, SameSeq
    <2>8. Head(t) = BUSY
        <3>1. 1 \in 1..m
            BY <1>8
        <3> QED BY <1>5, <2>4, <3>1
    <2> QED BY <2>1, <2>2, <2>7, <2>8
<1> QED BY <1>4, <1>6, <1>7, <1>8

\* The number of words in an answer is one.
LEMMA DataWordsNat ==
    ASSUME NEW op \in Ops
    PROVE  DataWords(op.cmd, op.args) \in Nat
<1>1. PICK c \in Cmds, a \in {op.args} : c = op.cmd /\ a = op.args
    BY OpShape
<1>2. \A n \in Nat : PeekCount(n) \in Nat
    BY DEF PeekCount
<1>3. Stage2Words \in Nat
    BY OpsAssumption
<1>4. c = "READ_APP" => a[3] \in Nat
    <2> SUFFICES ASSUME c = "READ_APP" PROVE a[3] \in Nat
        OBVIOUS
    <2>1. Len(a) = Len(Widths(c)) /\ Widths(c) = <<1, 4, 4, 1>>
        BY <1>1, OpShape DEF Widths
    <2>2. 3 \in 1..Len(a)
        BY <2>1
    <2> QED BY <1>1, <2>2, OpShape
<1>5. c = "READ_EE_STAGE3" => a[2] \in Nat
    <2> SUFFICES ASSUME c = "READ_EE_STAGE3" PROVE a[2] \in Nat
        OBVIOUS
    <2>1. Len(a) = Len(Widths(c)) /\ Widths(c) = <<4, 4, 1>>
        BY <1>1, OpShape DEF Widths
    <2>2. 2 \in 1..Len(a)
        BY <2>1
    <2> QED BY <1>1, <2>2, OpShape
<1>6. DataWords(c, a) \in Nat
    BY <1>2, <1>3, <1>4, <1>5 DEF DataWords
<1> QED BY <1>1, <1>6

\* What follows the status word: the data, and its CRC if there is one.
LEMMA WordsShape ==
    ASSUME call.op \in Ops
    PROVE  \E S :
              /\ OK \in S /\ Data \in Seq(S) /\ Words \in Seq(S)
              /\ Len(Data) = DataWords(call.op.cmd, call.op.args)
              /\ Len(Words) = Len(Data) + (IF HasCrc(call.op.cmd, call.op.args) THEN 1 ELSE 0)
              /\ \A i \in 1..Len(Data) : Words[i] = Data[i]
              /\ HasCrc(call.op.cmd, call.op.args) =>
                    Words[Len(Data) + 1] = <<"crc", Data>>
              /\ ~HasCrc(call.op.cmd, call.op.args) => Words = Data
<1>1. PICK c, a, k : c = call.op.cmd /\ a = call.op.args /\ k = DataWords(c, a)
    OBVIOUS
<1>2. PICK n \in Nat : n = k
    BY <1>1, DataWordsNat
<1>3. PICK d : d = Payload(c, a)
    OBVIOUS
<1>4. \E e : d = [i \in 1..n |-> e[i]]
    <2>1. CASE c = "KV_GET"
        <3>1. n = 1
            BY <1>1, <1>2, <2>1 DEF DataWords
        <3>2. d = <<<<"kv", settings[a[1]]>>>>
            BY <1>3, <2>1 DEF Payload
        <3>3. d = [i \in 1..n |-> d[i]]
            BY <3>1, <3>2
        <3> QED BY <3>3
    <2>2. CASE c # "KV_GET"
        <3>1. d = [i \in 1..n |-> <<"data", c, a, i>>]
            BY <1>1, <1>2, <1>3, <2>2 DEF Payload
        <3>2. d = [i \in 1..n |-> d[i]]
            BY <3>1
        <3> QED BY <3>2
    <2> QED BY <2>1, <2>2
<1>5. PICK x : x = <<"crc", d>>
    OBVIOUS
<1>6. PICK S : S = {d[i] : i \in 1..n} \cup {x, OK}
    OBVIOUS
<1>7. d \in Seq(S) /\ Len(d) = n
    BY <1>4, <1>6
<1>8. PICK w : w = d \o (IF HasCrc(c, a) THEN <<x>> ELSE <<>>)
    OBVIOUS
<1>9. d = Data /\ w = Words
    BY <1>1, <1>3, <1>5, <1>8 DEF Data, Words
<1>10. CASE HasCrc(c, a)
    <2>1. <<x>> \in Seq(S) /\ Len(<<x>>) = 1 /\ <<x>>[1] = x /\ 1 \in 1..Len(<<x>>)
        BY <1>6
    <2>2. w \in Seq(S) /\ Len(w) = n + 1 /\ (\A i \in 1..n : w[i] = d[i]) /\ w[n + 1] = x
        BY <1>7, <1>8, <1>10, <2>1, Concat2
    <2>3. OK \in S
        BY <1>6
    <2> QED BY <1>1, <1>2, <1>5, <1>7, <1>9, <1>10, <2>2, <2>3
<1>11. CASE ~HasCrc(c, a)
    <2>1. w = d
        BY <1>7, <1>8, <1>11, ConcatEmptySeq
    <2>2. OK \in S
        BY <1>6
    <2> QED BY <1>1, <1>2, <1>7, <1>9, <1>11, <2>1, <2>2
<1> QED BY <1>10, <1>11

\* The answer to a call is its status word and those words.
LEMMA ReplyIs ==
    ASSUME call.op \in Ops
    PROVE  Reply(call.op.cmd, call.op.args) = <<OK>> \o Words
<1>1. PICK c, a : c = call.op.cmd /\ a = call.op.args
    OBVIOUS
<1>2. PICK d, t, w : /\ d = Data /\ w = Words
                     /\ t = IF HasCrc(c, a) THEN <<<<"crc", d>>>> ELSE <<>>
    OBVIOUS
<1>3. w = d \o t /\ Reply(c, a) = (<<OK>> \o d) \o t
    BY <1>1, <1>2 DEF Words, Data, Reply
<1>4. PICK S : /\ OK \in S /\ d \in Seq(S) /\ w \in Seq(S)
               /\ Len(w) = Len(d) + (IF HasCrc(c, a) THEN 1 ELSE 0)
               /\ HasCrc(c, a) => w[Len(d) + 1] = <<"crc", d>>
    BY <1>1, <1>2, WordsShape
<1>5. t \in Seq(S)
    <2>1. CASE HasCrc(c, a)
        <3>1. Len(d) + 1 \in 1..Len(w)
            BY <1>4, <2>1
        <3>2. w[Len(d) + 1] \in S
            BY <1>4, <3>1, ElementOfSeq
        <3>3. <<"crc", d>> \in S
            BY <1>4, <2>1, <3>2
        <3> QED BY <1>2, <2>1, <3>3
    <2>2. CASE ~HasCrc(c, a)
        BY <1>2, <2>2
    <2> QED BY <2>1, <2>2
<1>6. <<OK>> \in Seq(S)
    BY <1>4
<1>7. (<<OK>> \o d) \o t = <<OK>> \o (d \o t)
    BY <1>4, <1>5, <1>6, ConcatAssociative
<1> QED BY <1>1, <1>2, <1>3, <1>7

-----------------------------------------------------------------------------
\* A byte of a call is seen by a parser in one of the states it can be in.  The call
\* goes on, an earlier one is refused, or all of this one has arrived.
Onward(op, n) ==
    /\ UNCHANGED <<busy, answer, settings, hook_off, lock, reboot>>
    /\ IF n + 1 < Len(Pokes(op))
       THEN \/ rx' = SubSeq(Pokes(op), 1, n + 1)
            \/ /\ owed > 0
               /\ (owed = LossCost /\ Misses(op, n + 1)') \/ Dropped(op, n + 1)'
       ELSE /\ owed > 0
            /\ rx' = <<>> \/ (owed = LossCost /\ Misses(op, n + 1)')

Refuses ==
    /\ rx' = <<>> /\ owed > 0
    /\ UNCHANGED <<settings, hook_off, lock, reboot>>
    /\ \/ busy' = busy /\ answer' = <<ERR>>
       \/ answer' = answer /\ \E c \in FlashCmds : busy' = [NoReq EXCEPT !.cmd = c]

\* What the parser does with a byte of the call, from every state it can be in.
LEMMA PokeSeen ==
    ASSUME NEW op \in Ops, NEW n \in Nat, n < Len(Pokes(op)), AllUnmistakable,
           busy = NoReq, answer = <<>>, hook_off \in BOOLEAN, reboot \in BOOLEAN,
           \/ rx = SubSeq(Pokes(op), 1, n)
           \/ /\ owed > 0
              /\ IF n = 0 THEN Awaits
                 ELSE (owed = LossCost /\ Misses(op, n)) \/ Dropped(op, n),
           Receive(Pokes(op)[n + 1])
    PROVE  \/ Onward(op, n)
           \/ n + 1 < Len(Pokes(op)) /\ Refuses
           \/ n + 1 = Len(Pokes(op)) /\ Execute(op.cmd, Pokes(op))
<1>1. PICK l \in Nat : l = Len(Pokes(op)) /\ l >= 4
    <2>1. Len(Pokes(op)) = 4 + ArgBytes(op.cmd) /\ ArgBytes(op.cmd) \in Nat
        BY OpShape, PokesShape, AtStep
    <2> QED BY <2>1
<1>2. n + 1 < l \/ n + 1 = l
    BY <1>1
<1>3. CASE rx = SubSeq(Pokes(op), 1, n)
    <2>1. IF n + 1 < l
          THEN /\ rx' = SubSeq(Pokes(op), 1, n + 1)
               /\ UNCHANGED <<busy, answer, settings, hook_off, lock, reboot>>
          ELSE Execute(op.cmd, Pokes(op))
        BY <1>1, <1>3, ReceiveNext
    <2>2. n + 1 = l => ~(n + 1 < l)
        BY <1>1
    <2> QED BY <1>1, <1>2, <2>1, <2>2 DEF Onward
<1>4. CASE n = 0 /\ owed > 0 /\ Awaits
    <2>1. PICK late \in Ops : Misses(late, Len(Pokes(late)))
        BY <1>4 DEF Awaits
    <2>2. Pokes(op)[n + 1] = Prefix
        <3>1. n + 1 = 1 /\ 1 \in 1..4
            BY <1>4
        <3>2. Pokes(op)[1] = Code[op.cmd][1]
            BY <3>1, PokesShape
        <3>3. Code[op.cmd][1] = Prefix
            BY OpShape, CodeShape
        <3> QED BY <3>1, <3>2, <3>3
    <2>3. Unmistakable(late) /\ Receive(Prefix)
        BY <2>2 DEF AllUnmistakable
    <2>4. /\ rx' = <<>> /\ UNCHANGED <<settings, hook_off, lock, reboot>>
          /\ \/ UNCHANGED <<busy, answer>>
             \/ busy' = busy /\ answer' = <<ERR>>
             \/ answer' = answer /\ \E c \in FlashCmds : busy' = [NoReq EXCEPT !.cmd = c]
        BY <2>1, <2>3, ReceiveAwaited
    <2>5. n + 1 < l
        BY <1>1, <1>4
    <2>6. CASE UNCHANGED <<busy, answer>>
        <3>1. Dropped(op, n + 1)'
            BY <2>4 DEF Dropped
        <3> QED BY <1>1, <1>4, <2>4, <2>5, <2>6, <3>1 DEF Onward
    <2>7. CASE ~UNCHANGED <<busy, answer>>
        BY <1>1, <1>4, <2>4, <2>5, <2>7 DEF Refuses
    <2> QED BY <2>6, <2>7
<1>5. CASE n # 0 /\ owed = LossCost /\ Misses(op, n)
    <2>1. 0 < n
        BY <1>5
    <2>2. /\ UNCHANGED <<busy, answer, settings, hook_off, lock, reboot>>
          /\ rx' = <<>> \/ Misses(op, n + 1)'
        BY <1>5, <2>1, ReceiveAfterLoss
    <2>3. owed > 0
        BY <1>5 DEF LossCost
    <2>4. rx' = <<>> => Dropped(op, n + 1)'
        BY DEF Dropped
    <2> QED BY <1>1, <1>2, <1>5, <2>2, <2>3, <2>4 DEF Onward
<1>6. CASE n # 0 /\ owed > 0 /\ Dropped(op, n)
    <2>1. 0 < n /\ NoCommandInside(Pokes(op))
        BY <1>6 DEF AllUnmistakable, Unmistakable
    <2>2. /\ UNCHANGED <<busy, answer, settings, hook_off, lock, reboot>>
          /\ IF n + 1 < Len(Pokes(op)) THEN Dropped(op, n + 1)' ELSE rx' = <<>>
        BY <1>6, <2>1, ReceiveDropped
    <2> QED BY <1>1, <1>2, <1>6, <2>2 DEF Onward
<1> QED BY <1>3, <1>4, <1>5, <1>6

-----------------------------------------------------------------------------
SettingsOK ==
    /\ settings \in [Keys -> Nat]
    /\ \A k \in Keys : settings[k] \in 0..Largest(k)

\* What the invariant says of the types, put together and taken apart.
LEMMA CallAfter ==
    ASSUME NEW op \in Ops, NEW pc \in {"idle", "poke", "status", "data", "crc"},
           NEW n \in 0..Len(Pokes(op)), NEW t \in 0..(op.tries - 1), NEW g, NEW r,
           call' = [pc |-> pc, op |-> op, n |-> n, try |-> t, got |-> g, res |-> r],
           pc = "poke" => n < Len(Pokes(op)),
           pc \in {"poke", "status"} => g = <<>>,
           r = "ok" => pc = "idle",
           SettingsOK', owed' \in 0..LossCost, rx' \in Seq(Octet),
           {hook_off, lock, reboot}' \subseteq BOOLEAN, ~Sniffing' => rx' = <<>>
    PROVE  TypeOK' /\ CallInv'
BY DEF TypeOK, CallInv, SettingsOK

\* What the inductive invariant says of the types.
LEMMA CallBefore ==
    ASSUME IInv
    PROVE  /\ SettingsOK /\ owed \in 0..LossCost /\ rx \in Seq(Octet)
           /\ {hook_off, lock, reboot} \subseteq BOOLEAN /\ (~Sniffing => rx = <<>>)
           /\ \E op \in Ops, pc \in {"idle", "poke", "status", "data", "crc"},
              n \in {call.n}, t \in {call.try}, g \in {call.got}, r \in {call.res} :
                 /\ call = [pc |-> pc, op |-> op, n |-> n, try |-> t, got |-> g, res |-> r]
                 /\ n \in 0..Len(Pokes(op)) /\ t \in 0..(op.tries - 1)
                 /\ pc = "poke" => n < Len(Pokes(op))
                 /\ pc \in {"poke", "status"} => g = <<>>
                 /\ r = "ok" => pc = "idle"
<1>0. TypeOK /\ CallInv
    BY DEF IInv
<1>1. call.op \in Ops /\ call.pc \in {"idle", "poke", "status", "data", "crc"}
    BY <1>0 DEF TypeOK, CallInv
<1>2. /\ call = [pc |-> call.pc, op |-> call.op, n |-> call.n, try |-> call.try,
                 got |-> call.got, res |-> call.res]
      /\ call.n \in 0..Len(Pokes(call.op)) /\ call.try \in 0..(call.op.tries - 1)
      /\ call.pc = "poke" => call.n < Len(Pokes(call.op))
      /\ call.pc \in {"poke", "status"} => call.got = <<>>
      /\ call.res = "ok" => call.pc = "idle"
    BY <1>0 DEF TypeOK, CallInv
<1>3. /\ SettingsOK /\ owed \in 0..LossCost /\ rx \in Seq(Octet)
      /\ {hook_off, lock, reboot} \subseteq BOOLEAN /\ (~Sniffing => rx = <<>>)
    BY <1>0 DEF TypeOK, CallInv, SettingsOK
<1> QED BY <1>1, <1>2, <1>3

\* A parser that misses a byte still holds bytes.
LEMMA MissesSeq ==
    ASSUME NEW op \in Ops, NEW n \in Nat, 0 < n, n <= Len(Pokes(op)), Misses(op, n)'
    PROVE  rx' \in Seq(Octet)
<1>1. PICK k \in 1..n : rx' = Without(op, k, n)
    BY DEF Misses, Without
<1>2. n \in 1..Len(Pokes(op))
    <2>1. PICK l \in Nat : l = Len(Pokes(op))
        BY PokesShape
    <2> QED BY <2>1
<1> QED BY <1>1, <1>2, WithoutShape

\* The answer to a call stays the same while its settings do.
LEMMA WordsSame ==
    ASSUME call'.op = call.op, settings' = settings
    PROVE  Data' = Data /\ Words' = Words
BY DEF Words, Data, Payload, DataWords, HasCrc

\* The cost of a lost byte, for the solver.
LEMMA OwedIs == LossCost = 2 /\ (LossCost > 0) /\ LossCost \in Nat
BY DEF LossCost

\* The chip goes on listening.
LEMMA GoesOnward ==
    ASSUME IInv, call.pc = "poke", Sniffing, Poked, owed' = owed,
           Onward(call.op, call.n)
    PROVE  IInv'
<1>1. PICK op \in Ops, n \in {call.n}, t \in {call.try}, r \in {call.res} :
         /\ call = [pc |-> "poke", op |-> op, n |-> n, try |-> t, got |-> <<>>, res |-> r]
         /\ n \in 0..Len(Pokes(op)) /\ t \in 0..(op.tries - 1)
         /\ n < Len(Pokes(op)) /\ r # "ok"
    BY CallBefore
<1>2. PICK l \in Nat : l = Len(Pokes(op)) /\ n \in Nat /\ n < l
    <2>1. Len(Pokes(op)) \in Nat
        BY PokesShape
    <2> QED BY <1>1, <2>1
<1>3. /\ SettingsOK /\ owed \in 0..LossCost
      /\ {hook_off, lock, reboot} \subseteq BOOLEAN
    BY CallBefore
<1>4. /\ Onward(op, n) /\ UNCHANGED <<busy, answer, settings, hook_off, lock, reboot>>
    <2>1. call.op = op /\ call.n = n
        BY <1>1
    <2>2. Onward(op, n)
        BY <2>1
    <2> QED BY <2>2 DEF Onward
<1>5. Sniffing'
    BY <1>4 DEF Sniffing
<1>6. CASE n + 1 < l
    <2>1. call' = [pc |-> "poke", op |-> op, n |-> n + 1, try |-> t, got |-> <<>>, res |-> r]
        BY <1>1, <1>2, <1>6 DEF Poked
    <2>2. \/ rx' = SubSeq(Pokes(op), 1, n + 1)
          \/ /\ owed > 0
             /\ (owed = LossCost /\ Misses(op, n + 1)') \/ Dropped(op, n + 1)'
        BY <1>2, <1>4, <1>6 DEF Onward
    <2>3. rx' \in Seq(Octet)
        <3>1. n + 1 \in 0..l /\ 0 < n + 1 /\ n + 1 <= l /\ n + 1 \in Nat
            BY <1>2, <1>6
        <3>2. SubSeq(Pokes(op), 1, n + 1) \in Seq(Octet)
            BY <1>2, <3>1, FirstBytes
        <3>3. Misses(op, n + 1)' => rx' \in Seq(Octet)
            BY <1>2, <3>1, MissesSeq
        <3>4. Dropped(op, n + 1)' => rx' \in Seq(Octet)
            <4>1. PICK p \in Seq(Octet) : p = Pokes(op) /\ Len(p) = l
                BY <1>2, PokesShape
            <4>2. \A m \in 2..(n + 1) : SubSeq(p, m, n + 1) \in Seq(Octet)
                BY <1>2, <3>1, <4>1, FromShape
            <4>3. <<>> \in Seq(Octet)
                OBVIOUS
            <4> QED BY <4>1, <4>2, <4>3 DEF Dropped
        <3> QED BY <2>2, <3>2, <3>3, <3>4
    <2>4. TypeOK' /\ CallInv'
        <3>1. n + 1 \in 0..Len(Pokes(op)) /\ n + 1 < Len(Pokes(op))
            BY <1>2, <1>6
        <3>2. SettingsOK' /\ owed' \in 0..LossCost /\ {hook_off, lock, reboot}' \subseteq BOOLEAN
            BY <1>3, <1>4 DEF SettingsOK
        <3> QED BY <1>1, <1>5, <2>1, <2>3, <3>1, <3>2, CallAfter
    <2>5. Parsing'
        <3>1. call'.op = op /\ call'.n = n + 1 /\ n + 1 # 0
            BY <1>2, <2>1
        <3>2. Misses(op, n + 1)' => Misses(call.op, call.n)'
            BY <3>1 DEF Misses, Without
        <3>3. Dropped(op, n + 1)' => Dropped(call.op, call.n)'
            BY <3>1 DEF Dropped
        <3> QED BY <2>2, <3>1, <3>2, <3>3 DEF Parsing
    <2>6. ListenInv' /\ AnswerInv'
        BY <1>5, <2>1, <2>5 DEF ListenInv, AnswerInv
    <2>7. SuccessIsTrue'
        BY <1>1, <2>1 DEF SuccessIsTrue
    <2> QED BY <2>4, <2>6, <2>7 DEF IInv
<1>7. CASE ~(n + 1 < l)
    <2>1. call' = [pc |-> "status", op |-> op, n |-> 0, try |-> t, got |-> <<>>, res |-> r]
        BY <1>1, <1>2, <1>7 DEF Poked
    <2>2. owed > 0 /\ (rx' = <<>> \/ (owed = LossCost /\ Misses(op, n + 1)'))
        BY <1>2, <1>4, <1>7 DEF Onward
    <2>3. n + 1 = l
        BY <1>2, <1>7
    <2>4. rx' \in Seq(Octet)
        <3>1. 0 < n + 1 /\ n + 1 <= l /\ n + 1 \in Nat
            BY <1>2, <2>3
        <3>2. Misses(op, n + 1)' => rx' \in Seq(Octet)
            BY <1>2, <3>1, MissesSeq
        <3>3. <<>> \in Seq(Octet)
            OBVIOUS
        <3> QED BY <2>2, <3>2, <3>3
    <2>5. TypeOK' /\ CallInv'
        <3>1. 0 \in 0..Len(Pokes(op))
            BY <1>2
        <3>2. SettingsOK' /\ owed' \in 0..LossCost /\ {hook_off, lock, reboot}' \subseteq BOOLEAN
            BY <1>3, <1>4 DEF SettingsOK
        <3> QED BY <1>1, <1>5, <2>1, <2>4, <3>1, <3>2, CallAfter
    <2>6. rx' = <<>> \/ (owed = LossCost /\ Awaits')
        <3>1. n + 1 = Len(Pokes(op))
            BY <1>2, <2>3
        <3>2. Misses(op, n + 1)' => Misses(op, Len(Pokes(op)))'
            BY <3>1 DEF Misses, Without
        <3>3. Misses(op, Len(Pokes(op)))' => Awaits'
            BY DEF Awaits
        <3> QED BY <2>2, <3>2, <3>3
    <2>7. ListenInv' /\ AnswerInv'
        BY <1>5, <2>1, <2>2, <2>6 DEF ListenInv, AnswerInv
    <2>8. SuccessIsTrue'
        BY <1>1, <2>1 DEF SuccessIsTrue
    <2> QED BY <2>5, <2>7, <2>8 DEF IInv
<1> QED BY <1>6, <1>7

\* A word on the bus is one of four: they differ.
LEMMA StatusApart ==
    /\ OK # ERR /\ OK # BUSY /\ OK # RomWord /\ ERR # BUSY /\ RomWord # BUSY
    /\ <<ERR>> # <<>> /\ <<OK>> # <<>>
BY DEF OK, ERR, BUSY, RomWord

\* ERR is being sent.
LEMMA RefusedSaid ==
    ASSUME answer' = <<ERR>>, busy' = NoReq
    PROVE  Refusal' /\ ~Sniffing'
<1>1. <<ERR>> = Busys(0) \o <<ERR>>
    BY BusyWords
<1>2. 0 \in 0..MaxBusyLeft
    BY DEF MaxBusyLeft
<1>3. \E m \in 0..MaxBusyLeft : answer' = Busys(m) \o <<ERR>>
    BY <1>1, <1>2
<1> QED BY <1>3, StatusApart DEF Refusal, Sniffing, Busys, BUSY, ERR

\* A flash command is refused, and BUSY is sent until it says so.
LEMMA RefusedUnsaid ==
    ASSUME answer' = <<>>, NEW c \in FlashCmds, busy' = [NoReq EXCEPT !.cmd = c]
    PROVE  Refusal' /\ ~Sniffing'
<1>1. Refusal'
    BY DEF Refusal
<1>2. c # "none"
    BY DEF FlashCmds
<1>3. busy' # NoReq
    BY <1>2 DEF NoReq
<1> QED BY <1>1, <1>3 DEF Sniffing

\* The first byte of a call completes an earlier one, which is refused.
LEMMA GoesRefused ==
    ASSUME IInv, call.pc = "poke", Sniffing, Poked, owed' = owed,
           call.n + 1 < Len(Pokes(call.op)), Refuses
    PROVE  IInv'
<1>1. PICK op \in Ops, n \in {call.n}, t \in {call.try}, r \in {call.res} :
         /\ call = [pc |-> "poke", op |-> op, n |-> n, try |-> t, got |-> <<>>, res |-> r]
         /\ n \in 0..Len(Pokes(op)) /\ t \in 0..(op.tries - 1)
         /\ r # "ok"
    BY CallBefore
<1>2. PICK l \in Nat : l = Len(Pokes(op)) /\ n \in Nat /\ n + 1 < l
    <2>1. Len(Pokes(op)) \in Nat
        BY PokesShape
    <2> QED BY <1>1, <2>1
<1>3. SettingsOK /\ owed \in 0..LossCost /\ {hook_off, lock, reboot} \subseteq BOOLEAN
    BY CallBefore
<1>4. /\ rx' = <<>> /\ owed > 0
      /\ UNCHANGED <<settings, hook_off, lock, reboot>>
    BY DEF Refuses
<1>5. Refusal' /\ ~Sniffing'
    <2>1. busy = NoReq /\ answer = <<>>
        BY DEF Sniffing
    <2>2. CASE busy' = busy /\ answer' = <<ERR>>
        BY <2>1, <2>2, RefusedSaid
    <2>3. CASE answer' = answer /\ \E c \in FlashCmds : busy' = [NoReq EXCEPT !.cmd = c]
        BY <2>1, <2>3, RefusedUnsaid
    <2> QED BY <2>2, <2>3 DEF Refuses
<1>6. call' = [pc |-> "poke", op |-> op, n |-> n + 1, try |-> t, got |-> <<>>, res |-> r]
    BY <1>1, <1>2 DEF Poked
<1>7. TypeOK' /\ CallInv'
    <2>1. n + 1 \in 0..Len(Pokes(op)) /\ n + 1 < Len(Pokes(op))
        BY <1>2
    <2>2. SettingsOK' /\ owed' \in 0..LossCost /\ {hook_off, lock, reboot}' \subseteq BOOLEAN
        BY <1>3, <1>4 DEF SettingsOK
    <2>3. rx' \in Seq(Octet)
        <3>1. <<>> \in Seq(Octet)
            OBVIOUS
        <3> QED BY <1>4, <3>1
    <2> QED BY <1>1, <1>4, <1>6, <2>1, <2>2, <2>3, CallAfter
<1>8. AnswerInv' /\ ListenInv'
    BY <1>4, <1>5, <1>6 DEF AnswerInv, ListenInv
<1>9. SuccessIsTrue'
    BY <1>1, <1>6 DEF SuccessIsTrue
<1> QED BY <1>7, <1>8, <1>9 DEF IInv

\* The chip does not listen: what is poked is not heard.
LEMMA GoesUnheard ==
    ASSUME IInv, call.pc = "poke", ~Sniffing, Poked, UNCHANGED fw, owed' = owed
    PROVE  IInv'
<1>1. PICK op \in Ops, n \in {call.n}, t \in {call.try}, r \in {call.res} :
         /\ call = [pc |-> "poke", op |-> op, n |-> n, try |-> t, got |-> <<>>, res |-> r]
         /\ n \in 0..Len(Pokes(op)) /\ t \in 0..(op.tries - 1)
         /\ n < Len(Pokes(op)) /\ r # "ok"
    BY CallBefore
<1>2. PICK l \in Nat : l = Len(Pokes(op)) /\ n \in Nat /\ n < l
    <2>1. Len(Pokes(op)) \in Nat
        BY PokesShape
    <2> QED BY <1>1, <2>1
<1>3. /\ SettingsOK /\ owed \in 0..LossCost /\ {hook_off, lock, reboot} \subseteq BOOLEAN
      /\ rx = <<>>
    BY CallBefore
<1>4. UNCHANGED <<rx, busy, answer, settings, hook_off, lock, reboot>>
    BY DEF fw
<1>5. Refusal /\ owed > 0
    BY <1>1 DEF IInv, AnswerInv, Serving
<1>6. Refusal' /\ ~Sniffing'
    BY <1>4, <1>5 DEF Refusal, Sniffing, Busys, NoReq
<1>7. PICK pc \in {"poke", "status"}, m \in 0..l :
         /\ call' = [pc |-> pc, op |-> op, n |-> m, try |-> t, got |-> <<>>, res |-> r]
         /\ pc = "poke" => m < l
    <2>1. CASE n + 1 < l
        <3>1. n + 1 \in 0..l
            BY <1>2, <2>1
        <3>2. call' = [pc |-> "poke", op |-> op, n |-> n + 1, try |-> t, got |-> <<>>, res |-> r]
            BY <1>1, <1>2, <2>1 DEF Poked
        <3> QED BY <2>1, <3>1, <3>2
    <2>2. CASE ~(n + 1 < l)
        <3>1. call' = [pc |-> "status", op |-> op, n |-> 0, try |-> t, got |-> <<>>, res |-> r]
            BY <1>1, <1>2, <2>2 DEF Poked
        <3>2. 0 \in 0..l
            BY <1>2
        <3> QED BY <3>1, <3>2
    <2> QED BY <2>1, <2>2
<1>8. TypeOK' /\ CallInv'
    <2>1. m \in 0..Len(Pokes(op)) /\ (pc = "poke" => m < Len(Pokes(op)))
        BY <1>2, <1>7
    <2>2. SettingsOK' /\ owed' \in 0..LossCost /\ {hook_off, lock, reboot}' \subseteq BOOLEAN
        BY <1>3, <1>4 DEF SettingsOK
    <2>3. rx' = <<>> /\ rx' \in Seq(Octet)
        <3>1. <<>> \in Seq(Octet)
            OBVIOUS
        <3> QED BY <1>3, <1>4, <3>1
    <2>4. pc \in {"idle", "poke", "status", "data", "crc"}
        BY <1>7
    <2> QED BY <1>1, <1>7, <2>1, <2>2, <2>3, <2>4, CallAfter
<1>9. AnswerInv' /\ ListenInv'
    BY <1>3, <1>4, <1>5, <1>6, <1>7 DEF AnswerInv, ListenInv
<1>10. SuccessIsTrue'
    BY <1>1, <1>7 DEF SuccessIsTrue
<1> QED BY <1>8, <1>9, <1>10 DEF IInv

\* Whether arguments are in range depends on nothing but the lock.
LEMMA RangeSame ==
    ASSUME NEW c, NEW a, lock' = lock
    PROVE  InRange(c, a)' <=> InRange(c, a)
BY DEF InRange

\* All bytes of the call have arrived.
LEMMA GoesExecuted ==
    ASSUME IInv, call.pc = "poke", Sniffing, Poked, owed' = owed,
           call.n + 1 = Len(Pokes(call.op)), Execute(call.op.cmd, Pokes(call.op))
    PROVE  IInv'
<1>1. PICK op \in Ops, n \in {call.n}, t \in {call.try}, r \in {call.res} :
         /\ call = [pc |-> "poke", op |-> op, n |-> n, try |-> t, got |-> <<>>, res |-> r]
         /\ n \in 0..Len(Pokes(op)) /\ t \in 0..(op.tries - 1)
         /\ r # "ok"
    BY CallBefore
<1>2. PICK l \in Nat : l = Len(Pokes(op)) /\ n \in Nat /\ n + 1 = l
    <2>1. Len(Pokes(op)) \in Nat
        BY PokesShape
    <2> QED BY <1>1, <2>1
<1>3. SettingsOK /\ owed \in 0..LossCost /\ {hook_off, lock, reboot} \subseteq BOOLEAN
    BY CallBefore
<1>4. busy = NoReq /\ answer = <<>> /\ Execute(op.cmd, Pokes(op))
    BY <1>1 DEF Sniffing
<1>5. PICK c, a : c = op.cmd /\ a = op.args
    OBVIOUS
<1>6. /\ rx' = <<>> /\ settings' = settings
      /\ hook_off' = (hook_off \/ c = "DISABLE_NEXT_OSDSYS_HOOK")
      /\ lock' = IF c = "WRITE_LOCK" THEN a[1] # 0 ELSE lock
      /\ reboot' = (reboot \/ (c = "REBOOT" /\ InRange(c, a)))
      /\ \/ /\ InRange(c, a) /\ c \in SlowCmds /\ answer' = <<>>
            /\ busy' = [cmd |-> c, args |-> a, data |-> op.data, valid |-> TRUE]
         \/ InRange(c, a) /\ c \notin SlowCmds /\ busy' = NoReq /\ answer' = Reply(c, a)
         \/ /\ ~InRange(c, a) /\ c \in FlashCmds /\ answer' = <<>>
            /\ busy' = [NoReq EXCEPT !.cmd = c]
         \/ ~InRange(c, a) /\ busy' = NoReq /\ answer' = <<ERR>>
    BY <1>4, <1>5, ExecuteAsked
<1>7. call' = [pc |-> "status", op |-> op, n |-> 0, try |-> t, got |-> <<>>, res |-> r]
    <2>1. ~(n + 1 < l)
        BY <1>2
    <2> QED BY <1>1, <1>2, <2>1 DEF Poked
<1>8. c # "WRITE_LOCK" => (InRange(c, a)' <=> InRange(c, a))
    BY <1>6, RangeSame
<1>9. InRange(c, a)' <=> InRange(call.op.cmd, call.op.args)'
    BY <1>5, <1>7 DEF InRange
<1>10. AnswerInv' /\ ~Sniffing'
    <2>1. CASE /\ InRange(c, a) /\ c \in SlowCmds /\ answer' = <<>>
               /\ busy' = [cmd |-> c, args |-> a, data |-> op.data, valid |-> TRUE]
        <3>1. c # "WRITE_LOCK"
            BY <2>1 DEF SlowCmds
        <3>2. busy' = AskedBusy'
            BY <1>5, <1>7, <2>1 DEF AskedBusy
        <3>3. busy' # NoReq
            BY <2>1 DEF NoReq
        <3>4. Serving'
            BY <1>5, <1>7, <1>8, <1>9, <2>1, <3>1, <3>2 DEF Serving
        <3> QED BY <1>6, <3>3, <3>4 DEF AnswerInv, Sniffing
    <2>2. CASE /\ InRange(c, a) /\ c \notin SlowCmds /\ busy' = NoReq
               /\ answer' = Reply(c, a)
        <3>1. answer' = <<OK>> \o Words'
            <4>1. call.op \in Ops /\ call.op.cmd = c /\ call.op.args = a
                BY <1>1, <1>5
            <4>2. Reply(c, a) = <<OK>> \o Words
                BY <4>1, ReplyIs
            <4>3. Words' = Words
                BY <1>1, <1>6, <1>7, WordsSame
            <4> QED BY <2>2, <4>2, <4>3
        <3>2. answer' # <<>>
            <4>1. call.op \in Ops
                BY <1>1
            <4>2. PICK S : OK \in S /\ Words \in Seq(S)
                BY <4>1, WordsShape
            <4>3. <<OK>> \o Words # <<>>
                BY <4>2, FirstWord
            <4>4. Words' = Words
                BY <1>1, <1>6, <1>7, WordsSame
            <4> QED BY <3>1, <4>3, <4>4
        <3>3. Done'
            BY <1>5, <1>6, <1>7, <2>2 DEF Done, SlowCmds
        <3>4. Serving'
            BY <1>5, <1>7, <2>2, <3>1, <3>3 DEF Serving
        <3> QED BY <1>6, <3>2, <3>4 DEF AnswerInv, Sniffing
    <2>3. CASE /\ ~InRange(c, a) /\ c \in FlashCmds /\ answer' = <<>>
               /\ busy' = [NoReq EXCEPT !.cmd = c]
        <3>1. Refusal' /\ ~Sniffing'
            BY <2>3, RefusedUnsaid
        <3>2. ~InRange(call.op.cmd, call.op.args)'
            <4>1. c # "WRITE_LOCK"
                BY <2>3 DEF FlashCmds
            <4> QED BY <1>8, <1>9, <2>3, <4>1
        <3> QED BY <1>5, <1>6, <1>7, <2>3, <3>1, <3>2 DEF AnswerInv
    <2>4. CASE ~InRange(c, a) /\ busy' = NoReq /\ answer' = <<ERR>>
        <3>1. Refusal' /\ ~Sniffing'
            BY <2>4, RefusedSaid
        <3>2. ~InRange(call.op.cmd, call.op.args)'
            <4>1. c # "WRITE_LOCK"
                BY <2>4, AlwaysInRange
            <4> QED BY <1>8, <1>9, <2>4, <4>1
        <3> QED BY <1>6, <1>7, <2>4, <3>1, <3>2 DEF AnswerInv
    <2> QED BY <1>6, <2>1, <2>2, <2>3, <2>4
<1>11. TypeOK' /\ CallInv'
    <2>1. 0 \in 0..Len(Pokes(op))
        BY <1>2
    <2>2. SettingsOK' /\ owed' \in 0..LossCost
        BY <1>3, <1>6 DEF SettingsOK
    <2>3. {hook_off, lock, reboot}' \subseteq BOOLEAN
        <3>1. hook_off' \in BOOLEAN
            BY <1>6
        <3>2. lock' \in BOOLEAN
            BY <1>3, <1>6
        <3>3. reboot' \in BOOLEAN
            BY <1>6
        <3> QED BY <3>1, <3>2, <3>3
    <2>4. rx' \in Seq(Octet)
        <3>1. <<>> \in Seq(Octet)
            OBVIOUS
        <3> QED BY <1>6, <3>1
    <2> QED BY <1>1, <1>6, <1>7, <2>1, <2>2, <2>3, <2>4, CallAfter
<1>12. ListenInv'
    BY <1>10 DEF ListenInv
<1>13. SuccessIsTrue'
    BY <1>1, <1>7 DEF SuccessIsTrue
<1> QED BY <1>10, <1>11, <1>12, <1>13 DEF IInv

\* A byte is poked and seen, or the sniffers are stopped.
LEMMA PokeStep ==
    ASSUME IInv, AllUnmistakable, Poke
    PROVE  IInv'
<1>1. PICK op \in Ops, n \in {call.n}, t \in {call.try}, r \in {call.res} :
         /\ call = [pc |-> "poke", op |-> op, n |-> n, try |-> t, got |-> <<>>, res |-> r]
         /\ n \in 0..Len(Pokes(op)) /\ n < Len(Pokes(op))
    BY CallBefore DEF Poke
<1>2. n \in Nat /\ (n + 1 < Len(Pokes(op)) \/ n + 1 = Len(Pokes(op)))
    <2>1. PICK l \in Nat : l = Len(Pokes(op))
        BY PokesShape
    <2>2. n \in Nat /\ (n + 1 < l \/ n + 1 = l)
        BY <1>1, <2>1
    <2> QED BY <2>1, <2>2
<1>3. call.pc = "poke" /\ Poked /\ owed' = owed
    BY DEF Poke
<1>4. CASE ~Sniffing
    BY <1>3, <1>4, GoesUnheard DEF Poke
<1>5. CASE Sniffing
    <2>1. busy = NoReq /\ answer = <<>> /\ Receive(Pokes(op)[n + 1])
        BY <1>1, <1>5 DEF Poke, Sniffing, NextByte
    <2>2. hook_off \in BOOLEAN /\ reboot \in BOOLEAN
        BY CallBefore
    <2>3. Parsing
        BY <1>3, <1>5 DEF IInv, ListenInv
    <2>4. \/ rx = SubSeq(Pokes(op), 1, n)
          \/ /\ owed > 0
             /\ IF n = 0 THEN Awaits
                ELSE (owed = LossCost /\ Misses(op, n)) \/ Dropped(op, n)
        BY <1>1, <2>3 DEF Parsing
    <2>5. \/ Onward(op, n)
          \/ n + 1 < Len(Pokes(op)) /\ Refuses
          \/ n + 1 = Len(Pokes(op)) /\ Execute(op.cmd, Pokes(op))
        BY <1>1, <1>2, <2>1, <2>2, <2>4, PokeSeen
    <2>6. op = call.op /\ n = call.n
        BY <1>1
    <2>7. CASE Onward(op, n)
        BY <1>3, <1>5, <2>6, <2>7, GoesOnward
    <2>8. CASE n + 1 < Len(Pokes(op)) /\ Refuses
        BY <1>3, <1>5, <2>6, <2>8, GoesRefused
    <2>9. CASE n + 1 = Len(Pokes(op)) /\ Execute(op.cmd, Pokes(op))
        BY <1>3, <1>5, <2>6, <2>9, GoesExecuted
    <2> QED BY <2>5, <2>7, <2>8, <2>9
<1> QED BY <1>4, <1>5

\* A byte is lost only when everything before it has arrived.
LEMMA PokeLostStep ==
    ASSUME IInv, OneLoss, PokeLost
    PROVE  IInv'
<1>1. PICK op \in Ops, n \in {call.n}, t \in {call.try}, r \in {call.res} :
         /\ call = [pc |-> "poke", op |-> op, n |-> n, try |-> t, got |-> <<>>, res |-> r]
         /\ n \in 0..Len(Pokes(op)) /\ t \in 0..(op.tries - 1)
         /\ n < Len(Pokes(op)) /\ r # "ok"
    BY CallBefore DEF PokeLost
<1>2. PICK l \in Nat : l = Len(Pokes(op)) /\ n \in Nat /\ n < l
    <2>1. Len(Pokes(op)) \in Nat
        BY PokesShape
    <2> QED BY <1>1, <2>1
<1>3. SettingsOK /\ owed \in 0..LossCost /\ {hook_off, lock, reboot} \subseteq BOOLEAN
    BY CallBefore
<1>4. /\ UNCHANGED <<rx, busy, answer, settings, hook_off, lock, reboot>>
      /\ Sniffing /\ Poked
    BY DEF PokeLost, fw
<1>5. owed = 0 /\ owed' = LossCost
    <2>1. PICK o \in Nat : o = owed
        BY <1>3, OwedIs
    <2>2. o + 2 <= MaxOwed /\ MaxOwed \in Nat /\ MaxOwed <= 2 /\ owed' = o + 2
        BY <2>1, OwedIs DEF OneLoss, PokeLost
    <2> QED BY <2>1, <2>2, OwedIs
<1>6. rx = SubSeq(Pokes(op), 1, n)
    <2>1. Parsing
        BY <1>1, <1>4 DEF IInv, ListenInv
    <2>2. ~(owed > 0)
        BY <1>5
    <2> QED BY <1>1, <2>1, <2>2 DEF Parsing
<1>7. Misses(op, n + 1)'
    <2>1. n + 1 \in 1..(n + 1)
        BY <1>2
    <2>2. Without(op, n + 1, n + 1) = SubSeq(Pokes(op), 1, n)
        <3>1. PICK w, s : w = Without(op, n + 1, n + 1) /\ s = SubSeq(Pokes(op), 1, n)
            OBVIOUS
        <3>2. n + 1 \in 1..Len(Pokes(op)) /\ n \in 0..Len(Pokes(op)) /\ (n + 1) - 1 = n
            BY <1>2
        <3>3. /\ w \in Seq(Octet) /\ Len(w) = n
              /\ \A i \in 1..n : i < n + 1 => w[i] = Pokes(op)[i]
            BY <2>1, <3>1, <3>2, WithoutShape
        <3>4. s \in Seq(Octet) /\ Len(s) = n /\ \A i \in 1..n : s[i] = Pokes(op)[i]
            BY <3>1, <3>2, FirstBytes
        <3>5. \A i \in 1..n : w[i] = s[i]
            <4>1. \A i \in 1..n : i < n + 1
                BY <1>2
            <4> QED BY <3>3, <3>4, <4>1
        <3> QED BY <3>1, <3>3, <3>4, <3>5, SameSeq
    <2>3. rx' = Without(op, n + 1, n + 1)
        BY <1>4, <1>6, <2>2
    <2> QED BY <2>1, <2>3 DEF Misses, Without
<1>8. Sniffing' /\ rx' \in Seq(Octet) /\ SettingsOK' /\ owed' \in 0..LossCost
      /\ {hook_off, lock, reboot}' \subseteq BOOLEAN
    <2>1. rx \in Seq(Octet)
        BY CallBefore
    <2> QED BY <1>3, <1>4, <1>5, <2>1, OwedIs DEF Sniffing, SettingsOK
<1>9. CASE n + 1 < l
    <2>1. call' = [pc |-> "poke", op |-> op, n |-> n + 1, try |-> t, got |-> <<>>, res |-> r]
        BY <1>1, <1>2, <1>4, <1>9 DEF Poked
    <2>2. TypeOK' /\ CallInv'
        <3>1. n + 1 \in 0..Len(Pokes(op)) /\ n + 1 < Len(Pokes(op))
            BY <1>2, <1>9
        <3> QED BY <1>1, <1>8, <2>1, <3>1, CallAfter
    <2>3. Parsing'
        <3>1. call'.op = op /\ call'.n = n + 1 /\ n + 1 # 0
            BY <1>2, <2>1
        <3>2. Misses(call.op, call.n)'
            BY <1>7, <3>1 DEF Misses, Without
        <3>3. owed' > 0
            BY <1>5, OwedIs
        <3> QED BY <1>5, <3>1, <3>2, <3>3 DEF Parsing
    <2>4. ListenInv' /\ AnswerInv'
        BY <1>8, <2>1, <2>3 DEF ListenInv, AnswerInv
    <2>5. SuccessIsTrue'
        BY <1>1, <2>1 DEF SuccessIsTrue
    <2> QED BY <2>2, <2>4, <2>5 DEF IInv
<1>10. CASE ~(n + 1 < l)
    <2>1. call' = [pc |-> "status", op |-> op, n |-> 0, try |-> t, got |-> <<>>, res |-> r]
        BY <1>1, <1>2, <1>4, <1>10 DEF Poked
    <2>2. TypeOK' /\ CallInv'
        <3>1. 0 \in 0..Len(Pokes(op))
            BY <1>2
        <3> QED BY <1>1, <1>8, <2>1, <3>1, CallAfter
    <2>3. Awaits'
        <3>1. n + 1 = Len(Pokes(op))
            BY <1>2, <1>10
        <3>2. Misses(op, Len(Pokes(op)))'
            BY <1>7, <3>1 DEF Misses, Without
        <3> QED BY <3>2 DEF Awaits
    <2>4. owed' > 0
        BY <1>5, OwedIs
    <2>5. ListenInv' /\ AnswerInv'
        BY <1>5, <1>8, <2>1, <2>3, <2>4 DEF ListenInv, AnswerInv
    <2>6. SuccessIsTrue'
        BY <1>1, <2>1 DEF SuccessIsTrue
    <2> QED BY <2>2, <2>5, <2>6 DEF IInv
<1> QED BY <1>9, <1>10

\* A call is started.
LEMMA StartCallStep ==
    ASSUME IInv, NEW op \in Ops, StartCall(op)
    PROVE  IInv'
<1>1. call' = [pc |-> "poke", op |-> op, n |-> 0, try |-> 0, got |-> <<>>, res |-> "none"]
    BY DEF StartCall
<1>2. /\ UNCHANGED <<rx, busy, answer, settings, hook_off, lock, reboot, owed>>
      /\ call.pc = "idle"
    BY DEF StartCall, fw
<1>3. /\ SettingsOK /\ owed \in 0..LossCost /\ rx \in Seq(Octet)
      /\ {hook_off, lock, reboot} \subseteq BOOLEAN /\ (~Sniffing => rx = <<>>)
    BY CallBefore
<1>4. PICK l \in Nat : l = Len(Pokes(op)) /\ l >= 4
    <2>1. Len(Pokes(op)) = 4 + ArgBytes(op.cmd) /\ ArgBytes(op.cmd) \in Nat
        BY OpShape, PokesShape, AtStep
    <2> QED BY <2>1
<1>5. Sniffing' = Sniffing
    BY <1>2 DEF Sniffing
<1>6. TypeOK' /\ CallInv'
    <2>1. 0 \in 0..Len(Pokes(op)) /\ 0 < Len(Pokes(op))
        BY <1>4
    <2>2. 0 \in 0..(op.tries - 1)
        <3>1. PICK k \in Nat : k = op.tries /\ k # 0
            BY OpShape
        <3> QED BY <3>1
    <2>3. SettingsOK' /\ owed' \in 0..LossCost /\ rx' \in Seq(Octet)
          /\ {hook_off, lock, reboot}' \subseteq BOOLEAN /\ (~Sniffing' => rx' = <<>>)
        BY <1>2, <1>3, <1>5 DEF SettingsOK
    <2> QED BY <1>1, <2>1, <2>2, <2>3, CallAfter
<1>7. ListenInv'
    <2> SUFFICES ASSUME Sniffing' PROVE Parsing'
        BY <1>1 DEF ListenInv
    <2>1. rx = <<>> \/ (owed > 0 /\ Awaits)
        BY <1>2, <1>5 DEF IInv, ListenInv
    <2>2. CASE rx = <<>>
        <3>1. SubSeq(Pokes(op), 1, 0) = <<>>
            <4>1. 0 \in 0..Len(Pokes(op))
                BY <1>4
            <4> QED BY <4>1, FirstBytes
        <3> QED BY <1>1, <1>2, <2>2, <3>1 DEF Parsing
    <2>3. CASE owed > 0 /\ Awaits
        <3>1. Awaits'
            BY <1>2, <2>3 DEF Awaits, Misses
        <3> QED BY <1>1, <1>2, <2>3, <3>1 DEF Parsing
    <2> QED BY <2>1, <2>2, <2>3
<1>8. AnswerInv'
    <2> SUFFICES ASSUME ~Sniffing' PROVE rx' = <<>> /\ Refusal' /\ owed' > 0
        BY <1>1 DEF AnswerInv
    <2>1. rx = <<>> /\ Refusal /\ owed > 0
        BY <1>2, <1>5 DEF IInv, AnswerInv, Serving
    <2> QED BY <1>2, <2>1 DEF Refusal
<1>9. SuccessIsTrue'
    BY <1>1 DEF SuccessIsTrue
<1> QED BY <1>6, <1>7, <1>8, <1>9 DEF IInv

-----------------------------------------------------------------------------
\* A setting is stored within the width of its field.
LEMMA StoredFits ==
    ASSUME NEW key \in Keys, NEW v \in Nat
    PROVE  Stored(key, v) \in 0..Largest(key) /\ Stored(key, v) \in Nat
<1>1. key = AUTOBOOT \/ key = DELAY \/ key = ITEM_IDX \/ key = OSDSYS
    BY DEF Keys, AUTOBOOT, DELAY, ITEM_IDX, OSDSYS
<1>2. AUTOBOOT # DELAY /\ AUTOBOOT # ITEM_IDX /\ AUTOBOOT # OSDSYS
      /\ DELAY # ITEM_IDX /\ DELAY # OSDSYS
    BY DEF AUTOBOOT, DELAY, ITEM_IDX, OSDSYS
<1>3. PICK s : s = Stored(key, v)
    OBVIOUS
<1>4. CASE key = AUTOBOOT
    <2>1. s = IF v = 0 THEN 0 ELSE 1
        BY <1>2, <1>3, <1>4 DEF Stored
    <2>2. Largest(key) = 1
        BY <1>4 DEF Largest
    <2>3. s \in 0..1 /\ s \in Nat
        BY <2>1
    <2> QED BY <1>3, <2>2, <2>3
<1>5. CASE key = DELAY
    <2>1. s = v % 65536
        BY SMT, <1>2, <1>3, <1>5 DEF Stored
    <2>2. s \in Nat /\ s <= 65535 => s \in 0..Largest(key)
        BY SMT, <1>2, <1>5 DEF Largest
    <2>3. s \in Nat /\ s <= 65535
        BY SMT, <2>1
    <2> QED BY SMT, <1>3, <2>2, <2>3
<1>6. CASE key \in {ITEM_IDX, OSDSYS}
    <2>1. s = v % 256
        BY SMT, <1>2, <1>3, <1>6 DEF Stored
    <2>2. s \in Nat /\ s <= 255 => s \in 0..Largest(key)
        BY SMT, <1>2, <1>6 DEF Largest
    <2>3. s \in Nat /\ s <= 255
        BY SMT, <2>1
    <2> QED BY SMT, <1>3, <2>2, <2>3
<1> QED BY <1>1, <1>4, <1>5, <1>6

\* What is executed is what the console asks for.
LEMMA BusyIsAsked ==
    ASSUME IInv, busy # NoReq
    PROVE  /\ rx = <<>> /\ answer = <<>> /\ ~Sniffing
           /\ \/ /\ busy = AskedBusy /\ InRange(call.op.cmd, call.op.args)
                 /\ call.pc = "status" /\ call.op.cmd \in SlowCmds
              \/ /\ ~busy.valid /\ \E c \in FlashCmds : busy = [NoReq EXCEPT !.cmd = c]
                 /\ \/ owed > 0 /\ call.pc \in {"idle", "poke", "status"}
                    \/ /\ call.pc = "status" /\ call.op.cmd \in FlashCmds
                       /\ ~InRange(call.op.cmd, call.op.args)
<1>1. ~Sniffing
    BY DEF Sniffing
<1>2. AnswerInv
    BY DEF IInv
<1>3. rx = <<>>
    BY <1>1, <1>2 DEF AnswerInv
<1>4. CASE Refusal
    <2>1. answer = <<>> /\ \E c \in FlashCmds : busy = [NoReq EXCEPT !.cmd = c]
        BY <1>4 DEF Refusal
    <2>2. ~busy.valid
        BY <2>1 DEF NoReq
    <2>3. answer # <<ERR>>
        BY <2>1, StatusApart
    <2>4. ~Serving
        <3>1. busy # AskedBusy
            BY <2>2 DEF AskedBusy
        <3> QED BY <3>1 DEF Serving
    <2>5. \/ owed > 0 /\ call.pc \in {"idle", "poke", "status"}
          \/ /\ call.pc = "status" /\ call.op.cmd \in FlashCmds
             /\ ~InRange(call.op.cmd, call.op.args)
        BY <1>1, <1>2, <2>3, <2>4 DEF AnswerInv
    <2> QED BY <1>1, <1>3, <2>1, <2>2, <2>5
<1>5. CASE Serving
    <2>1. /\ busy = AskedBusy /\ InRange(call.op.cmd, call.op.args) /\ answer = <<>>
          /\ call.pc = "status" /\ call.op.cmd \in SlowCmds
        BY <1>5 DEF Serving
    <2> QED BY <1>1, <1>3, <2>1
<1> QED BY <1>1, <1>2, <1>4, <1>5 DEF AnswerInv

\* A KV_SET that is being executed has a key and a value.
LEMMA SetArgs ==
    ASSUME IInv, busy = AskedBusy, InRange(call.op.cmd, call.op.args), call.op.cmd = "KV_SET"
    PROVE  call.op.args[1] \in Keys /\ call.op.args[2] \in Nat
<1>1. PICK op \in Ops : op = call.op
    BY CallBefore
<1>2. Len(op.args) = 2
    <2>1. Len(op.args) = Len(Widths(op.cmd)) /\ Widths(op.cmd) = <<2, 4>>
        BY <1>1, OpShape DEF Widths
    <2> QED BY <2>1
<1>3. 2 \in 1..Len(op.args)
    BY <1>2
<1>4. op.args[2] \in Nat
    BY <1>3, OpShape
<1>5. op.args[1] \in Keys
    BY <1>1 DEF InRange
<1> QED BY <1>1, <1>4, <1>5

\* The settings stay in their ranges when one is set.
LEMMA WithSetOK ==
    ASSUME IInv, settings' \in {settings, WithSet}
    PROVE  SettingsOK'
<1>1. SettingsOK
    BY CallBefore
<1>2. CASE settings' = settings
    BY <1>1, <1>2 DEF SettingsOK
<1>3. CASE settings' = WithSet /\ settings' # settings
    <2>1. busy.cmd = "KV_SET" /\ busy.valid
        BY <1>3 DEF WithSet
    <2>2. busy # NoReq
        BY <2>1 DEF NoReq
    <2>3. busy = AskedBusy /\ InRange(call.op.cmd, call.op.args)
        BY <2>1, <2>2, BusyIsAsked
    <2>4. PICK key, v : key = call.op.args[1] /\ v = call.op.args[2]
        OBVIOUS
    <2>5. busy.args[1] = key /\ busy.args[2] = v /\ call.op.cmd = "KV_SET"
        BY <2>1, <2>3, <2>4 DEF AskedBusy
    <2>6. key \in Keys /\ v \in Nat
        BY <2>3, <2>4, <2>5, SetArgs
    <2>7. settings' = [settings EXCEPT ![key] = Stored(key, v)]
        BY <1>3, <2>1, <2>5 DEF WithSet
    <2>8. Stored(key, v) \in 0..Largest(key) /\ Stored(key, v) \in Nat
        BY <2>6, StoredFits
    <2>9. settings' \in [Keys -> Nat]
        BY <1>1, <2>7, <2>8 DEF SettingsOK
    <2>10. ASSUME NEW k \in Keys PROVE settings'[k] \in 0..Largest(k)
        <3>1. settings[k] \in 0..Largest(k) /\ settings \in [Keys -> Nat]
            BY <1>1 DEF SettingsOK
        <3>2. settings'[k] = IF k = key THEN Stored(key, v) ELSE settings[k]
            BY <2>7, <3>1
        <3> QED BY <2>8, <3>1, <3>2
    <2>11. (\A k \in Keys : settings[k] \in 0..Largest(k))'
        BY <2>10
    <2> QED BY <2>9, <2>11 DEF SettingsOK
<1> QED BY <1>2, <1>3

\* Everything is forgotten, and nobody owes anything.
LEMMA ResetStep ==
    ASSUME IInv, FwReset, call' = Idle(call.op, "none", <<>>), owed' = 0
    PROVE  IInv'
<1>1. PICK op \in Ops : op = call.op
    BY CallBefore
<1>2. call' = [pc |-> "idle", op |-> op, n |-> 0, try |-> 0, got |-> <<>>, res |-> "none"]
    BY <1>1 DEF Idle
<1>3. Sniffing' /\ rx' = <<>> /\ {hook_off, lock, reboot}' \subseteq BOOLEAN
    BY DEF FwReset, Sniffing, NoReq
<1>4. SettingsOK'
    BY WithSetOK DEF FwReset
<1>5. TypeOK' /\ CallInv'
    <2>1. 0 \in 0..Len(Pokes(op))
        <3>1. Len(Pokes(op)) \in Nat
            BY PokesShape
        <3> QED BY <3>1
    <2>2. 0 \in 0..(op.tries - 1)
        <3>1. PICK k \in Nat : k = op.tries /\ k # 0
            BY OpShape
        <3> QED BY <3>1
    <2>3. rx' \in Seq(Octet) /\ owed' \in 0..LossCost
        <3>1. <<>> \in Seq(Octet)
            OBVIOUS
        <3>2. 0 \in 0..LossCost
            BY OwedIs
        <3> QED BY <1>3, <3>1, <3>2
    <2> QED BY <1>2, <1>3, <1>4, <2>1, <2>2, <2>3, CallAfter
<1>6. ListenInv' /\ AnswerInv' /\ SuccessIsTrue'
    BY <1>2, <1>3 DEF ListenInv, AnswerInv, SuccessIsTrue
<1> QED BY <1>5, <1>6 DEF IInv

\* The slow part of a command is done, or its refusal said.
LEMMA FinishBusyStep ==
    ASSUME IInv, FinishBusy
    PROVE  IInv'
<1>1. /\ busy # NoReq /\ busy' = NoReq /\ settings' = WithSet
      /\ UNCHANGED <<rx, hook_off, lock, reboot, call, owed>>
    BY DEF FinishBusy
<1>2. PICK m \in 0..MaxBusyLeft :
         answer' = Busys(m) \o <<IF busy.valid THEN OK ELSE ERR>>
    BY DEF FinishBusy, Busys
<1>3. PICK op \in Ops, pc \in {"idle", "poke", "status", "data", "crc"},
              n \in {call.n}, t \in {call.try}, g \in {call.got}, r \in {call.res} :
         /\ call = [pc |-> pc, op |-> op, n |-> n, try |-> t, got |-> g, res |-> r]
         /\ n \in 0..Len(Pokes(op)) /\ t \in 0..(op.tries - 1)
         /\ pc = "poke" => n < Len(Pokes(op))
         /\ pc \in {"poke", "status"} => g = <<>>
         /\ r = "ok" => pc = "idle"
    BY CallBefore
<1>4. /\ owed \in 0..LossCost /\ {hook_off, lock, reboot} \subseteq BOOLEAN
      /\ rx = <<>> /\ answer = <<>>
    BY <1>1, CallBefore, BusyIsAsked
<1>5. answer' # <<>>
    <2>1. m \in Nat
        BY DEF MaxBusyLeft
    <2> QED BY <1>2, <2>1, BusyWords
<1>6. TypeOK' /\ CallInv'
    <2>1. SettingsOK'
        BY <1>1, WithSetOK
    <2>2. rx' = <<>> /\ rx' \in Seq(Octet)
        <3>1. <<>> \in Seq(Octet)
            OBVIOUS
        <3> QED BY <1>1, <1>4, <3>1
    <2>3. call' = [pc |-> pc, op |-> op, n |-> n, try |-> t, got |-> g, res |-> r]
        BY <1>1, <1>3
    <2>4. owed' \in 0..LossCost /\ {hook_off, lock, reboot}' \subseteq BOOLEAN
        BY <1>1, <1>4
    <2> QED BY <1>3, <2>1, <2>2, <2>3, <2>4, CallAfter
<1>7. ~Sniffing'
    BY <1>5 DEF Sniffing
<1>8. ListenInv'
    BY <1>7 DEF ListenInv
<1>9. CASE /\ busy = AskedBusy /\ InRange(call.op.cmd, call.op.args)
           /\ call.pc = "status" /\ call.op.cmd \in SlowCmds
    <2>1. busy.valid
        BY <1>9 DEF AskedBusy
    <2>2. answer' = Busys(m) \o <<OK>>
        BY <1>2, <2>1
    <2>3. Done'
        <3>1. call.op.cmd \notin {"WRITE_LOCK", "DISABLE_NEXT_OSDSYS_HOOK", "REBOOT"}
            BY <1>9 DEF SlowCmds
        <3>2. ASSUME call.op.cmd = "KV_SET"
              PROVE  settings'[call.op.args[1]] = Stored(call.op.args[1], call.op.args[2])
            <4>1. PICK key, v : key = call.op.args[1] /\ v = call.op.args[2]
                OBVIOUS
            <4>2. busy.cmd = "KV_SET" /\ busy.args[1] = key /\ busy.args[2] = v
                BY <1>9, <3>2, <4>1 DEF AskedBusy
            <4>3. settings' = [settings EXCEPT ![key] = Stored(key, v)]
                BY <1>1, <2>1, <4>2 DEF WithSet
            <4>4. key \in Keys /\ settings \in [Keys -> Nat]
                BY <1>9, <3>2, <4>1, SetArgs, CallBefore DEF SettingsOK
            <4> QED BY <4>1, <4>3, <4>4
        <3> QED BY <1>1, <3>1, <3>2 DEF Done
    <2>4. Serving'
        BY <1>1, <1>9, <2>2, <2>3 DEF Serving, Busys, BUSY, OK
    <2>5. AnswerInv'
        BY <1>1, <1>4, <2>4 DEF AnswerInv
    <2>6. SuccessIsTrue'
        BY <1>1, <1>3, <1>9 DEF SuccessIsTrue
    <2> QED BY <1>6, <1>8, <2>5, <2>6 DEF IInv
<1>10. CASE /\ ~busy.valid
            /\ \/ owed > 0 /\ call.pc \in {"idle", "poke", "status"}
               \/ /\ call.pc = "status" /\ call.op.cmd \in FlashCmds
                  /\ ~InRange(call.op.cmd, call.op.args)
    <2>1. answer' = Busys(m) \o <<ERR>>
        BY <1>2, <1>10
    <2>2. Refusal'
        BY <1>1, <2>1 DEF Refusal, Busys, BUSY, ERR
    <2>3. settings' = settings
        BY <1>1, <1>10 DEF WithSet
    <2>4. ~InRange(call.op.cmd, call.op.args) => ~InRange(call.op.cmd, call.op.args)'
        BY <1>1 DEF InRange
    <2>5. AnswerInv'
        BY <1>1, <1>4, <1>10, <2>2, <2>4 DEF AnswerInv
    <2>6. SuccessIsTrue'
        <3>1. SuccessIsTrue
            BY DEF IInv
        <3> QED BY <1>1, <2>3, <3>1 DEF SuccessIsTrue, Payload, DataWords
    <2> QED BY <1>6, <1>8, <2>5, <2>6 DEF IInv
<1> QED BY <1>1, <1>9, <1>10, BusyIsAsked

-----------------------------------------------------------------------------
\* What the console does with a word it has read.
LEMMA Stutters ==
    ASSUME IInv,
           UNCHANGED <<rx, busy, answer, settings, hook_off, lock, reboot, call, owed>>
    PROVE  IInv'
<1>1. UNCHANGED <<rx, busy, answer, settings, hook_off, lock, reboot, call, owed>>
    OBVIOUS
<1>2. TypeOK' /\ CallInv'
    <2>1. TypeOK /\ CallInv
        BY DEF IInv
    <2> QED BY <1>1, <2>1 DEF TypeOK, CallInv, Sniffing
<1>3. Sniffing' <=> Sniffing
    BY <1>1 DEF Sniffing
<1>4. ListenInv'
    <2>1. ListenInv
        BY DEF IInv
    <2>2. Parsing' <=> Parsing
        BY <1>1 DEF Parsing, Awaits, Misses, Dropped
    <2>3. Awaits' <=> Awaits
        BY <1>1 DEF Awaits, Misses
    <2> QED BY <1>1, <1>3, <2>1, <2>2, <2>3 DEF ListenInv
<1>5. AnswerInv'
    <2>1. AnswerInv
        BY DEF IInv
    <2>2. Refusal' <=> Refusal
        BY <1>1 DEF Refusal
    <2>3. Serving' <=> Serving
        <3>1. Data' = Data /\ Words' = Words
            BY <1>1, WordsSame
        <3>2. Done' <=> Done
            BY <1>1 DEF Done
        <3>3. InRange(call.op.cmd, call.op.args)' <=> InRange(call.op.cmd, call.op.args)
            BY <1>1 DEF InRange
        <3>4. AskedBusy' = AskedBusy
            BY <1>1 DEF AskedBusy
        <3> QED BY <1>1, <3>1, <3>2, <3>3, <3>4 DEF Serving
    <2>4. InRange(call.op.cmd, call.op.args)' <=> InRange(call.op.cmd, call.op.args)
        BY <1>1 DEF InRange
    <2> QED BY <1>1, <1>3, <2>1, <2>2, <2>3, <2>4 DEF AnswerInv
<1>6. SuccessIsTrue'
    <2>1. SuccessIsTrue
        BY DEF IInv
    <2> QED BY <1>1, <2>1 DEF SuccessIsTrue, Payload, DataWords
<1> QED BY <1>2, <1>4, <1>5, <1>6 DEF IInv

\* A peek changes nothing but the answer.
LEMMA PeekParts ==
    ASSUME IInv, Peek
    PROVE  /\ UNCHANGED <<rx, busy, settings, hook_off, lock, reboot>>
           /\ SettingsOK' /\ rx' \in Seq(Octet) /\ {hook_off, lock, reboot}' \subseteq BOOLEAN
           /\ answer' = IF answer # <<>> THEN Tail(answer) ELSE answer
<1>1. /\ UNCHANGED <<rx, busy, settings, hook_off, lock, reboot>>
      /\ answer' = IF answer # <<>> THEN Tail(answer) ELSE answer
    BY DEF Peek
<1>2. SettingsOK /\ rx \in Seq(Octet) /\ {hook_off, lock, reboot} \subseteq BOOLEAN
    BY CallBefore
<1> QED BY <1>1, <1>2 DEF SettingsOK

\* A failed attempt leaves a parser that has forgotten it, one that waits for its last
\* byte, or a refusal.
LEMMA FailStep ==
    ASSUME IInv, call.pc = "status", Fail, Peek, owed' \in 0..LossCost,
           \/ Sniffing' /\ rx' = <<>>
           \/ Sniffing' /\ owed' > 0 /\ Awaits'
           \/ ~Sniffing' /\ rx' = <<>> /\ Refusal' /\ owed' > 0
    PROVE  IInv'
<1>1. PICK op \in Ops, n \in {call.n}, t \in {call.try}, r \in {call.res} :
         /\ call = [pc |-> "status", op |-> op, n |-> n, try |-> t, got |-> <<>>, res |-> r]
         /\ t \in 0..(op.tries - 1) /\ r # "ok"
    BY CallBefore
<1>2. SettingsOK' /\ rx' \in Seq(Octet) /\ {hook_off, lock, reboot}' \subseteq BOOLEAN
    BY PeekParts
<1>3. PICK l \in Nat : l = Len(Pokes(op)) /\ l >= 4
    <2>1. Len(Pokes(op)) = 4 + ArgBytes(op.cmd) /\ ArgBytes(op.cmd) \in Nat
        BY OpShape, PokesShape, AtStep
    <2> QED BY <2>1
<1>4. PICK k \in Nat : k = op.tries /\ k # 0
    BY OpShape
<1>5. PICK pc \in {"idle", "poke"}, u \in 0..(k - 1), s \in {call.res, "fail"} :
         /\ call' = [pc |-> pc, op |-> op, n |-> 0, try |-> u, got |-> <<>>, res |-> s]
         /\ s # "ok"
    <2>1. CASE t + 1 < k
        <3>1. call' = [pc |-> "poke", op |-> op, n |-> 0, try |-> t + 1, got |-> <<>>, res |-> r]
            BY <1>1, <1>4, <2>1 DEF Fail
        <3>2. t + 1 \in 0..(k - 1)
            BY <1>1, <1>4, <2>1
        <3> QED BY <1>1, <3>1, <3>2
    <2>2. CASE ~(t + 1 < k)
        <3>1. call' = [pc |-> "idle", op |-> op, n |-> 0, try |-> 0, got |-> <<>>,
                       res |-> "fail"]
            BY <1>1, <1>4, <2>2 DEF Fail, Idle
        <3>2. 0 \in 0..(k - 1)
            BY <1>4
        <3>3. "idle" \in {"idle", "poke"} /\ "fail" # "ok"
            OBVIOUS
        <3> QED BY ZenonT(20), <3>1, <3>2, <3>3
    <2> QED BY <2>1, <2>2
<1>6. TypeOK' /\ CallInv'
    <2>1. 0 \in 0..Len(Pokes(op)) /\ 0 < Len(Pokes(op)) /\ u \in 0..(op.tries - 1)
        BY <1>3, <1>4
    <2>2. pc \in {"idle", "poke", "status", "data", "crc"}
        BY <1>5
    <2>3. ~Sniffing' => rx' = <<>>
        OBVIOUS
    <2> QED BY <1>2, <1>5, <2>1, <2>2, <2>3, CallAfter
<1>7. SubSeq(Pokes(op), 1, 0) = <<>>
    <2>1. 0 \in 0..Len(Pokes(op))
        BY <1>3
    <2> QED BY <2>1, FirstBytes
<1>8. ListenInv'
    <2>1. call'.op = op /\ call'.n = 0 /\ call'.pc = pc
        BY <1>5
    <2>2. Sniffing' /\ rx' = <<>> => Parsing'
        BY <1>7, <2>1 DEF Parsing
    <2>3. owed' > 0 /\ Awaits' => Parsing'
        BY <2>1 DEF Parsing
    <2> QED BY <1>5, <2>1, <2>2, <2>3 DEF ListenInv
<1>9. AnswerInv'
    BY <1>5 DEF AnswerInv
<1>10. SuccessIsTrue'
    BY <1>5 DEF SuccessIsTrue
<1> QED BY <1>6, <1>8, <1>9, <1>10 DEF IInv

\* A call succeeds when nothing is left of its answer.
LEMMA SucceedStep ==
    ASSUME IInv, NEW got, Succeed(got), Peek, busy = NoReq, rx = <<>>, answer' = <<>>,
           Done, got = Data
    PROVE  IInv'
<1>1. PICK op \in Ops : op = call.op
    BY CallBefore
<1>2. /\ SettingsOK' /\ rx' \in Seq(Octet) /\ {hook_off, lock, reboot}' \subseteq BOOLEAN
      /\ UNCHANGED <<rx, busy, settings, hook_off, lock, reboot>>
    BY PeekParts
<1>3. /\ call' = [pc |-> "idle", op |-> op, n |-> 0, try |-> 0, got |-> got, res |-> "ok"]
      /\ owed' = 0
    BY <1>1 DEF Succeed, Idle
<1>4. TypeOK' /\ CallInv'
    <2>1. 0 \in 0..Len(Pokes(op))
        <3>1. Len(Pokes(op)) \in Nat
            BY PokesShape
        <3> QED BY <3>1
    <2>2. 0 \in 0..(op.tries - 1)
        <3>1. PICK k \in Nat : k = op.tries /\ k # 0
            BY OpShape
        <3> QED BY <3>1
    <2>3. owed' \in 0..LossCost
        BY <1>3, OwedIs
    <2> QED BY <1>2, <1>3, <2>1, <2>2, <2>3, CallAfter
<1>5. Sniffing'
    BY <1>2 DEF Sniffing
<1>6. ListenInv' /\ AnswerInv'
    BY <1>2, <1>3, <1>5 DEF ListenInv, AnswerInv
<1>7. SuccessIsTrue'
    <2>1. call'.op = call.op /\ call'.got = got
        BY <1>1, <1>3
    <2>2. Done'
        BY <1>2, <2>1 DEF Done
    <2>3. call'.got = Data'
        BY <1>2, <2>1, WordsSame
    <2> QED BY <2>2, <2>3 DEF SuccessIsTrue, Done, Data
<1> QED BY <1>4, <1>6, <1>7 DEF IInv

\* The word a peek returns.
LEMMA Peeks ==
    /\ busy # NoReq => Peeked = BUSY
    /\ busy = NoReq /\ answer # <<>> => Peeked = Head(answer)
    /\ busy = NoReq /\ answer = <<>> => Peeked = RomWord
BY DEF Peeked

\* The callers that wait while they read BUSY are those of the slow commands; these
\* have no data.
LEMMA SlowShape ==
    ASSUME call.op.cmd \in SlowCmds
    PROVE  /\ DataWords(call.op.cmd, call.op.args) = 0
           /\ ~HasCrc(call.op.cmd, call.op.args)
           /\ Data = <<>>
<1>1. PICK c, a : c = call.op.cmd /\ a = call.op.args
    OBVIOUS
<1>2. DataWords(c, a) = 0
    BY <1>1 DEF SlowCmds, DataWords
<1>3. ~HasCrc(c, a)
    BY <1>1, <1>2 DEF SlowCmds, HasCrc
<1>4. Payload(c, a) = <<>>
    <2>1. c # "KV_GET"
        BY <1>1 DEF SlowCmds
    <2>2. Payload(c, a) = [i \in 1..0 |-> <<"data", c, a, i>>]
        BY <1>2, <2>1 DEF Payload
    <2> QED BY <2>2
<1> QED BY <1>1, <1>2, <1>3, <1>4 DEF Data

\* The status word of a call that nobody answers.
LEMMA StatusUnanswered ==
    ASSUME IInv, ReadStatus, Sniffing
    PROVE  IInv'
<1>1. call.pc = "status" /\ Peek /\ busy = NoReq /\ answer = <<>>
    BY DEF ReadStatus, Sniffing
<1>2. Peeked = RomWord /\ Fail
    <2>1. Peeked = RomWord
        BY <1>1, Peeks
    <2> QED BY <2>1, StatusApart DEF ReadStatus
<1>3. owed > 0 /\ (rx = <<>> \/ (owed = LossCost /\ Awaits))
    BY <1>1 DEF IInv, ListenInv
<1>4. owed \in 0..2
    BY CallBefore, OwedIs
<1>5. owed' = owed \/ owed' = owed - 1
    BY <1>2 DEF Fail
<1>6. owed' \in 0..LossCost /\ (owed = LossCost => owed' > 0)
    <2>1. PICK o \in 0..2 : o = owed /\ o > 0
        BY <1>3, <1>4
    <2>2. o - 1 \in 0..2 /\ (o = 2 => o - 1 > 0)
        BY <2>1
    <2> QED BY <1>5, <2>1, <2>2, OwedIs
<1>7. UNCHANGED <<rx, busy, answer>>
    BY <1>1 DEF Peek
<1>8. Sniffing' /\ (Awaits => Awaits')
    BY <1>1, <1>7 DEF Sniffing, Awaits, Misses
<1> QED BY <1>1, <1>2, <1>3, <1>6, <1>7, <1>8, FailStep

\* The status word is BUSY, ERR or OK.
LEMMA StatusRefused ==
    ASSUME IInv, LeftInv, ReadStatus, ~Sniffing, Refusal,
           \/ owed > 0
           \/ /\ ~InRange(call.op.cmd, call.op.args)
              /\ call.op.cmd \in FlashCmds \/ answer = <<ERR>>
    PROVE  IInv'
<1>1. call.pc = "status" /\ Peek
    BY DEF ReadStatus
<1>2. rx = <<>> /\ owed \in 0..2
    BY CallBefore, OwedIs
<1>3. FlashCmds \subseteq SlowCmds
    BY DEF FlashCmds, SlowCmds
<1>4. UNCHANGED <<rx, busy, settings, hook_off, lock, reboot>>
    BY <1>1 DEF Peek
<1>5. CASE Peeked = BUSY /\ call.op.cmd \in SlowCmds
    <2>1. UNCHANGED <<call, owed>>
        BY <1>5, StatusApart DEF ReadStatus, SlowCmds
    <2>2. CASE answer = <<>>
        <3>1. answer' = answer
            BY <1>1, <2>2 DEF Peek
        <3> QED BY <1>4, <2>1, <3>1, Stutters
    <2>3. CASE answer # <<>>
        <3>1. busy = NoReq
            BY <2>3 DEF Refusal
        <3>2. PICK m \in 0..MaxBusyLeft : answer = Busys(m) \o <<ERR>>
            BY <2>3 DEF Refusal
        <3>3. m > 0 /\ m \in Nat
            <4>1. m \in Nat
                BY DEF MaxBusyLeft
            <4>2. m # 0
                <5> SUFFICES ASSUME m = 0 PROVE FALSE
                    OBVIOUS
                <5>1. answer = <<ERR>>
                    BY <3>2, BusyWords
                <5>2. Peeked = ERR
                    BY <2>3, <3>1, <5>1, Peeks
                <5> QED BY <1>5, <5>2, StatusApart
            <4> QED BY <4>1, <4>2
        <3>4. answer' = Busys(m - 1) \o <<ERR>>
            BY <1>1, <2>3, <3>2, <3>3, BusyWords DEF Peek
        <3>5. m - 1 \in 0..MaxBusyLeft /\ m - 1 \in Nat
            BY <3>3 DEF MaxBusyLeft
        <3>6. Refusal' /\ answer' # <<>>
            <4>1. busy' = NoReq
                BY <1>4, <3>1
            <4>2. answer' # <<>>
                BY <3>4, <3>5, BusyWords
            <4>3. \E k \in 0..MaxBusyLeft : answer' = Busys(k) \o <<ERR>>
                BY <3>4, <3>5
            <4> QED BY <4>1, <4>2, <4>3 DEF Refusal, Busys, BUSY, ERR
        <3>7. ~Sniffing'
            BY <3>6 DEF Sniffing
        <3>8. answer # <<ERR>>
            <4> SUFFICES ASSUME answer = <<ERR>> PROVE FALSE
                OBVIOUS
            <4>1. Peeked = ERR
                BY <2>3, <3>1, Peeks
            <4> QED BY <1>5, <4>1, StatusApart
        <3>9. ~InRange(call.op.cmd, call.op.args) => ~InRange(call.op.cmd, call.op.args)'
            BY <1>4, <2>1 DEF InRange
        <3>10. AnswerInv'
            BY <1>1, <1>2, <1>4, <2>1, <3>6, <3>8, <3>9 DEF AnswerInv
        <3>11. ListenInv'
            BY <3>7 DEF ListenInv
        <3>12. TypeOK' /\ CallInv'
            <4>1. TypeOK /\ CallInv
                BY DEF IInv
            <4> QED BY <1>2, <1>4, <2>1, <4>1 DEF TypeOK, CallInv
        <3>13. SuccessIsTrue'
            <4>1. call.res # "ok"
                BY <1>1 DEF IInv, CallInv
            <4> QED BY <2>1, <4>1 DEF SuccessIsTrue
        <3> QED BY <3>10, <3>11, <3>12, <3>13 DEF IInv
    <2> QED BY <2>2, <2>3
<1>6. CASE Peeked = BUSY /\ call.op.cmd \notin SlowCmds
    <2>0. answer # <<ERR>>
        <3> SUFFICES ASSUME answer = <<ERR>> PROVE FALSE
            OBVIOUS
        <3>1. busy = NoReq /\ answer # <<>>
            BY StatusApart DEF Refusal
        <3>2. Peeked = ERR
            BY <3>1, Peeks
        <3> QED BY <1>6, <3>2, StatusApart
    <2>1. Fail /\ owed' = owed
        <3>1. Fail
            BY <1>6, StatusApart DEF ReadStatus, SlowCmds
        <3>2. flash_failed
            BY <1>1, <1>3, <1>6, <2>0 DEF LeftInv
        <3> QED BY <1>6, <3>1, <3>2 DEF Fail, LeftByFlash
    <2>2. Refusal' /\ ~Sniffing'
        <3>1. CASE answer = <<>>
            <4>1. UNCHANGED <<busy, answer>>
                BY <1>1, <1>4, <3>1 DEF Peek
            <4> QED BY <4>1 DEF Refusal, Sniffing, Busys, BUSY, ERR, NoReq
        <3>2. CASE answer # <<>>
            <4>1. busy = NoReq
                BY <3>2 DEF Refusal
            <4>2. PICK m \in 0..MaxBusyLeft : answer = Busys(m) \o <<ERR>>
                BY <3>2 DEF Refusal
            <4>3. m > 0 /\ m \in Nat
                <5>1. m \in Nat
                    BY DEF MaxBusyLeft
                <5>2. m # 0
                    <6> SUFFICES ASSUME m = 0 PROVE FALSE
                        OBVIOUS
                    <6>1. answer = <<ERR>>
                        BY <4>2, BusyWords
                    <6>2. Peeked = ERR
                        BY <3>2, <4>1, <6>1, Peeks
                    <6> QED BY <1>6, <6>2, StatusApart
                <5> QED BY <5>1, <5>2
            <4>4. answer' = Busys(m - 1) \o <<ERR>>
                BY <1>1, <3>2, <4>2, <4>3, BusyWords DEF Peek
            <4>5. m - 1 \in 0..MaxBusyLeft /\ m - 1 \in Nat
                BY <4>3 DEF MaxBusyLeft
            <4>6. answer' # <<>> /\ busy' = NoReq
                BY <1>4, <4>1, <4>4, <4>5, BusyWords
            <4>7. \E k \in 0..MaxBusyLeft : answer' = Busys(k) \o <<ERR>>
                BY <4>4, <4>5
            <4> QED BY <4>6, <4>7 DEF Refusal, Sniffing, Busys, BUSY, ERR
        <3> QED BY <3>1, <3>2
    <2>3. owed > 0
        BY <1>3, <1>6, <2>0
    <2>4. owed' \in 0..LossCost /\ rx' = <<>>
        BY <1>2, <1>4, <2>1, OwedIs
    <2> QED BY <1>1, <2>1, <2>2, <2>3, <2>4, FailStep
<1>7. CASE Peeked # BUSY
    <2>1. busy = NoReq
        BY <1>7, Peeks
    <2>2. PICK m \in 0..MaxBusyLeft : answer = Busys(m) \o <<ERR>>
        BY <2>1 DEF Refusal, Sniffing
    <2>3. answer # <<>>
        BY <2>1 DEF Sniffing
    <2>4. m = 0
        <3>1. m \in Nat
            BY DEF MaxBusyLeft
        <3>2. ~(m > 0)
            BY <1>7, <2>1, <2>2, <2>3, <3>1, BusyWords, Peeks
        <3> QED BY <3>1, <3>2
    <2>5. answer = <<ERR>> /\ Peeked = ERR
        <3>1. answer = <<ERR>>
            BY <2>2, <2>4, BusyWords
        <3> QED BY <2>1, <2>3, <3>1, Peeks
    <2>6. Fail /\ answer' = <<>>
        <3>1. Fail
            BY <2>5, StatusApart DEF ReadStatus
        <3>2. Tail(<<ERR>>) = <<>>
            OBVIOUS
        <3> QED BY <1>1, <2>3, <2>5, <3>1, <3>2 DEF Peek
    <2>7. owed' \in 0..LossCost
        <3>1. \/ owed > 0 /\ owed' = owed - 1
              \/ owed' = owed
            BY <2>6 DEF Fail
        <3>2. PICK o \in 0..2 : o = owed
            BY <1>2
        <3>3. o > 0 => o - 1 \in 0..2
            OBVIOUS
        <3> QED BY <3>1, <3>2, <3>3, OwedIs
    <2>8. Sniffing' /\ rx' = <<>>
        BY <1>2, <1>4, <2>1, <2>6 DEF Sniffing
    <2> QED BY <1>1, <2>6, <2>7, <2>8, FailStep
<1> QED BY <1>5, <1>6, <1>7

\* The words of the answer are read in order.
LEMMA ServingGoesOn ==
    ASSUME IInv, NEW pc \in {"status", "data", "crc"}, NEW got,
           call' = [pc |-> pc, op |-> call.op, n |-> call.n, try |-> call.try, got |-> got,
                    res |-> call.res],
           call.pc # "idle",
           pc = "status" => got = <<>>,
           owed' = owed, UNCHANGED <<rx, busy, settings, hook_off, lock, reboot>>,
           rx = <<>>, ~Sniffing', Serving'
    PROVE  IInv'
<1>1. PICK op \in Ops, q \in {call.pc}, n \in {call.n}, t \in {call.try},
          g \in {call.got}, r \in {call.res} :
         /\ call = [pc |-> q, op |-> op, n |-> n, try |-> t, got |-> g, res |-> r]
         /\ n \in 0..Len(Pokes(op)) /\ t \in 0..(op.tries - 1)
         /\ r # "ok"
    BY CallBefore
<1>2. call' = [pc |-> pc, op |-> op, n |-> n, try |-> t, got |-> got, res |-> r]
    BY <1>1
<1>3. TypeOK' /\ CallInv'
    <2>1. SettingsOK' /\ owed' \in 0..LossCost /\ {hook_off, lock, reboot}' \subseteq BOOLEAN
        BY CallBefore DEF SettingsOK
    <2>2. rx' = <<>> /\ rx' \in Seq(Octet)
        <3>1. <<>> \in Seq(Octet)
            OBVIOUS
        <3> QED BY <3>1
    <2>3. pc \in {"idle", "poke", "status", "data", "crc"} /\ pc # "poke"
        OBVIOUS
    <2>4. /\ pc = "poke" => n < Len(Pokes(op))
          /\ pc \in {"poke", "status"} => got = <<>>
          /\ r = "ok" => pc = "idle"
        BY <1>1, <2>3
    <2> QED BY <1>1, <1>2, <2>1, <2>2, <2>3, <2>4, CallAfter
<1>4. ListenInv' /\ AnswerInv' /\ SuccessIsTrue'
    BY <1>1, <1>2 DEF ListenInv, AnswerInv, SuccessIsTrue
<1> QED BY <1>3, <1>4 DEF IInv

\* All words of an answer are left before the first is read.
LEMMA WordsLeft ==
    ASSUME NEW S, NEW s \in Seq(S)
    PROVE  /\ SubSeq(s, 0 + 1, Len(s)) = s
           /\ SubSeq(s, 1, 0) = <<>>
           /\ Len(s) = 0 => s = <<>>
<1>1. PICK l \in Nat : l = Len(s)
    OBVIOUS
<1>2. PICK t : t = SubSeq(s, 0 + 1, 0 + l)
    OBVIOUS
<1>3. t \in Seq(S) /\ Len(t) = l /\ \A j \in 1..l : t[j] = s[0 + j]
    <2>1. 0 \in Nat /\ 0 + l <= Len(s)
        BY <1>1
    <2> QED BY <1>2, <2>1, SubSeqAt
<1>4. \A j \in 1..l : t[j] = s[j]
    <2>1. \A j \in 1..l : 0 + j = j
        OBVIOUS
    <2> QED BY <1>3, <2>1
<1>5. t = s
    BY <1>1, <1>3, <1>4, SameSeq
<1>6. 0 + l = l /\ 0 + 1 = 1
    BY <1>1
<1>7. SubSeq(s, 1, 0) = <<>>
    OBVIOUS
<1>8. Len(s) = 0 => s = <<>>
    BY EmptySeq
<1> QED BY <1>1, <1>2, <1>5, <1>6, <1>7, <1>8

\* A slow command has been executed.
LEMMA StatusOfSlow ==
    ASSUME IInv, ReadStatus, call.op.cmd \in SlowCmds, busy = NoReq, Done,
           NEW m \in 0..MaxBusyLeft, answer = Busys(m) \o <<OK>>
    PROVE  IInv'
<1>1. call.pc = "status" /\ Peek /\ m \in Nat
    BY DEF ReadStatus, MaxBusyLeft
<1>2. answer # <<>> /\ ~Sniffing
    BY <1>1, BusyWords DEF Sniffing
<1>3. rx = <<>>
    BY <1>2, CallBefore
<1>4. UNCHANGED <<rx, busy, settings, hook_off, lock, reboot>> /\ answer' = Tail(answer)
    BY <1>1, <1>2 DEF Peek
<1>5. CASE m > 0
    <2>1. Peeked = BUSY /\ answer' = Busys(m - 1) \o <<OK>>
        BY <1>1, <1>2, <1>4, <1>5, BusyWords, Peeks
    <2>2. UNCHANGED <<call, owed>>
        BY <2>1, StatusApart DEF ReadStatus, SlowCmds
    <2>3. m - 1 \in 0..MaxBusyLeft /\ m - 1 \in Nat
        BY <1>1, <1>5 DEF MaxBusyLeft
    <2>4. ~Sniffing'
        BY <2>1, <2>3, BusyWords DEF Sniffing, Busys, BUSY, OK
    <2>5. Serving'
        <3>1. Done'
            BY <1>4, <2>2 DEF Done
        <3>2. \E k \in 0..MaxBusyLeft : answer' = Busys(k) \o <<OK>>
            BY <2>1, <2>3
        <3>3. (\E k \in 0..MaxBusyLeft : answer = Busys(k) \o <<OK>>)'
            BY <3>2 DEF Busys, BUSY, OK
        <3> QED BY <1>1, <1>4, <2>2, <3>1, <3>3 DEF Serving
    <2>6. call' = [pc |-> "status", op |-> call.op, n |-> call.n, try |-> call.try,
                   got |-> <<>>, res |-> call.res]
        <3>1. PICK op, n, t, r :
                call = [pc |-> "status", op |-> op, n |-> n, try |-> t, got |-> <<>>, res |-> r]
            BY <1>1, CallBefore
        <3> QED BY <2>2, <3>1
    <2> QED BY <1>1, <1>3, <1>4, <2>2, <2>4, <2>5, <2>6, ServingGoesOn
<1>6. CASE m = 0
    <2>1. answer = <<OK>>
        BY <1>1, <1>6, BusyWords
    <2>2. Peeked = OK
        BY <1>2, <2>1, Peeks
    <2>3. answer' = <<>>
        <3>1. Tail(<<OK>>) = <<>>
            OBVIOUS
        <3> QED BY <1>4, <2>1, <3>1
    <2>4. Succeed(<<>>) /\ Data = <<>>
        BY <2>2, SlowShape, StatusApart DEF ReadStatus, StatusOK
    <2> QED BY <1>1, <1>3, <2>3, <2>4, SucceedStep
<1> QED BY <1>1, <1>5, <1>6

\* The status word of another command is OK, and its data follows.
LEMMA StatusOfFast ==
    ASSUME IInv, ReadStatus, busy = NoReq, Done, answer = <<OK>> \o Words
    PROVE  IInv'
<1>1. call.pc = "status" /\ Peek /\ call.op \in Ops
    BY CallBefore DEF ReadStatus
<1>2. PICK S : /\ OK \in S /\ Data \in Seq(S) /\ Words \in Seq(S)
               /\ Len(Data) = DataWords(call.op.cmd, call.op.args)
               /\ Len(Words) = Len(Data)
                                 + (IF HasCrc(call.op.cmd, call.op.args) THEN 1 ELSE 0)
               /\ HasCrc(call.op.cmd, call.op.args) =>
                     Words[Len(Data) + 1] = <<"crc", Data>>
               /\ ~HasCrc(call.op.cmd, call.op.args) => Words = Data
    BY <1>1, WordsShape
<1>3. answer # <<>> /\ Head(answer) = OK /\ Tail(answer) = Words
    BY <1>2, FirstWord
<1>4. ~Sniffing /\ Peeked = OK
    BY <1>3, Peeks DEF Sniffing
<1>5. rx = <<>>
    BY <1>4, CallBefore
<1>6. UNCHANGED <<rx, busy, settings, hook_off, lock, reboot>> /\ answer' = Words
    BY <1>1, <1>3 DEF Peek
<1>7. PICK k : k = DataWords(call.op.cmd, call.op.args)
    OBVIOUS
<1>8. k \in Nat /\ Len(Data) = k
    BY <1>1, <1>2, <1>7, DataWordsNat
<1>9. CASE k = 0 /\ ~HasCrc(call.op.cmd, call.op.args)
    <2>1. Words = Data /\ Data = <<>>
        BY <1>2, <1>8, <1>9, EmptySeq
    <2>2. Succeed(<<>>)
        BY <1>4, <1>7, <1>9, StatusApart DEF ReadStatus, StatusOK
    <2> QED BY <1>1, <1>5, <1>6, <2>1, <2>2, SucceedStep
<1>10. CASE ~(k = 0 /\ ~HasCrc(call.op.cmd, call.op.args))
    <2>1. call' = [call EXCEPT !.pc = IF k = 0 THEN "crc" ELSE "data"] /\ owed' = owed
        BY <1>4, <1>7, <1>10, StatusApart DEF ReadStatus, StatusOK
    <2>2. PICK op, n, t, r :
            call = [pc |-> "status", op |-> op, n |-> n, try |-> t, got |-> <<>>, res |-> r]
        BY <1>1, CallBefore
    <2>3. PICK pc \in {"status", "data", "crc"} :
             pc = (IF k = 0 THEN "crc" ELSE "data") /\ pc # "status"
        OBVIOUS
    <2>4. /\ call'.op = call.op /\ call'.got = <<>> /\ call'.pc = pc
          /\ call' = [pc |-> pc, op |-> call.op, n |-> call.n, try |-> call.try,
                      got |-> <<>>, res |-> call.res]
        BY <2>1, <2>2, <2>3
    <2>5. Data' = Data /\ Words' = Words
        BY <1>6, <2>4, WordsSame
    <2>6. Done' /\ busy' = NoReq
        BY <1>6, <2>4 DEF Done
    <2>7. ~Sniffing'
        <3>1. Words # <<>>
            <4>1. Len(Words) # 0
                BY <1>2, <1>8, <1>10
            <4> QED BY <1>2, <4>1, EmptySeq
        <3> QED BY <1>6, <3>1 DEF Sniffing
    <2>8. Serving'
        <3>1. CASE k = 0
            <4>1. HasCrc(call.op.cmd, call.op.args) /\ Data = <<>>
                BY <1>2, <1>8, <1>10, <3>1, EmptySeq
            <4>2. Len(Words) = 1 /\ Words[1] = <<"crc", Data>>
                BY <1>2, <1>8, <3>1, <4>1
            <4>3. Words = <<<<"crc", Data>>>>
                <5>1. PICK x : x = <<"crc", Data>>
                    OBVIOUS
                <5>2. x \in S
                    <6>1. 1 \in 1..Len(Words)
                        BY <4>2
                    <6> QED BY <1>2, <4>2, <5>1, <6>1, ElementOfSeq
                <5>3. <<x>> \in Seq(S) /\ Len(<<x>>) = 1 /\ <<x>>[1] = x
                    BY <5>2
                <5>4. \A i \in 1..Len(Words) : Words[i] = <<x>>[i]
                    <6>1. \A i \in 1..1 : i = 1
                        OBVIOUS
                    <6> QED BY <4>2, <5>1, <5>3, <6>1
                <5> QED BY <1>2, <4>2, <5>1, <5>3, <5>4, SameSeq
            <4> QED BY <1>6, <2>3, <2>4, <2>5, <2>6, <3>1, <4>1, <4>3 DEF Serving
        <3>2. CASE k # 0
            <4>1. Len(<<>>) = 0 /\ 0 < k
                BY <1>8, <3>2
            <4>2. SubSeq(Data, 1, 0) = <<>> /\ SubSeq(Words, 0 + 1, Len(Words)) = Words
                BY <1>2, WordsLeft
            <4>3. Len(call.got)' < DataWords(call.op.cmd, call.op.args)'
                <5>1. DataWords(call.op.cmd, call.op.args)' = k
                    BY <1>7, <2>4 DEF DataWords
                <5> QED BY <2>4, <4>1, <5>1
            <4>4. call'.got = SubSeq(Data, 1, Len(call.got))'
                BY <2>4, <2>5, <4>1, <4>2
            <4>5. answer' = SubSeq(Words, Len(call.got) + 1, Len(Words))'
                BY <1>6, <2>4, <2>5, <4>1, <4>2
            <4>6. call'.pc = "data"
                BY <2>3, <2>4, <3>2
            <4> QED BY <2>6, <4>3, <4>4, <4>5, <4>6 DEF Serving
        <3> QED BY <3>1, <3>2
    <2> QED BY <1>1, <1>5, <1>6, <2>1, <2>3, <2>4, <2>7, <2>8, ServingGoesOn
<1> QED BY <1>9, <1>10

\* The status word is read.
LEMMA ReadStatusStep ==
    ASSUME IInv, LeftInv, ReadStatus
    PROVE  IInv'
<1>1. call.pc = "status" /\ Peek
    BY DEF ReadStatus
<1>2. CASE Sniffing
    BY <1>2, StatusUnanswered
<1>3. CASE ~Sniffing
    <2>1. \/ /\ Refusal
             /\ \/ owed > 0
                \/ /\ ~InRange(call.op.cmd, call.op.args)
                   /\ call.op.cmd \in FlashCmds \/ answer = <<ERR>>
          \/ Serving
        BY <1>3 DEF IInv, AnswerInv
    <2>2. CASE Refusal /\ \/ owed > 0
                          \/ /\ ~InRange(call.op.cmd, call.op.args)
                             /\ call.op.cmd \in FlashCmds \/ answer = <<ERR>>
        BY <1>3, <2>2, StatusRefused
    <2>3. CASE Serving
        <3>1. CASE /\ call.op.cmd \in SlowCmds /\ busy = AskedBusy /\ answer = <<>>
                   /\ InRange(call.op.cmd, call.op.args)
            <4>1. busy # NoReq
                BY <3>1 DEF AskedBusy, NoReq
            <4>2. UNCHANGED <<call, owed>>
                BY <3>1, <4>1, Peeks, StatusApart DEF ReadStatus, SlowCmds
            <4>3. UNCHANGED <<rx, busy, answer, settings, hook_off, lock, reboot>>
                BY <1>1, <3>1 DEF Peek
            <4> QED BY <4>2, <4>3, Stutters
        <3>2. CASE /\ call.op.cmd \in SlowCmds /\ busy = NoReq /\ Done
                   /\ \E m \in 0..MaxBusyLeft : answer = Busys(m) \o <<OK>>
            BY <3>2, StatusOfSlow
        <3>3. CASE busy = NoReq /\ Done /\ answer = <<OK>> \o Words
            BY <3>3, StatusOfFast
        <3> QED BY <1>1, <2>3, <3>1, <3>2, <3>3 DEF Serving
    <2> QED BY <2>1, <2>2, <2>3
<1> QED BY <1>2, <1>3

\* A word of data is the next one.
LEMMA ReadDataStep ==
    ASSUME IInv, ReadData
    PROVE  IInv'
<1>1. call.pc = "data" /\ Peek /\ call.op \in Ops
    BY CallBefore DEF ReadData
<1>2. ~Sniffing
    BY <1>1 DEF IInv, ListenInv
<1>3. /\ rx = <<>> /\ busy = NoReq /\ Done
      /\ Len(call.got) < DataWords(call.op.cmd, call.op.args)
      /\ call.got = SubSeq(Data, 1, Len(call.got))
      /\ answer = SubSeq(Words, Len(call.got) + 1, Len(Words))
    BY <1>1, <1>2 DEF IInv, AnswerInv, Serving
<1>4. PICK S : /\ OK \in S /\ Data \in Seq(S) /\ Words \in Seq(S)
               /\ Len(Data) = DataWords(call.op.cmd, call.op.args)
               /\ Len(Words) = Len(Data)
                                 + (IF HasCrc(call.op.cmd, call.op.args) THEN 1 ELSE 0)
               /\ \A i \in 1..Len(Data) : Words[i] = Data[i]
               /\ HasCrc(call.op.cmd, call.op.args) =>
                     Words[Len(Data) + 1] = <<"crc", Data>>
               /\ ~HasCrc(call.op.cmd, call.op.args) => Words = Data
    BY <1>1, WordsShape
<1>5. PICK l \in Nat : l = Len(Data) /\ l = DataWords(call.op.cmd, call.op.args)
    BY <1>4
<1>6. PICK d, w, g : d = Data /\ w = Words /\ g = call.got
    OBVIOUS
<1>7. PICK k \in Nat : k = Len(g) /\ k < l
    <2>1. \E m \in Nat : m = Len(g)
        <3>1. PICK a \in 0..l : a = a
            <4>1. 0 \in 0..l
                OBVIOUS
            <4> QED BY <4>1
        <3>2. Len(g) \in Nat
            BY <1>3, <1>4, <1>6
        <3> QED BY <3>2
    <2> QED BY <1>3, <1>5, <1>6, <2>1
<1>8. /\ d \in Seq(S) /\ Len(d) = l /\ g = SubSeq(d, 1, k)
      /\ w \in Seq(S) /\ answer = SubSeq(w, k + 1, Len(w))
    BY <1>3, <1>4, <1>5, <1>6, <1>7
<1>9. k < Len(w)
    <2>1. Len(w) = l \/ Len(w) = l + 1
        BY <1>4, <1>5, <1>6
    <2> QED BY <1>5, <1>7, <2>1
<1>10. /\ answer # <<>> /\ Head(answer) = w[k + 1] /\ Tail(answer) = SubSeq(w, k + 2, Len(w))
       /\ k + 1 = Len(w) => SubSeq(w, k + 2, Len(w)) = <<>>
    BY <1>7, <1>8, <1>9, NextWord
<1>11. /\ Append(g, d[k + 1]) = SubSeq(d, 1, k + 1)
       /\ k + 1 = l => SubSeq(d, 1, k + 1) = d
    BY <1>7, <1>8, NextFirst
<1>12. Peeked = d[k + 1]
    <2>1. k + 1 \in 1..l
        BY <1>7
    <2>2. w[k + 1] = d[k + 1]
        BY <1>4, <1>5, <1>6, <2>1
    <2> QED BY <1>3, <1>10, <2>2, Peeks
<1>13. PICK h : h = SubSeq(d, 1, k + 1)
    OBVIOUS
<1>14. h = Append(call.got, Peeked) /\ Len(h) = k + 1
    <2>1. 0 \in Nat /\ k + 1 \in Nat /\ 0 + (k + 1) <= Len(d) /\ 0 + 1 = 1 /\ 0 + (k + 1) = k + 1
        BY <1>7, <1>8
    <2>2. Len(SubSeq(d, 0 + 1, 0 + (k + 1))) = k + 1
        BY <1>8, <2>1, SubSeqAt
    <2> QED BY <1>6, <1>11, <1>12, <1>13, <2>1, <2>2
<1>15. UNCHANGED <<rx, busy, settings, hook_off, lock, reboot>>
       /\ answer' = SubSeq(w, k + 2, Len(w))
    BY <1>1, <1>10 DEF Peek
<1>16. CASE k + 1 < l
    <2>1. call' = [call EXCEPT !.got = h, !.pc = "data"] /\ owed' = owed
        BY <1>5, <1>14, <1>16 DEF ReadData
    <2>2. PICK op, n, t, r :
            call = [pc |-> "data", op |-> op, n |-> n, try |-> t, got |-> g, res |-> r]
        BY <1>1, <1>6, CallBefore
    <2>3. /\ call'.op = call.op /\ call'.got = h /\ call'.pc = "data"
          /\ call' = [pc |-> "data", op |-> call.op, n |-> call.n, try |-> call.try,
                      got |-> h, res |-> call.res]
        BY <2>1, <2>2
    <2>4. Data' = Data /\ Words' = Words
        BY <1>15, <2>3, WordsSame
    <2>5. Done' /\ busy' = NoReq
        BY <1>3, <1>15, <2>3 DEF Done
    <2>6. Serving'
        <3>1. Len(call.got)' < DataWords(call.op.cmd, call.op.args)'
            <4>1. DataWords(call.op.cmd, call.op.args)' = l
                BY <1>5, <2>3 DEF DataWords
            <4> QED BY <1>14, <1>16, <2>3, <4>1
        <3>2. call'.got = SubSeq(Data, 1, Len(call.got))'
            BY <1>6, <1>13, <1>14, <2>3, <2>4
        <3>3. answer' = SubSeq(Words, Len(call.got) + 1, Len(Words))'
            <4>1. (k + 1) + 1 = k + 2
                BY <1>7
            <4> QED BY <1>6, <1>14, <1>15, <2>3, <2>4, <4>1
        <3> QED BY <2>3, <2>5, <3>1, <3>2, <3>3 DEF Serving
    <2>7. ~Sniffing'
        <3>1. k + 1 \in Nat /\ k + 1 < Len(w) /\ (k + 1) + 1 = k + 2
            <4>1. Len(w) = l \/ Len(w) = l + 1
                BY <1>4, <1>5, <1>6
            <4> QED BY <1>7, <1>16, <4>1
        <3>2. SubSeq(w, (k + 1) + 1, Len(w)) # <<>>
            BY <1>8, <3>1, NextWord
        <3> QED BY <1>15, <3>1, <3>2 DEF Sniffing
    <2> QED BY <1>1, <1>3, <1>15, <2>1, <2>3, <2>6, <2>7, ServingGoesOn
<1>17. CASE k + 1 = l
    <2>0. ~(k + 1 < l) /\ h = d
        BY <1>7, <1>11, <1>13, <1>17
    <2>1. CASE HasCrc(call.op.cmd, call.op.args)
        <3>1. call' = [call EXCEPT !.got = h, !.pc = "crc"] /\ owed' = owed
            BY <1>5, <1>14, <2>0, <2>1 DEF ReadData
        <3>2. PICK op, n, t, r :
                call = [pc |-> "data", op |-> op, n |-> n, try |-> t, got |-> g, res |-> r]
            BY <1>1, <1>6, CallBefore
        <3>3. /\ call'.op = call.op /\ call'.got = h /\ call'.pc = "crc"
              /\ call' = [pc |-> "crc", op |-> call.op, n |-> call.n, try |-> call.try,
                          got |-> h, res |-> call.res]
            BY <3>1, <3>2
        <3>4. Data' = Data /\ Done' /\ busy' = NoReq
            BY <1>3, <1>15, <3>3, WordsSame DEF Done
        <3>5. answer' = <<<<"crc", Data>>>>
            <4>1. PICK x : x = <<"crc", Data>>
                OBVIOUS
            <4>2. Len(w) = l + 1 /\ w[l + 1] = x
                BY <1>4, <1>5, <1>6, <2>1, <4>1
            <4>3. (k + 1) + 1 = k + 2 /\ k + 1 \in Nat /\ k + 1 < Len(w) /\ (k + 1) + 1 = Len(w)
                BY <1>7, <1>17, <4>2
            <4>4. /\ answer' # <<>> /\ Head(answer') = x /\ Tail(answer') = <<>>
                BY <1>8, <1>15, <1>17, <4>2, <4>3, NextWord
            <4>5. answer' \in Seq(S)
                <5>1. k + 1 \in Nat /\ 1 \in Nat /\ (k + 1) + 1 <= Len(w)
                    BY <1>7, <4>3
                <5>2. SubSeq(w, (k + 1) + 1, (k + 1) + 1) \in Seq(S)
                    BY <1>8, <5>1, SubSeqAt
                <5> QED BY <1>15, <4>3, <5>2
            <4>6. answer' = <<x>>
                <5>1. PICK s \in Seq(S) : s = answer'
                    BY <4>5
                <5>2. s # <<>> /\ Head(s) = x /\ Tail(s) = <<>>
                    BY <4>4, <5>1
                <5>3. Len(Tail(s)) = Len(s) - 1 /\ Head(s) = s[1] /\ Len(s) \in Nat
                    BY <5>1, <5>2, HeadTailProperties
                <5>4. Len(s) = 1 /\ s[1] = x
                    <6>1. Len(<<>>) = 0
                        OBVIOUS
                    <6> QED BY <5>2, <5>3, <6>1
                <5>5. x \in S
                    <6>1. 1 \in 1..Len(s)
                        BY <5>4
                    <6> QED BY <5>1, <5>4, <6>1, ElementOfSeq
                <5>6. <<x>> \in Seq(S) /\ Len(<<x>>) = 1 /\ <<x>>[1] = x
                    BY <5>5
                <5>7. \A i \in 1..Len(s) : s[i] = <<x>>[i]
                    <6>1. \A i \in 1..1 : i = 1
                        OBVIOUS
                    <6> QED BY <5>4, <5>6, <6>1
                <5> QED BY <5>1, <5>4, <5>6, <5>7, SameSeq
            <4> QED BY <4>1, <4>6
        <3>6. Serving'
            BY <1>6, <2>0, <3>3, <3>4, <3>5 DEF Serving
        <3>7. ~Sniffing'
            BY <3>5 DEF Sniffing
        <3> QED BY <1>1, <1>3, <1>15, <3>1, <3>3, <3>6, <3>7, ServingGoesOn
    <2>2. CASE ~HasCrc(call.op.cmd, call.op.args)
        <3>1. Succeed(h)
            BY <1>5, <1>14, <2>0, <2>2 DEF ReadData
        <3>2. answer' = <<>>
            <4>1. k + 1 = Len(w)
                BY <1>4, <1>5, <1>6, <1>17, <2>2
            <4> QED BY <1>10, <1>15, <4>1
        <3> QED BY <1>1, <1>3, <1>6, <2>0, <3>1, <3>2, SucceedStep
    <2> QED BY <2>1, <2>2
<1>18. k + 1 < l \/ k + 1 = l
    BY <1>7
<1> QED BY <1>16, <1>17, <1>18

\* The CRC is that of the words that have been read.
LEMMA ReadCrcStep ==
    ASSUME IInv, ReadCrc
    PROVE  IInv'
<1>1. call.pc = "crc" /\ Peek
    BY DEF ReadCrc
<1>2. ~Sniffing
    BY <1>1 DEF IInv, ListenInv
<1>3. /\ rx = <<>> /\ busy = NoReq /\ Done
      /\ call.got = Data /\ answer = <<<<"crc", Data>>>>
    BY <1>1, <1>2 DEF IInv, AnswerInv, Serving
<1>4. PICK x : x = <<"crc", Data>>
    OBVIOUS
<1>5. answer # <<>> /\ Head(answer) = x /\ Tail(answer) = <<>>
    BY <1>3, <1>4
<1>6. Peeked = <<"crc", call.got>>
    BY <1>3, <1>4, <1>5, Peeks
<1>7. Succeed(call.got) /\ answer' = <<>>
    BY <1>1, <1>5, <1>6 DEF ReadCrc, Peek
<1> QED BY <1>1, <1>3, <1>7, SucceedStep

-----------------------------------------------------------------------------
\* The inductive invariant holds at the start.
LEMMA InitInv == Init => IInv
<1> SUFFICES ASSUME Init PROVE IInv
    OBVIOUS
<1>1. PICK op \in Ops : call = [pc |-> "idle", op |-> op, n |-> 0, try |-> 0, got |-> <<>>,
                                res |-> "none"]
    BY DEF Init, Idle
<1>2. /\ rx = <<>> /\ busy = NoReq /\ answer = <<>> /\ owed = 0
      /\ {hook_off, lock, reboot} \subseteq BOOLEAN
    BY DEF Init
<1>3. settings \in [Keys -> Nat] /\ \A k \in Keys : settings[k] \in 0..Largest(k)
    <2>1. settings = [k \in Keys |-> IF k = AUTOBOOT THEN 1 ELSE IF k = DELAY THEN 10 ELSE 0]
        BY DEF Init
    <2>2. ASSUME NEW k \in Keys PROVE settings[k] \in 0..Largest(k)
        <3>1. CASE k = AUTOBOOT
            <4>1. settings[k] = 1 /\ Largest(k) = 1
                BY <2>1, <3>1 DEF Largest
            <4> QED BY <4>1
        <3>2. CASE k # AUTOBOOT /\ k = DELAY
            <4>1. settings[k] = 10
                BY <2>1, <3>2
            <4>2. Largest(k) = 65535
                BY SMT, <3>2 DEF Largest
            <4> QED BY SMT, <4>1, <4>2
        <3>3. CASE k # AUTOBOOT /\ k # DELAY
            <4>1. settings[k] = 0
                BY <2>1, <3>3
            <4>2. Largest(k) = 255
                BY SMT, <3>3 DEF Largest
            <4> QED BY SMT, <4>1, <4>2
        <3> QED BY <3>1, <3>2, <3>3
    <2>3. settings \in [Keys -> Nat]
        BY <2>1
    <2> QED BY <2>2, <2>3
<1>4. TypeOK /\ CallInv
    <2>1. 0 \in 0..Len(Pokes(op))
        <3>1. Len(Pokes(op)) \in Nat
            BY PokesShape
        <3> QED BY <3>1
    <2>2. 0 \in 0..(op.tries - 1)
        <3>1. PICK k \in Nat : k = op.tries /\ k # 0
            BY OpShape
        <3> QED BY <3>1
    <2>3. rx \in Seq(Octet) /\ owed \in 0..LossCost
        <3>1. <<>> \in Seq(Octet)
            OBVIOUS
        <3> QED BY <1>2, <3>1, OwedIs
    <2> QED BY <1>1, <1>2, <1>3, <2>1, <2>2, <2>3 DEF TypeOK, CallInv
<1>5. ListenInv /\ AnswerInv /\ SuccessIsTrue
    BY <1>1, <1>2 DEF ListenInv, AnswerInv, SuccessIsTrue, Sniffing
<1> QED BY <1>4, <1>5 DEF IInv

\* Every step keeps the inductive invariant.
LEMMA NextInv ==
    ASSUME OneLoss, AllUnmistakable, IInv, LeftInv, [Next]_vars
    PROVE  IInv'
<1>1. ASSUME NEW op \in Ops, StartCall(op) PROVE IInv'
    BY <1>1, StartCallStep
<1>2. CASE Poke
    BY <1>2, PokeStep
<1>3. CASE PokeLost
    BY <1>3, PokeLostStep
<1>4. CASE ReadStatus
    BY <1>4, ReadStatusStep
<1>5. CASE ReadData
    BY <1>5, ReadDataStep
<1>6. CASE ReadCrc
    BY <1>6, ReadCrcStep
<1>7. CASE FinishBusy
    BY <1>7, FinishBusyStep
<1>8. CASE ConsoleReset
    BY <1>8, ResetStep DEF ConsoleReset
<1>9. CASE Restart
    BY <1>9, ResetStep DEF Restart
<1>10. CASE UNCHANGED vars
    BY <1>10, Stutters DEF vars, fw
<1> QED BY <1>1, <1>2, <1>3, <1>4, <1>5, <1>6, <1>7, <1>8, <1>9, <1>10 DEF Next

-----------------------------------------------------------------------------
(***************************************************************************)
(* What a flash command leaves for the next call                           *)
(***************************************************************************)
\* The words before the last one are BUSY: the last one is the same.
LEMMA LastWord ==
    ASSUME NEW m \in Nat, NEW n \in Nat, NEW x, NEW y, x # BUSY, y # BUSY,
           Busys(m) \o <<x>> = Busys(n) \o <<y>>
    PROVE  x = y
<1>1. PICK S : S = {BUSY, x, y}
    OBVIOUS
<1>2. ASSUME NEW k \in Nat, NEW z \in S
      PROVE  /\ Busys(k) \o <<z>> \in Seq(S) /\ Len(Busys(k) \o <<z>>) = k + 1
             /\ (Busys(k) \o <<z>>)[k + 1] = z
    <2>1. Busys(k) \in Seq(S) /\ Len(Busys(k)) = k
        BY <1>1 DEF Busys
    <2>2. <<z>> \in Seq(S) /\ Len(<<z>>) = 1 /\ <<z>>[1] = z /\ 1 \in 1..Len(<<z>>)
        OBVIOUS
    <2> QED BY <2>1, <2>2, Concat2
<1>3. PICK s : s = Busys(m) \o <<x>> /\ s = Busys(n) \o <<y>>
    OBVIOUS
<1>4. Len(s) = m + 1 /\ s[m + 1] = x /\ Len(s) = n + 1 /\ s[n + 1] = y
    BY <1>1, <1>2, <1>3
<1>5. m + 1 = n + 1
    BY <1>4
<1> QED BY <1>4, <1>5

\* Nothing is refused while nothing is sent, while a call is answered, and while a
\* command is executed.
LEMMA NotRefused ==
    ASSUME \/ busy' = NoReq /\ answer' = <<>>
           \/ busy' = NoReq /\ \E n \in 0..MaxBusyLeft : answer' = Busys(n) \o <<OK>>
           \/ answer' # <<>> /\ Head(answer') = OK
           \/ busy' # NoReq /\ (busy'.valid \/ busy'.cmd \notin FlashCmds)
    PROVE  ~Refusal'
<1> SUFFICES ASSUME Refusal' PROVE FALSE
    OBVIOUS
<1>1. CASE answer' = <<>> /\ \E c \in FlashCmds : busy' = [NoReq EXCEPT !.cmd = c]
    <2>1. PICK c \in FlashCmds : busy' = [NoReq EXCEPT !.cmd = c]
        BY <1>1
    <2>2. busy' # NoReq /\ ~busy'.valid /\ busy'.cmd \in FlashCmds
        BY <2>1 DEF NoReq, FlashCmds
    <2>3. \A n \in 0..MaxBusyLeft : Busys(n) \o <<OK>> # <<>>
        BY BusyWords DEF MaxBusyLeft
    <2> QED BY <1>1, <2>2, <2>3
<1>2. CASE busy' = NoReq /\ \E m \in 0..MaxBusyLeft : answer' = Busys(m) \o <<ERR>>
    <2>1. PICK m \in 0..MaxBusyLeft : answer' = Busys(m) \o <<ERR>>
        BY <1>2
    <2>2. m \in Nat
        BY DEF MaxBusyLeft
    <2>3. answer' # <<>>
        BY <2>1, <2>2, BusyWords
    <2>4. Head(answer') # OK
        <3>1. CASE m = 0
            <4>1. answer' = <<ERR>>
                BY <2>1, <2>2, <3>1, BusyWords
            <4>2. Head(<<ERR>>) = ERR
                OBVIOUS
            <4> QED BY <4>1, <4>2, StatusApart
        <3>2. CASE m > 0
            BY <2>1, <2>2, <3>2, BusyWords, StatusApart
        <3> QED BY <2>2, <3>1, <3>2
    <2>5. ~\E n \in 0..MaxBusyLeft : answer' = Busys(n) \o <<OK>>
        <3> SUFFICES ASSUME NEW n \in 0..MaxBusyLeft, answer' = Busys(n) \o <<OK>>
                     PROVE  FALSE
            OBVIOUS
        <3>1. n \in Nat
            BY DEF MaxBusyLeft
        <3>2. OK = ERR
            BY <2>1, <2>2, <3>1, LastWord, StatusApart
        <3> QED BY <3>2, StatusApart
    <2> QED BY <1>2, <2>3, <2>4, <2>5
<1> QED BY <1>1, <1>2 DEF Refusal, Busys, BUSY, ERR

\* A parser that holds a flash command holds the first bytes of no other one.
LEMMA HoldsOne ==
    ASSUME HoldsFlash', NEW c \in Cmds,
           \A i \in 1..4 : i \in DOMAIN rx' => rx'[i] = Code[c][i]
    PROVE  c \in FlashCmds
<1>1. PICK d \in FlashCmds : \A i \in 1..4 : i \in DOMAIN rx' /\ rx'[i] = Code[d][i]
    BY DEF HoldsFlash
<1>2. d \in Cmds
    BY DEF FlashCmds, Cmds, Code
<1>3. 3 \in 1..4
    OBVIOUS
<1>4. Code[c][3] = Code[d][3]
    BY <1>1, <1>3
<1>5. CmdOf(Code[c][3]) = c /\ CmdOf(Code[d][3]) = d
    BY <1>2, CodeShape
<1> QED BY <1>4, <1>5

\* An idle parser holds nothing.
LEMMA HoldsNothing ==
    ASSUME rx' = <<>>
    PROVE  ~HoldsFlash'
<1>1. 1 \in 1..4 /\ 1 \notin DOMAIN rx'
    OBVIOUS
<1> QED BY <1>1 DEF HoldsFlash

\* When nothing is owed and no call is made, nothing at all is left.
LEMMA IdleClean ==
    ASSUME IInv', call'.pc = "idle", owed' = 0
    PROVE  LeftInv'
<1>1. Sniffing' /\ rx' = <<>>
    <2>1. ~(owed' > 0)
        OBVIOUS
    <2> QED BY <2>1 DEF IInv, ListenInv, AnswerInv, Serving
<1>2. busy' = NoReq /\ answer' = <<>>
    BY <1>1 DEF Sniffing, NoReq
<1>3. ~HoldsFlash' /\ ~Refusal'
    BY <1>1, <1>2, HoldsNothing, NotRefused
<1> QED BY <1>3 DEF LeftInv, ERR

\* Nothing changes that is left.
LEMMA LeftSame ==
    ASSUME LeftInv, UNCHANGED <<rx, busy, answer, flash_failed>>,
           \/ call.pc = "idle"
           \/ /\ call.pc \in {"poke", "status"}
              /\ call'.pc \in {"poke", "status"} /\ call'.op = call.op
    PROVE  LeftInv'
<1>1. (HoldsFlash' <=> HoldsFlash) /\ (Refusal' <=> Refusal)
    BY DEF HoldsFlash, Refusal
<1> QED BY <1>1 DEF LeftInv, ERR

\* A flash command has arguments.
LEMMA FlashBytes ==
    ASSUME NEW c \in FlashCmds
    PROVE  c \in Cmds /\ ArgBytes(c) \in Nat /\ ArgBytes(c) > 0
<1>1. c \in Cmds
    BY DEF FlashCmds, Cmds, Code
<1>2. PICK ws : ws = Widths(c) /\ ws = <<1, 4, 4>>
    BY DEF FlashCmds, Widths
<1>3. ArgBytes(c) = At(c, 5) - 4 + (IF c = "WRITE_FLASH_SECTOR" THEN SectorBytes ELSE 0)
      /\ ArgBytes(c) \in Nat /\ (\A i \in 1..5 : At(c, i) \in Nat)
    BY <1>1, AtStep, OpsAssumption
<1>4. Len(ws) = 3 /\ ws[1] = 1 /\ ws[2] = 4 /\ ws[3] = 4
    BY <1>2
<1>5. /\ At(c, 1) = 4
      /\ At(c, 2) = At(c, 1) + 2 * (IF 1 <= Len(ws) THEN ws[1] ELSE 0)
      /\ At(c, 3) = At(c, 2) + 2 * (IF 2 <= Len(ws) THEN ws[2] ELSE 0)
      /\ At(c, 4) = At(c, 3) + 2 * (IF 3 <= Len(ws) THEN ws[3] ELSE 0)
      /\ At(c, 5) = At(c, 4) + 2 * (IF 4 <= Len(ws) THEN ws[4] ELSE 0)
    <2>1. \A i \in 1..4 : At(c, i + 1) = At(c, i)
                                 + 2 * (IF i <= Len(ws) THEN ws[i] ELSE 0)
        BY <1>1, <1>2, AtStep
    <2>2. At(c, 1) = 4
        BY <1>1, AtStep
    <2>3. 1 \in 1..4 /\ 2 \in 1..4 /\ 3 \in 1..4 /\ 4 \in 1..4
          /\ 1 + 1 = 2 /\ 2 + 1 = 3 /\ 3 + 1 = 4 /\ 4 + 1 = 5
        OBVIOUS
    <2> QED BY <2>1, <2>2, <2>3
<1>6. At(c, 5) = 22
    BY <1>4, <1>5
<1>7. (IF c = "WRITE_FLASH_SECTOR" THEN SectorBytes ELSE 0) \in Nat
    BY OpsAssumption
<1> QED BY <1>1, <1>3, <1>6, <1>7

\* A byte completes a flash command only if the parser holds it.
LEMMA CompletesFlash ==
    ASSUME rx \in Seq(Octet), NEW b \in Octet, NEW c \in FlashCmds,
           c \in Matching(Append(rx, b)), Len(Append(rx, b)) = 4 + ArgBytes(c)
    PROVE  HoldsFlash
<1>1. PICK l \in Nat : l = Len(rx)
    OBVIOUS
<1>2. PICK bs \in Seq(Octet) : bs = Append(rx, b) /\ Len(bs) = l + 1
                               /\ \A i \in 1..l : bs[i] = rx[i]
    <2>1. PICK s \in Seq(Octet) : s = rx /\ Len(s) = l
        BY <1>1
    <2>2. /\ Append(s, b) \in Seq(Octet) /\ Len(Append(s, b)) = l + 1
          /\ \A i \in 1..l : Append(s, b)[i] = s[i]
        BY <2>1, AppendProperties
    <2> QED BY <2>1, <2>2
<1>3. l >= 4
    BY <1>2, FlashBytes
<1>4. \A i \in 1..4 : i \in 1..l /\ i \in DOMAIN bs /\ i \in DOMAIN rx
    BY <1>1, <1>2, <1>3
<1>5. \A i \in 1..4 : bs[i] = Code[c][i]
    BY <1>2, <1>4 DEF Matching
<1> QED BY <1>2, <1>4, <1>5 DEF HoldsFlash

\* While a call of another kind is poked, the parser does not come to hold a flash
\* command.
LEMMA OnwardLeft ==
    ASSUME NEW op \in Ops, NEW n \in Nat, n < Len(Pokes(op)), Onward(op, n),
           op.cmd \notin FlashCmds
    PROVE  ~HoldsFlash'
<1> SUFFICES ASSUME HoldsFlash' PROVE FALSE
    OBVIOUS
<1>1. PICK l \in Nat : l = Len(Pokes(op)) /\ l >= 4 /\ n < l
    <2>1. Len(Pokes(op)) = 4 + ArgBytes(op.cmd) /\ ArgBytes(op.cmd) \in Nat
        BY OpShape, PokesShape, AtStep
    <2> QED BY <2>1
<1>2. op.cmd \in Cmds /\ \A i \in 1..4 : Pokes(op)[i] = Code[op.cmd][i]
    BY OpShape, PokesShape
<1>3. \A i \in 1..4 : i \in DOMAIN rx'
    BY DEF HoldsFlash
<1>4. rx' # <<>>
    BY HoldsNothing
<1>5. ~\A i \in 1..4 : rx'[i] = Pokes(op)[i]
    <2> SUFFICES ASSUME \A i \in 1..4 : rx'[i] = Pokes(op)[i] PROVE FALSE
        OBVIOUS
    <2>1. \A i \in 1..4 : i \in DOMAIN rx' => rx'[i] = Code[op.cmd][i]
        BY <1>2
    <2> QED BY <1>2, <2>1, HoldsOne
<1>6. CASE n + 1 < l /\ rx' = SubSeq(Pokes(op), 1, n + 1)
    <2>1. n + 1 \in 0..Len(Pokes(op))
        BY <1>1, <1>6
    <2>2. /\ rx' \in Seq(Octet) /\ Len(rx') = n + 1
          /\ \A i \in 1..(n + 1) : rx'[i] = Pokes(op)[i]
        BY <1>6, <2>1, FirstBytes
    <2>3. \A i \in 1..4 : i \in 1..(n + 1)
        BY <1>3, <2>2
    <2> QED BY <1>5, <2>2, <2>3
<1>7. CASE Misses(op, n + 1)'
    <2>1. PICK k \in 1..(n + 1) : (k <= 4 => n + 1 = k) /\ rx' = Without(op, k, n + 1)
        BY <1>7 DEF Misses, Without
    <2>2. n + 1 \in 1..Len(Pokes(op)) /\ (n + 1) - 1 = n
        BY <1>1
    <2>3. /\ rx' \in Seq(Octet) /\ Len(rx') = n
          /\ \A i \in 1..n : i < k => rx'[i] = Pokes(op)[i]
        BY <2>1, <2>2, WithoutShape
    <2>4. \A i \in 1..4 : i \in 1..n
        BY <1>3, <2>3
    <2>5. 4 \in 1..n
        BY <2>4
    <2>6. ~(k <= 4)
        BY <2>1, <2>5
    <2>7. \A i \in 1..4 : i < k
        BY <2>6
    <2> QED BY <1>5, <2>3, <2>4, <2>7
<1>8. CASE n + 1 < l /\ Dropped(op, n + 1)'
    <2>1. PICK m \in 2..(n + 1) :
             n + 1 < m + 3 /\ rx' = SubSeq(Pokes(op), m, n + 1)
        BY <1>4, <1>8 DEF Dropped
    <2>2. PICK p \in Seq(Octet) : p = Pokes(op) /\ Len(p) = l
        BY <1>1, PokesShape
    <2>3. n + 1 \in Nat /\ n + 1 <= l /\ m \in 1..((n + 1) + 1)
        BY <1>1
    <2>4. rx' \in Seq(Octet) /\ Len(rx') = (n + 1) + 1 - m
        BY <2>1, <2>2, <2>3, FromShape
    <2>5. 4 \in DOMAIN rx'
        BY <1>3
    <2>6. 4 <= (n + 1) + 1 - m
        BY <2>4, <2>5
    <2> QED BY <2>1, <2>6
<1> QED BY <1>1, <1>4, <1>6, <1>7, <1>8 DEF Onward

\* A poke leaves nothing more behind.
LEMMA LeftPoke ==
    ASSUME AllUnmistakable, IInv, LeftInv, Poke
    PROVE  LeftInv'
<1>1. PICK op \in Ops, n \in {call.n}, t \in {call.try}, r \in {call.res} :
         /\ call = [pc |-> "poke", op |-> op, n |-> n, try |-> t, got |-> <<>>, res |-> r]
         /\ n \in 0..Len(Pokes(op)) /\ n < Len(Pokes(op))
    BY CallBefore DEF Poke
<1>2. /\ call'.pc \in {"poke", "status"} /\ call'.op = op /\ flash_failed' = flash_failed
      /\ call.pc = "poke" /\ call.op = op
    <2>1. flash_failed' = flash_failed /\ Poked
        BY DEF Poke
    <2>2. CASE n + 1 < Len(Pokes(op))
        BY <1>1, <2>1, <2>2 DEF Poked
    <2>3. CASE ~(n + 1 < Len(Pokes(op)))
        BY <1>1, <2>1, <2>3 DEF Poked
    <2> QED BY <1>1, <2>1, <2>2, <2>3
<1>3. CASE ~Sniffing
    <2>1. UNCHANGED <<rx, busy, answer>>
        BY <1>3 DEF Poke, fw
    <2> QED BY <1>2, <2>1, LeftSame
<1>4. CASE Sniffing
    <2> SUFFICES ASSUME ~flash_failed, op.cmd \notin FlashCmds
                 PROVE  ~HoldsFlash' /\ (Refusal' => answer' = <<ERR>>)
        BY <1>2 DEF LeftInv, ERR
    <2>1. ~HoldsFlash
        BY <1>2 DEF LeftInv
    <2>2. busy = NoReq /\ answer = <<>> /\ Receive(Pokes(op)[n + 1])
        BY <1>1, <1>4 DEF Poke, Sniffing, NextByte
    <2>3. hook_off \in BOOLEAN /\ reboot \in BOOLEAN /\ rx \in Seq(Octet)
        BY CallBefore
    <2>4. Parsing
        BY <1>1, <1>4 DEF IInv, ListenInv
    <2>5. \/ rx = SubSeq(Pokes(op), 1, n)
          \/ /\ owed > 0
             /\ IF n = 0 THEN Awaits
                ELSE (owed = LossCost /\ Misses(op, n)) \/ Dropped(op, n)
        BY <1>1, <2>4 DEF Parsing
    <2>6. PICK l \in Nat : l = Len(Pokes(op)) /\ n \in Nat /\ n < l
        <3>1. Len(Pokes(op)) \in Nat
            BY PokesShape
        <3> QED BY <1>1, <3>1
    <2>7. Onward(op, n) \/ Refuses \/ Execute(op.cmd, Pokes(op))
        BY <1>1, <2>2, <2>3, <2>5, <2>6, PokeSeen
    <2>8. CASE Onward(op, n)
        <3>1. busy' = NoReq /\ answer' = <<>>
            BY <2>2, <2>8 DEF Onward, NoReq
        <3> QED BY <1>1, <2>6, <2>8, <3>1, NotRefused, OnwardLeft
    <2>9. CASE Refuses
        <3>1. rx' = <<>>
            BY <2>9 DEF Refuses
        <3>2. answer' = <<ERR>>
            <4> SUFFICES ASSUME NEW c \in FlashCmds, busy' = [NoReq EXCEPT !.cmd = c]
                         PROVE  FALSE
                BY <2>9 DEF Refuses
            <4>1. busy'.cmd = c /\ busy' # busy
                BY <2>2 DEF NoReq, FlashCmds
            <4>2. PICK b \in Octet : b = Pokes(op)[n + 1]
                <5>1. n + 1 \in 1..Len(Pokes(op))
                    BY <2>6
                <5> QED BY <5>1, PokesShape, ElementOfSeq
            <4>3. PICK d \in Matching(Append(rx, b)) :
                     Len(Append(rx, b)) = 4 + ArgBytes(d) /\ Execute(d, Append(rx, b))
                BY <2>2, <4>1, <4>2 DEF Receive
            <4>4. d = c
                <5>1. PICK bs : bs = Append(rx, b) /\ Execute(d, bs)
                    BY <4>3
                <5>2. CASE Slow(d, bs)
                    <6>1. busy'.cmd = d
                        BY <5>1, <5>2 DEF Execute, NoReq
                    <6> QED BY <4>1, <6>1
                <5>3. CASE ~Slow(d, bs)
                    <6>1. busy' = busy
                        BY <5>1, <5>3 DEF Execute
                    <6> QED BY <4>1, <6>1
                <5> QED BY <5>2, <5>3
            <4> QED BY <2>1, <2>3, <4>3, <4>4, CompletesFlash
        <3> QED BY <3>1, <3>2, HoldsNothing
    <2>10. CASE Execute(op.cmd, Pokes(op))
        <3>1. /\ rx' = <<>>
              /\ \/ answer' = <<>> /\ busy'.cmd = op.cmd
                 \/ busy' = NoReq /\ answer' = Reply(op.cmd, op.args)
                 \/ answer' = <<ERR>>
            BY <2>2, <2>10, ExecuteAsked DEF NoReq
        <3>2. CASE answer' = <<>> /\ busy'.cmd = op.cmd
            <4>1. op.cmd # "none"
                BY OpShape DEF Cmds, Code
            <4>2. busy' # NoReq
                BY <3>2, <4>1 DEF NoReq
            <4> QED BY <3>1, <3>2, <4>2, NotRefused, HoldsNothing
        <3>3. CASE answer' = Reply(op.cmd, op.args)
            <4>1. answer' = <<OK>> \o Words
                BY <1>2, <3>3, ReplyIs
            <4>2. PICK S : OK \in S /\ Words \in Seq(S)
                BY <1>2, WordsShape
            <4>3. answer' # <<>> /\ Head(answer') = OK
                BY <4>1, <4>2, FirstWord
            <4> QED BY <3>1, <4>3, NotRefused, HoldsNothing
        <3> QED BY <3>1, <3>2, <3>3, HoldsNothing
    <2> QED BY <2>7, <2>8, <2>9, <2>10
<1> QED BY <1>3, <1>4

\* Nor does a word that is read.
LEMMA LeftRead ==
    ASSUME IInv, IInv', LeftInv, ReadStatus
    PROVE  LeftInv'
<1>1. call.pc = "status" /\ Peek
    BY DEF ReadStatus
<1>2. /\ UNCHANGED <<rx, busy>>
      /\ answer' = IF answer # <<>> THEN Tail(answer) ELSE answer
    BY <1>1 DEF Peek
<1>3. HoldsFlash' <=> HoldsFlash
    BY <1>2 DEF HoldsFlash
<1>4. CASE Peeked = OK
    <2>1. StatusOK
        BY <1>4, StatusApart DEF ReadStatus
    <2>2. \/ call'.pc \in {"data", "crc"}
          \/ call'.pc = "idle" /\ owed' = 0
        <3>1. PICK op, n, t, g, r :
                call = [pc |-> "status", op |-> op, n |-> n, try |-> t, got |-> g, res |-> r]
            BY <1>1, CallBefore
        <3> QED BY <2>1, <3>1 DEF StatusOK, Succeed, Idle
    <2> QED BY <2>2, IdleClean DEF LeftInv
<1>5. CASE Peeked # OK /\ ~Fail
    <2>1. /\ UNCHANGED <<call, flash_failed>> /\ Peeked = BUSY
          /\ call.op.cmd \in SlowCmds
        BY <1>5 DEF ReadStatus, SlowCmds
    <2> SUFFICES ASSUME ~flash_failed, call.op.cmd \notin FlashCmds
                 PROVE  ~HoldsFlash' /\ (Refusal' => answer' = <<ERR>>)
        BY <1>1, <2>1 DEF LeftInv, ERR
    <2>2. ~HoldsFlash /\ (Refusal => answer = <<ERR>>)
        BY <1>1 DEF LeftInv
    <2>3. ~Sniffing
        BY <2>1, Peeks, StatusApart DEF Sniffing
    <2>4. answer # <<ERR>>
        <3> SUFFICES ASSUME answer = <<ERR>> PROVE FALSE
            OBVIOUS
        <3>1. busy = NoReq /\ answer # <<>>
            BY BusyIsAsked, StatusApart
        <3> QED BY <2>1, <3>1, Peeks, StatusApart
    <2>5. Serving
        BY <2>2, <2>3, <2>4 DEF IInv, AnswerInv
    <2>6. CASE busy = AskedBusy
        <3>1. busy' # NoReq /\ busy'.valid
            BY <1>2, <2>6 DEF AskedBusy, NoReq
        <3> QED BY <1>3, <2>2, <3>1, NotRefused
    <2>7. CASE busy = NoReq /\ \E m \in 0..MaxBusyLeft : answer = Busys(m) \o <<OK>>
        <3>1. PICK m \in 0..MaxBusyLeft : answer = Busys(m) \o <<OK>>
            BY <2>7
        <3>2. m \in Nat /\ answer # <<>>
            BY <3>1, BusyWords DEF MaxBusyLeft
        <3>3. m # 0
            <4> SUFFICES ASSUME m = 0 PROVE FALSE
                OBVIOUS
            <4>1. answer = <<OK>>
                BY <3>1, BusyWords
            <4> QED BY <2>1, <2>7, <3>2, <4>1, Peeks, StatusApart
        <3>4. answer' = Busys(m - 1) \o <<OK>> /\ m - 1 \in 0..MaxBusyLeft
            <4>1. m > 0 /\ m - 1 \in 0..MaxBusyLeft
                BY <3>2, <3>3 DEF MaxBusyLeft
            <4>2. answer' = Tail(answer)
                BY <1>2, <3>2
            <4> QED BY <3>1, <3>2, <4>1, <4>2, BusyWords
        <3>5. busy' = NoReq
            BY <1>2, <2>7 DEF NoReq
        <3> QED BY <1>3, <2>2, <3>4, <3>5, NotRefused
    <2> QED BY <1>1, <2>1, <2>5, <2>6, <2>7 DEF Serving
<1>6. CASE Peeked # OK /\ Fail
    <2> SUFFICES ASSUME ~flash_failed',
                        \/ call'.pc = "idle"
                        \/ call'.op.cmd \notin FlashCmds
                 PROVE  ~HoldsFlash' /\ (Refusal' => answer' = <<ERR>>)
        BY DEF LeftInv, ERR
    <2>1. call'.op = call.op
        <3>1. PICK op, n, t, g, r :
                call = [pc |-> "status", op |-> op, n |-> n, try |-> t, got |-> g, res |-> r]
            BY <1>1, CallBefore
        <3> QED BY <1>6, <3>1 DEF Fail, Idle
    <2>2. ~flash_failed /\ call.op.cmd \notin FlashCmds
        BY <1>6, <2>1 DEF Fail
    <2>3. ~HoldsFlash /\ (Refusal => answer = <<ERR>>)
        BY <1>1, <2>2 DEF LeftInv
    <2>4. busy' = NoReq /\ answer' = <<>>
        <3>1. CASE Sniffing
            BY <1>2, <3>1 DEF Sniffing, NoReq
        <3>2. CASE ~Sniffing /\ Refusal
            <4>1. answer = <<ERR>> /\ Tail(<<ERR>>) = <<>>
                BY <2>3, <3>2
            <4>2. busy = NoReq
                BY <3>2, <4>1, StatusApart DEF Refusal
            <4> QED BY <1>2, <4>1, <4>2, StatusApart DEF NoReq
        <3>3. CASE Serving
            <4>1. call.op.cmd \in SlowCmds /\ Peeked = BUSY
                <5>1. CASE call.op.cmd \in SlowCmds /\ busy = AskedBusy
                    <6>1. busy # NoReq
                        BY <5>1 DEF AskedBusy, NoReq
                    <6> QED BY <5>1, <6>1, Peeks
                <5>2. CASE /\ call.op.cmd \in SlowCmds /\ busy = NoReq
                           /\ \E m \in 0..MaxBusyLeft : answer = Busys(m) \o <<OK>>
                    <6>1. PICK m \in 0..MaxBusyLeft : answer = Busys(m) \o <<OK>>
                        BY <5>2
                    <6>2. m \in Nat /\ answer # <<>>
                        BY <6>1, BusyWords DEF MaxBusyLeft
                    <6>3. m # 0
                        <7> SUFFICES ASSUME m = 0 PROVE FALSE
                            OBVIOUS
                        <7>1. answer = <<OK>> /\ Head(<<OK>>) = OK
                            BY <6>1, BusyWords
                        <7> QED BY <1>6, <5>2, <6>2, <7>1, Peeks
                    <6> QED BY <5>2, <6>1, <6>2, <6>3, BusyWords, Peeks
                <5>3. CASE busy = NoReq /\ answer = <<OK>> \o Words
                    <6>1. call.op \in Ops
                        BY CallBefore
                    <6>2. PICK S : OK \in S /\ Words \in Seq(S)
                        BY <6>1, WordsShape
                    <6> QED BY <1>6, <5>3, <6>2, FirstWord, Peeks
                <5> QED BY <1>1, <3>3, <5>1, <5>2, <5>3 DEF Serving
            <4>2. ~Fail
                <5>1. UNCHANGED call
                    BY <4>1, StatusApart, <1>1 DEF ReadStatus, SlowCmds
                <5>2. call.pc = "status" /\ call'.pc # "status"
                    BY <1>1, <1>6 DEF Fail, Idle
                <5> QED BY <5>1, <5>2
            <4> QED BY <1>6, <4>2
        <3> QED BY <3>1, <3>2, <3>3 DEF IInv, AnswerInv
    <2> QED BY <1>3, <2>3, <2>4, NotRefused
<1> QED BY <1>4, <1>5, <1>6

\* Every step keeps what a flash command may leave.
LEMMA LeftNext ==
    ASSUME OneLoss, AllUnmistakable, IInv, LeftInv, [Next]_vars
    PROVE  LeftInv'
<1>0. IInv'
    BY NextInv
<1>1. ASSUME NEW op \in Ops, StartCall(op) PROVE LeftInv'
    BY <1>1, LeftSame DEF StartCall, fw
<1>2. CASE Poke
    BY <1>2, LeftPoke
<1>3. CASE PokeLost
    <2>1. call.pc = "poke" /\ UNCHANGED <<rx, busy, answer, flash_failed>> /\ Poked
        BY <1>3 DEF PokeLost, fw
    <2>2. call'.pc \in {"poke", "status"} /\ call'.op = call.op
        <3>1. PICK op, n, t, g, r :
                call = [pc |-> "poke", op |-> op, n |-> n, try |-> t, got |-> g, res |-> r]
            BY <2>1, CallBefore
        <3> QED BY <2>1, <3>1 DEF Poked
    <2> QED BY <2>1, <2>2, LeftSame
<1>4. CASE ReadStatus
    BY <1>0, <1>4, LeftRead
<1>5. CASE ReadData
    <2>1. call.pc = "data"
        BY <1>5 DEF ReadData
    <2>2. call'.pc \in {"data", "crc"} \/ (call'.pc = "idle" /\ owed' = 0)
        <3>1. PICK op, n, t, g, r :
                call = [pc |-> "data", op |-> op, n |-> n, try |-> t, got |-> g, res |-> r]
            BY <2>1, CallBefore
        <3>2. PICK h, c : h = Append(call.got, Peeked)
                          /\ (c <=> (Len(h) < DataWords(call.op.cmd, call.op.args)))
            OBVIOUS
        <3>3. \/ call' = [call EXCEPT !.got = h, !.pc = IF c THEN "data" ELSE "crc"]
              \/ Succeed(h)
            BY <1>5, <3>2 DEF ReadData
        <3>4. Succeed(h) => call'.pc = "idle" /\ owed' = 0
            BY DEF Succeed, Idle
        <3> QED BY <3>1, <3>3, <3>4
    <2> QED BY <1>0, <2>2, IdleClean DEF LeftInv
<1>6. CASE ReadCrc
    <2>1. call.pc = "crc"
        BY <1>6 DEF ReadCrc
    <2>2. busy = NoReq /\ call.got = Data /\ answer = <<<<"crc", Data>>>>
        BY <2>1 DEF IInv, ListenInv, AnswerInv, Serving
    <2>3. PICK x : x = <<"crc", Data>>
        OBVIOUS
    <2>4. answer # <<>> /\ Head(answer) = x
        BY <2>2, <2>3
    <2>5. Peeked = <<"crc", call.got>>
        BY <2>2, <2>3, <2>4, Peeks
    <2>6. call'.pc = "idle" /\ owed' = 0
        BY <1>6, <2>5 DEF ReadCrc, Succeed, Idle
    <2> QED BY <1>0, <2>6, IdleClean
<1>7. CASE FinishBusy
    <2>1. /\ busy # NoReq /\ busy' = NoReq
          /\ UNCHANGED <<rx, call, flash_failed>>
        BY <1>7 DEF FinishBusy
    <2>2. HoldsFlash' <=> HoldsFlash
        BY <2>1 DEF HoldsFlash
    <2> SUFFICES ASSUME ~flash_failed,
                        \/ call.pc = "idle"
                        \/ /\ call.pc \in {"poke", "status"}
                           /\ call.op.cmd \notin FlashCmds
                 PROVE  ~HoldsFlash' /\ (Refusal' => answer' = <<ERR>>)
        BY <2>1 DEF LeftInv, ERR
    <2>3. ~HoldsFlash /\ (Refusal => answer = <<ERR>>)
        BY DEF LeftInv
    <2>4. answer = <<>>
        BY <2>1, BusyIsAsked
    <2>5. busy.valid
        <3>1. ~Refusal
            BY <2>3, <2>4, StatusApart
        <3>2. ~\E c \in FlashCmds : busy = [NoReq EXCEPT !.cmd = c]
            BY <2>4, <3>1 DEF Refusal
        <3>3. busy = AskedBusy
            BY <2>1, <3>2, BusyIsAsked
        <3> QED BY <3>3 DEF AskedBusy
    <2>6. \E n \in 0..MaxBusyLeft : answer' = Busys(n) \o <<OK>>
        BY <1>7, <2>5 DEF FinishBusy, Busys
    <2> QED BY <2>1, <2>2, <2>3, <2>6, NotRefused
<1>8. CASE ConsoleReset \/ Restart
    <2>1. call'.pc = "idle" /\ owed' = 0
        BY <1>8 DEF ConsoleReset, Restart, Idle
    <2> QED BY <1>0, <2>1, IdleClean
<1>9. CASE UNCHANGED vars
    <2>1. UNCHANGED <<rx, busy, answer, call, flash_failed>>
        BY <1>9 DEF vars, fw
    <2>2. (HoldsFlash' <=> HoldsFlash) /\ (Refusal' <=> Refusal)
        BY <2>1 DEF HoldsFlash, Refusal
    <2> QED BY <2>1, <2>2 DEF LeftInv, ERR
<1> QED BY <1>1, <1>2, <1>3, <1>4, <1>5, <1>6, <1>7, <1>8, <1>9 DEF Next

\* Whatever byte is lost, the parser holds the bytes of the call so far, the same without
\* one, or what is left of an earlier attempt, and it answers the call or refuses one; a
\* flash command is left for a call of another kind only if it has failed altogether.
THEOREM Inductive ==
    ASSUME OneLoss, AllUnmistakable
    PROVE  Spec => [](IInv /\ LeftInv)
<1>1. Init => IInv
    BY InitInv
<1>2. Init => LeftInv
    <2> SUFFICES ASSUME Init PROVE ~HoldsFlash /\ ~Refusal
        BY DEF LeftInv
    <2>1. rx = <<>> /\ busy = NoReq /\ answer = <<>>
        BY DEF Init
    <2>2. 1 \in 1..4 /\ 1 \notin DOMAIN rx
        BY <2>1
    <2>3. ~HoldsFlash
        BY <2>2 DEF HoldsFlash
    <2>4. \A c \in FlashCmds : NoReq # [NoReq EXCEPT !.cmd = c]
        BY DEF NoReq, FlashCmds
    <2>5. \A m \in 0..MaxBusyLeft : Busys(m) \o <<ERR>> # <<>>
        BY BusyWords DEF MaxBusyLeft
    <2> QED BY <2>1, <2>3, <2>4, <2>5 DEF Refusal
<1>3. IInv /\ LeftInv /\ [Next]_vars => IInv' /\ LeftInv'
    BY NextInv, LeftNext
<1> QED BY <1>1, <1>2, <1>3, PTL DEF Spec

\* The types hold, the parser is idle while the chip answers, and when an attempt starts
\* nothing is left to be read but the refusal of a flash command.
THEOREM ParserIsClean ==
    ASSUME OneLoss, AllUnmistakable
    PROVE  Spec => []ParserInv
<1>1. IInv => ParserInv
    <2> SUFFICES ASSUME IInv PROVE ParserInv
        OBVIOUS
    <2>1. TypeOK
        BY DEF IInv
    <2>2. ASSUME call.pc = "idle" \/ (call.pc = "poke" /\ call.n = 0)
          PROVE  ~busy.valid /\ \A i \in DOMAIN answer : answer[i] \in {BUSY, ERR}
        <3>1. ~busy.valid
            <4>1. CASE busy = NoReq
                BY <4>1 DEF NoReq
            <4>2. CASE busy # NoReq
                BY <2>2, <4>2, BusyIsAsked
            <4> QED BY <4>1, <4>2
        <3>2. answer = <<>> \/ Refusal
            BY <2>2 DEF IInv, AnswerInv, Serving, Sniffing
        <3>3. CASE answer = <<>>
            BY <3>1, <3>3
        <3>4. CASE answer # <<>>
            <4>1. PICK m \in 0..MaxBusyLeft : answer = Busys(m) \o <<ERR>>
                BY <3>2, <3>4 DEF Refusal
            <4>2. m \in Nat
                BY DEF MaxBusyLeft
            <4>3. PICK S : S = {BUSY, ERR}
                OBVIOUS
            <4>4. Busys(m) \in Seq(S) /\ <<ERR>> \in Seq(S)
                BY <4>2, <4>3 DEF Busys
            <4>5. answer \in Seq(S)
                BY <4>1, <4>4, Concat2
            <4>6. \A i \in DOMAIN answer : answer[i] \in S
                <5> TAKE i \in DOMAIN answer
                <5>1. i \in 1..Len(answer)
                    BY <4>5
                <5> QED BY <4>5, <5>1, ElementOfSeq
            <4> QED BY <3>1, <4>3, <4>6
        <3> QED BY <3>3, <3>4
    <2>3. OnlyRefusalsLeft
        BY <2>2 DEF OnlyRefusalsLeft
    <2> QED BY <2>1, <2>3 DEF ParserInv
<1> QED BY <1>1, Inductive, PTL

\* Since the last successful call, at most two attempts have failed for every byte that was
\* lost, not counting those the firmware refuses and those that, after a flash command has
\* failed in all its attempts, read one of the BUSY words of its refusal.
THEOREM LossIsBounded ==
    ASSUME OneLoss, AllUnmistakable
    PROVE  Spec => []EveryFailureExcused
<1>1. IInv => EveryFailureExcused
    <2> SUFFICES ASSUME IInv PROVE owed >= 0
        BY DEF EveryFailureExcused
    <2>1. owed \in 0..2
        BY CallBefore, OwedIs
    <2> QED BY <2>1
<1> QED BY <1>1, Inductive, PTL

\* A call that returns success has done what it was for, and has read the data it asked for.
THEOREM SuccessIsReal ==
    ASSUME OneLoss, AllUnmistakable
    PROVE  Spec => []SuccessIsTrue
<1>1. IInv => SuccessIsTrue
    BY DEF IInv
<1> QED BY <1>1, Inductive, PTL

Asked ==
    /\ busy' # busy /\ busy'.valid => busy' = AskedBusy
    /\ answer = <<>> /\ busy = NoReq /\ answer' \notin {<<>>, <<ERR>>}
          => answer' = Reply(call.op.cmd, call.op.args)
    /\ hook_off' /\ ~hook_off => call.op.cmd = "DISABLE_NEXT_OSDSYS_HOOK"
    /\ lock # lock' =>
          \/ call.op.cmd = "WRITE_LOCK" /\ lock' = (call.op.args[1] # 0)
          \/ call'.pc = "idle"
    /\ reboot' /\ ~reboot => call.op.cmd = "REBOOT"

\* A byte makes the firmware execute nothing but the call it belongs to.
LEMMA PokeAsked ==
    ASSUME AllUnmistakable, IInv, Poke
    PROVE  Asked
<1>1. PICK op \in Ops, n \in {call.n}, t \in {call.try}, r \in {call.res} :
         /\ call = [pc |-> "poke", op |-> op, n |-> n, try |-> t, got |-> <<>>, res |-> r]
         /\ n \in 0..Len(Pokes(op)) /\ n < Len(Pokes(op))
    BY CallBefore DEF Poke
<1>2. CASE ~Sniffing
    <2>1. UNCHANGED <<busy, answer, hook_off, lock, reboot>>
        BY <1>2 DEF Poke, fw
    <2> QED BY <2>1 DEF Asked
<1>3. CASE Sniffing
    <2>1. busy = NoReq /\ answer = <<>> /\ Receive(Pokes(op)[n + 1])
        BY <1>1, <1>3 DEF Poke, Sniffing, NextByte
    <2>2. hook_off \in BOOLEAN /\ reboot \in BOOLEAN
        BY CallBefore
    <2>3. Parsing
        BY <1>1, <1>3 DEF IInv, ListenInv
    <2>4. \/ rx = SubSeq(Pokes(op), 1, n)
          \/ /\ owed > 0
             /\ IF n = 0 THEN Awaits
                ELSE (owed = LossCost /\ Misses(op, n)) \/ Dropped(op, n)
        BY <1>1, <2>3 DEF Parsing
    <2>5. n \in Nat
        BY <1>1
    <2>6. Onward(op, n) \/ Refuses \/ Execute(op.cmd, Pokes(op))
        BY <1>1, <2>1, <2>2, <2>4, <2>5, PokeSeen
    <2>7. CASE Onward(op, n)
        <3>1. UNCHANGED <<busy, answer, hook_off, lock, reboot>>
            BY <2>7 DEF Onward
        <3> QED BY <2>1, <3>1 DEF Asked
    <2>8. CASE Refuses
        <3>1. UNCHANGED <<hook_off, lock, reboot>>
            BY <2>8 DEF Refuses
        <3>2. \/ busy' = busy /\ answer' = <<ERR>>
              \/ answer' = <<>> /\ ~busy'.valid
            BY <2>1, <2>8 DEF Refuses, NoReq
        <3> QED BY <3>1, <3>2 DEF Asked
    <2>9. CASE Execute(op.cmd, Pokes(op))
        <3>1. op = call.op
            BY <1>1
        <3>2. /\ hook_off' = (hook_off \/ op.cmd = "DISABLE_NEXT_OSDSYS_HOOK")
              /\ lock' = IF op.cmd = "WRITE_LOCK" THEN op.args[1] # 0 ELSE lock
              /\ reboot' = (reboot \/ (op.cmd = "REBOOT" /\ InRange(op.cmd, op.args)))
              /\ \/ /\ answer' = <<>>
                    /\ busy' = [cmd |-> op.cmd, args |-> op.args, data |-> op.data,
                                valid |-> TRUE]
                 \/ busy' = NoReq /\ answer' = Reply(op.cmd, op.args)
                 \/ answer' = <<>> /\ busy' = [NoReq EXCEPT !.cmd = op.cmd]
                 \/ busy' = NoReq /\ answer' = <<ERR>>
            BY <2>1, <2>9, ExecuteAsked
        <3>3. /\ hook_off' /\ ~hook_off => call.op.cmd = "DISABLE_NEXT_OSDSYS_HOOK"
              /\ lock # lock' =>
                    call.op.cmd = "WRITE_LOCK" /\ lock' = (call.op.args[1] # 0)
              /\ reboot' /\ ~reboot => call.op.cmd = "REBOOT"
            BY <3>1, <3>2
        <3>4. busy' # busy /\ busy'.valid => busy' = AskedBusy
            BY <3>1, <3>2 DEF AskedBusy, NoReq
        <3>5. answer' \notin {<<>>, <<ERR>>} => answer' = Reply(call.op.cmd, call.op.args)
            BY <3>1, <3>2
        <3> QED BY <3>3, <3>4, <3>5 DEF Asked
    <2> QED BY <2>6, <2>7, <2>8, <2>9
<1> QED BY <1>2, <1>3

\* The firmware executes a command only if it is the one the console is calling, with the
\* arguments and the sector it pokes.
THEOREM NothingElseIsDone ==
    ASSUME OneLoss, AllUnmistakable
    PROVE  Spec => OnlyWhatIsAsked
<1>1. IInv /\ [Next]_vars => [Asked]_vars
    <2> SUFFICES ASSUME IInv, Next PROVE Asked
        OBVIOUS
    <2>1. ASSUME UNCHANGED fw PROVE Asked
        <3>1. UNCHANGED <<busy, answer, hook_off, lock, reboot>>
            BY <2>1 DEF fw
        <3> QED BY <3>1 DEF Asked
    <2>2. ASSUME Peek PROVE Asked
        <3>1. UNCHANGED <<busy, hook_off, lock, reboot>> /\ (answer = <<>> => answer' = <<>>)
            BY <2>2 DEF Peek
        <3> QED BY <3>1 DEF Asked
    <2>3. ASSUME FwReset, call' = Idle(call.op, "none", <<>>) PROVE Asked
        <3>1. /\ ~busy'.valid /\ answer' = <<>> /\ ~hook_off' /\ ~reboot' /\ call'.pc = "idle"
            BY <2>3 DEF FwReset, NoReq, Idle
        <3> QED BY <3>1 DEF Asked
    <2>4. ASSUME NEW op \in Ops, StartCall(op) PROVE Asked
        BY <2>1, <2>4 DEF StartCall
    <2>5. CASE Poke
        BY <2>5, PokeAsked
    <2>6. CASE PokeLost
        BY <2>1, <2>6 DEF PokeLost
    <2>7. CASE ReadStatus \/ ReadData \/ ReadCrc
        BY <2>2, <2>7 DEF ReadStatus, ReadData, ReadCrc
    <2>8. CASE FinishBusy
        <3>1. busy # NoReq /\ ~busy'.valid /\ UNCHANGED <<hook_off, lock, reboot>>
            BY <2>8 DEF FinishBusy, NoReq
        <3> QED BY <3>1 DEF Asked
    <2>9. CASE ConsoleReset \/ Restart
        BY <2>3, <2>9 DEF ConsoleReset, Restart
    <2> QED BY <2>4, <2>5, <2>6, <2>7, <2>8, <2>9 DEF Next
<1>2. [Asked]_vars <=>
         [/\ busy' # busy /\ busy'.valid => busy' = AskedBusy
          /\ answer = <<>> /\ busy = NoReq /\ answer' \notin {<<>>, <<ERR>>}
                => answer' = Reply(call.op.cmd, call.op.args)
          /\ hook_off' /\ ~hook_off => call.op.cmd = "DISABLE_NEXT_OSDSYS_HOOK"
          /\ lock # lock' =>
                \/ call.op.cmd = "WRITE_LOCK" /\ lock' = (call.op.args[1] # 0)
                \/ call'.pc = "idle"
          /\ reboot' /\ ~reboot => call.op.cmd = "REBOOT"]_vars
    BY DEF Asked
<1> QED BY <1>1, <1>2, Inductive, PTL DEF Spec, OnlyWhatIsAsked
=============================================================================
