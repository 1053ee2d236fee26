---------------------------- MODULE DataOut_proofs ----------------------------
(***************************************************************************)
(* Proofs about DataOut.  The inductive invariant is a law of conservation: *)
(* what is in the shift register, in the FIFO and in the active channel is, *)
(* in this order, a gapless piece of what the SM is to put out, and the     *)
(* control lists hold what follows it.                                     *)
(***************************************************************************)
EXTENDS DataOut, SequenceTheorems, TLAPS

Slow == {"busy", "write"}
WithData == {"data", "patch"}

\* What the SM is to put out: BUSY words round and round, the answer from
\* position 1 on, and the dummy byte.  The last BUSY word ends at position 0.
DummyAt == Len(Answer) + 1
Byte(i) == IF i >= 1 THEN Append(Answer, ZERO)[i]
           ELSE BusyCode[1 + ((i - 1) % WordSize)]

DataAt == IF req.kind = "patch" THEN 1 ELSE WordSize + 1
CrcAt  == DataAt + Len(req.data)

\* Where the stream ends: behind the dummy byte, or where the data should begin
\* if CTRL2 has been reconfigured.
Intact == ctrl2_ok \/ req.kind \notin WithData
End    == IF Intact THEN DummyAt + 1 ELSE DataAt

CrcList  == <<CONTROL_BLOCK_CRC, CONTROL_BLOCK_EOT, CONTROL_BLOCK_NULL>>
NullList == <<CONTROL_BLOCK_NULL>>
StatusCrcList ==
    <<CONTROL_BLOCK_STATUS_CODE("ctrl2"), CONTROL_BLOCK_CRC, CONTROL_BLOCK_EOT,
      CONTROL_BLOCK_NULL>>

\* The data are there for CTRL2.
DataReady ==
    /\ req.kind \in WithData
    /\ data = req.data /\ list2 = CONTROL_BLOCKS_DATA_OUT

\* From e on CTRL1 will send what is left of the stream.
From1(e) ==
    \/ Intact /\ list1 = NullList /\ e = DummyAt + 1
    \/ Intact /\ list1 = NO_STATUS_WITH_DATA_NO_CRC /\ e = DummyAt
    \/ Intact /\ list1 = CrcList /\ req.crc /\ e = CrcAt /\ sniffed = req.data
    \/ /\ e = 1 /\ req.kind # "patch" /\ code = req.code
       /\ \/ list1 = WITH_STATUS_NO_DATA_NO_CRC /\ req.kind \notin WithData
          \/ list1 = WITH_STATUS_WITH_DATA_NO_CRC /\ ~req.crc /\ DataReady
          \/ list1 = StatusCrcList /\ req.crc /\ DataReady /\ sniffed = <<>>
          \/ list1 = WITH_STATUS_WITH_DATA_WITH_CRC /\ req.crc /\ DataReady
    \/ /\ e = 1 /\ req.kind = "patch" /\ req.crc /\ DataReady
       /\ list1 = NO_STATUS_WITH_DATA_WITH_CRC

\* The data come next, and then what CTRL1 has left.
From2(e) ==
    /\ e = DataAt /\ DataReady
    /\ IF req.crc THEN list1 = CrcList /\ sniffed = <<>>
                  ELSE list1 = NO_STATUS_WITH_DATA_NO_CRC

\* DATA2 is at it: the sniffer has seen what is gone.
DataGoes ==
    /\ req.kind \in WithData /\ ctrl2_ok
    /\ IF req.crc
       THEN /\ list1 = CrcList
            /\ sniffed \in Seq(DataBytes)
            /\ Len(sniffed) + Len(dma.left) = Len(req.data)
            /\ \A i \in 1..Len(sniffed) : sniffed[i] = req.data[i]
       ELSE list1 = NO_STATUS_WITH_DATA_NO_CRC

\* The result of a slow command is there for CTRL1.
ResultReady == list1 = WITH_STATUS_NO_DATA_NO_CRC /\ code = req.code

\* What the DMA has left ends in front of position e, and it will go on there.
Plan(e) ==
    \/ dma = NoDma /\ e = End
    \/ dma.ch = "ctrl1" /\ dma.left = <<>> /\ From1(e)
    \/ dma.ch = "ctrl2" /\ dma.left = <<>> /\ From2(e)
    \/ dma.ch = "data1" /\ dma.chain = "ctrl1" /\ From1(e)
    \/ dma.ch = "data1" /\ dma.chain = "ctrl2" /\ From2(e)
    \/ dma.ch = "data2" /\ dma.chain = "ctrl1" /\ DataGoes /\ e = CrcAt
    \/ /\ \/ dma.ch = "ping" /\ dma.chain = "pong"
          \/ dma.ch = "pong" /\ dma.left = <<>>
       /\ e = 1 /\ req.kind \in Slow
       /\ (pong = "ctrl1" \/ core0 = "chain") => ResultReady

\* The position of the next byte on the pins.
InOsr == IF sm = "loop" THEN 1 ELSE 0
Next1(e) == e - (Len(dma.left) + Len(fifo) + InOsr)

\* Shift register, FIFO and DMA hold the stream without a gap.
Pipe(e) ==
    /\ sm = "loop" => Len(osr) = 1 /\ osr[1] = Byte(Next1(e))
    /\ \A i \in 1..Len(fifo) : fifo[i] = Byte((Next1(e) + InOsr + i) - 1)
    /\ \A i \in 1..Len(dma.left) : dma.left[i] = Byte(((e - Len(dma.left)) + i) - 1)

\* What has been read, g, is the stream up to position r: since the last BUSY word.
ReadTo(g, r) ==
    /\ g \in Seq(Bytes)
    /\ \/ r >= 1 /\ Len(g) = r /\ \A i \in 1..r : g[i] = Answer[i]
       \/ r = 0 /\ g = <<>>
       \/ req.kind \in Slow /\ r < 0 /\ r % WordSize = 0 /\ g = <<>>
       \/ /\ req.kind \in Slow /\ r <= 0
          /\ Len(g) = 1 + ((r - 1) % WordSize)
          /\ \A i \in 1..Len(g) : g[i] = BusyCode[i]

ReadUpTo(r) == ReadTo(got, r)

\* The SM has put out the stream up to the byte in front of position k.
Shown(k) ==
    IF sm = "loop"
    THEN /\ drive
         /\ req.kind \notin Slow => k > 1
         /\ IF oe = "low" THEN pins = Byte(k - 1) /\ ReadUpTo(k - 2)
                          ELSE ReadUpTo(k - 1)
    ELSE oe = "high" /\ got = <<>> /\ ReadUpTo(k - 1)

\* When the FIFO is empty the stream is at its last byte, and only then, except
\* while the DMA is ahead of it.
EndSeen(k) ==
    sm = "loop" =>
        IF (irq /\ core1 = "idle") \/ core1 = "stop"
        THEN /\ k < End
             /\ fifo = <<>> => dma = NoDma
        ELSE k < End - 1

\* Once the command is over, the BUSY words on their way are numbered.  The
\* FIFO, the shift register and PING have room for less than four of them.
RoomForThree == FifoDepth + 1 < 3 * WordSize

Soon(k) ==
    RoomForThree /\ core0 = "idle" =>
        IF req.kind \in Slow
        THEN late <= MaxLate
                /\ (k <= 1 => 1 - k < (MaxLate + 1 - late) * WordSize)
        ELSE late = 0

Answering ==
    \E e \in 1..(DummyAt + 1) :
        /\ Plan(e) /\ Pipe(e)
        /\ Shown(Next1(e)) /\ EndSeen(Next1(e)) /\ Soon(Next1(e))

-----------------------------------------------------------------------------
AtRest == fifo = <<>> /\ dma = NoDma /\ sm = "off"

\* Between two answers
QuietInv == sniffing => core0 = "idle" /\ AtRest /\ oe = "high" /\ core1 \notin {"stop", "sniff"}

\* Before an answer is loaded
PreparedInv ==
    core0 \in {"load", "busy"} =>
        /\ ~sniffing /\ AtRest /\ oe = "high" /\ got = <<>>
        /\ req.kind = "patch" => DataReady
        /\ (core0 = "busy") <=> req.kind \in Slow

\* While it goes out
AnswerInv ==
    ~sniffing /\ core0 \notin {"load", "busy"} /\ core1 # "sniff" => Answering

\* When it is out: core 1 is about to listen again.
OverInv ==
    core1 = "sniff" =>
        /\ ~sniffing /\ core0 = "idle" /\ AtRest /\ drive
        /\ End > 2
        /\ IF oe = "low" THEN pins = Byte(End - 2) /\ ReadUpTo(End - 3)
                         ELSE ReadUpTo(End - 2)

\* Where each core is
CoresInv ==
    /\ ~sniffing => req \in Requests
    /\ core1 # "idle" => irq
    /\ irq /\ core1 = "idle" => sm = "loop"
    /\ core1 = "stop" => sm = "loop" /\ fifo = <<>> /\ dma = NoDma
    /\ core1 = "reset" => sm # "loop"
    /\ core0 \in {"load", "busy", "start"} <=>
          (~sniffing /\ core1 # "sniff" /\ sm = "off")
    /\ core0 \in {"execute", "status", "chain"} => req.kind \in Slow
    /\ dma.ch = "idle" => dma = NoDma

\* PING is where the busy word is cut; it goes on as long as the command does.
BusyInv ==
    /\ ping_at = CASE dma.ch = "ping" -> WordSize - Len(dma.left)
                   [] dma.ch = "pong" -> WordSize
                   [] OTHER -> 0
    /\ core0 \in {"execute", "status", "chain"}
          \/ (core0 = "start" /\ req.kind \in Slow) =>
          dma.ch \in {"ping", "pong"} /\ pong = "ping"
    /\ dma.ch \in {"ping", "pong"} /\ core0 = "idle" => pong = "ctrl1"

LateInv ==
    /\ late \in 0..(MaxLate + 1)
    /\ core0 # "idle" => late = 0
    /\ RoomForThree => StatusComesSoon

IInv ==
    /\ TypeOK
    /\ QuietInv
    /\ PreparedInv
    /\ AnswerInv
    /\ OverInv
    /\ CoresInv
    /\ BusyInv
    /\ ReadsAnswer
    /\ LateInv

-----------------------------------------------------------------------------
(***************************************************************************)
(* Sequences and remainders                                                *)
(***************************************************************************)
LEMMA Concat3 ==
    ASSUME NEW S, NEW a \in Seq(S), NEW b \in Seq(S), NEW c \in Seq(S)
    PROVE  /\ a \o b \o c \in Seq(S)
           /\ Len(a \o b \o c) = Len(a) + Len(b) + Len(c)
           /\ \A i \in 1..Len(a) : (a \o b \o c)[i] = a[i]
           /\ \A i \in 1..Len(b) : (a \o b \o c)[Len(a) + i] = b[i]
           /\ \A i \in 1..Len(c) : (a \o b \o c)[Len(a) + Len(b) + i] = c[i]
<1> DEFINE t == a \o b
           u == t \o c
<1>0. Len(a) \in Nat /\ Len(b) \in Nat /\ Len(c) \in Nat
    OBVIOUS
<1>1. /\ t \in Seq(S) /\ Len(t) = Len(a) + Len(b)
      /\ \A i \in 1..(Len(a) + Len(b)) :
            t[i] = IF i <= Len(a) THEN a[i] ELSE b[i - Len(a)]
    BY ConcatProperties
<1> HIDE DEF t
<1>2. /\ u \in Seq(S) /\ Len(u) = Len(t) + Len(c)
      /\ \A i \in 1..(Len(t) + Len(c)) :
            u[i] = IF i <= Len(t) THEN t[i] ELSE c[i - Len(t)]
    <2>1. t \in Seq(S)
        BY <1>1
    <2> QED BY <2>1, ConcatProperties DEF u
<1> HIDE DEF u
<1>3. \A i \in 1..Len(a) : u[i] = a[i]
    BY <1>0, <1>1, <1>2
<1>4. \A i \in 1..Len(b) : u[Len(a) + i] = b[i]
    BY <1>0, <1>1, <1>2
<1>5. \A i \in 1..Len(c) : u[Len(a) + Len(b) + i] = c[i]
    <2> TAKE i \in 1..Len(c)
    <2>1. Len(a) + Len(b) + i \in 1..(Len(t) + Len(c))
              /\ ~(Len(a) + Len(b) + i <= Len(t))
              /\ (Len(a) + Len(b) + i) - Len(t) = i
        BY <1>0, <1>1
    <2> QED BY <1>2, <2>1
<1> QED BY <1>0, <1>1, <1>2, <1>3, <1>4, <1>5 DEF t, u

LEMMA DivMod ==
    ASSUME NEW A \in Nat, A # 0, NEW x \in Int
    PROVE  x % A \in 0..(A - 1) /\ x \div A \in Int /\ x = A * (x \div A) + (x % A)
OBVIOUS

\* Quotient and remainder are unique.
LEMMA ModUnique ==
    ASSUME NEW A \in Nat, A # 0, NEW q \in Int, NEW p \in Int,
           NEW r \in 0..(A - 1), NEW s \in 0..(A - 1), A * q + r = A * p + s
    PROVE  r = s /\ q = p
<1>1. CASE q = p
    BY <1>1
<1>2. CASE q > p
    <2>1. A * (q - p) >= A /\ A * (q - p) = (A * q) - (A * p)
        BY <1>2
    <2> QED BY <2>1
<1>3. CASE q < p
    <2>1. A * (p - q) >= A /\ A * (p - q) = (A * p) - (A * q)
        BY <1>3
    <2> QED BY <2>1
<1> QED BY <1>1, <1>2, <1>3

W == WordSize

LEMMA WordSizeFacts == W \in Nat /\ W > 2 /\ WordSize = W /\ W # 0
BY FifoAssumption DEF W

\* A position in its word: one further, one word back, and at the start of one.
LEMMA ModStep ==
    ASSUME NEW x \in Int
    PROVE  /\ x % W \in 0..(W - 1)
           /\ (x + 1) % W = IF x % W = W - 1 THEN 0 ELSE (x % W) + 1
<1> USE WordSizeFacts
<1> DEFINE r == x % W
           q == x \div W
           s == (x + 1) % W
           p == (x + 1) \div W
<1>1. r \in 0..(W - 1) /\ q \in Int /\ x = W * q + r
    BY DivMod
<1>2. s \in 0..(W - 1) /\ p \in Int /\ x + 1 = W * p + s
    <2>1. x + 1 \in Int
        OBVIOUS
    <2> QED BY <2>1, DivMod
<1> HIDE DEF r, q, s, p
<1>3. CASE r = W - 1
    <2>1. W * (q + 1) = W * q + W
        BY <1>1
    <2>2. W * p + s = W * (q + 1) + 0 /\ q + 1 \in Int /\ 0 \in 0..(W - 1)
        BY <1>1, <1>2, <1>3, <2>1
    <2> DEFINE z == 0
               y == q + 1
    <2>4. W * p + s = W * y + z /\ z \in 0..(W - 1) /\ y \in Int
        BY <2>2
    <2> HIDE DEF z, y
    <2>5. s = z
        BY <1>2, <2>4, ModUnique
    <2>3. s = 0
        BY <2>5 DEF z
    <2> QED BY <1>1, <1>3, <2>3 DEF r, s
<1>4. CASE r # W - 1
    <2>1. W * p + s = W * q + (r + 1) /\ r + 1 \in 0..(W - 1)
        BY <1>1, <1>2, <1>4
    <2>2. s = r + 1
        BY <1>1, <1>2, <2>1, ModUnique
    <2> QED BY <1>1, <1>4, <2>2 DEF r, s
<1> QED BY <1>3, <1>4

LEMMA ModBack ==
    ASSUME NEW x \in Int
    PROVE  (x - W) % W = x % W
<1> USE WordSizeFacts
<1> DEFINE r == x % W
           q == x \div W
           s == (x - W) % W
           p == (x - W) \div W
<1>1. r \in 0..(W - 1) /\ q \in Int /\ x = W * q + r
    BY DivMod
<1>2. s \in 0..(W - 1) /\ p \in Int /\ x - W = W * p + s
    <2>1. x - W \in Int
        OBVIOUS
    <2> QED BY <2>1, DivMod
<1> HIDE DEF r, q, s, p
<1>3. W * (q - 1) = (W * q) - W
    BY <1>1
<1>4. W * p + s = W * (q - 1) + r /\ q - 1 \in Int
    BY <1>1, <1>2, <1>3
<1>5. s = r
    BY <1>1, <1>2, <1>4, ModUnique
<1> QED BY <1>5 DEF r, s

LEMMA ModNear ==
    /\ \A x \in 0..(W - 1) : x % W = x
    /\ (-1) % W = W - 1 /\ W % W = 0 /\ (-W) % W = 0
    /\ \A x \in (-W)..(-1) : x % W = x + W
<1> USE WordSizeFacts
<1>1. ASSUME NEW x \in 0..(W - 1)
      PROVE  x % W = x
    <2> DEFINE r == x % W
               q == x \div W
    <2>1. r \in 0..(W - 1) /\ q \in Int /\ x = W * q + r /\ x \in Int
        BY DivMod
    <2> HIDE DEF r, q
    <2>2. W * 0 + x = W * q + r
        BY <2>1
    <2>3. x = r
        BY <2>1, <2>2, ModUnique
    <2> QED BY <2>3 DEF r
<1>2. ASSUME NEW x \in (-W)..(-1)
      PROVE  x % W = x + W
    <2>1. x + W \in 0..(W - 1) /\ x + W \in Int /\ (x + W) - W = x
        OBVIOUS
    <2>2. ((x + W) - W) % W = (x + W) % W
        BY <2>1, ModBack
    <2> QED BY <1>1, <2>1, <2>2
<1>3. W \in Int /\ W - W = 0 /\ 0 \in 0..(W - 1)
    OBVIOUS
<1>4. W % W = 0
    BY <1>1, <1>3, ModBack
<1>5. -1 \in (-W)..(-1) /\ -W \in (-W)..(-1) /\ (-1) + W = W - 1 /\ (-W) + W = 0
    OBVIOUS
<1>6. (-1) % W = W - 1
    BY <1>2, <1>5
<1>7. (-W) % W = 0
    BY <1>2, <1>5
<1> QED BY <1>1, <1>2, <1>4, <1>6, <1>7

-----------------------------------------------------------------------------
(***************************************************************************)
(* The bytes of an answer                                                  *)
(***************************************************************************)
LEMMA RequestFacts ==
    ASSUME NEW r \in Requests
    PROVE  /\ r.kind \in {"status", "busy", "write", "data", "patch"}
           /\ r.data \in Seq(DataBytes) /\ Len(r.data) \in Nat
           /\ r.crc \in BOOLEAN
           /\ r.crc => r.kind \in WithData
           /\ r.code # "BUSY"
           /\ r.kind = "patch" => Len(r.data) > 1
<1>1. \/ r \in [kind : {"status", "busy", "write"}, code : STRING,
               data : Seq(DataBytes), crc : {FALSE}]
      \/ r \in [kind : {"data", "patch"}, code : STRING,
                data : Seq(DataBytes), crc : BOOLEAN]
    BY RequestsAssumption
<1>2. r.code # "BUSY" /\ (r.kind = "patch" => Len(r.data) > 1)
    BY RequestsAssumption
<1>3. r.data \in Seq(DataBytes)
    BY <1>1
<1>4. Len(r.data) \in Nat
    BY <1>3
<1>5. /\ r.kind \in {"status", "busy", "write", "data", "patch"}
      /\ r.crc \in BOOLEAN
      /\ r.crc => r.kind \in WithData
    BY <1>1 DEF WithData
<1> QED BY <1>2, <1>3, <1>4, <1>5

LEMMA WordFacts ==
    ASSUME NEW kind, NEW what
    PROVE  /\ Len(Word(kind, what)) = W
           /\ \A i \in 1..W : Word(kind, what)[i] = <<kind, what, i>>
           /\ \A S : Range(Word(kind, what)) \subseteq S =>
                        Word(kind, what) \in Seq(S)
<1>1. Word(kind, what) = [i \in 1..W |-> <<kind, what, i>>]
    BY DEF Word, W
<1>2. ASSUME NEW S, Range(Word(kind, what)) \subseteq S
      PROVE  Word(kind, what) \in Seq(S)
    <2>1. \A i \in 1..W : <<kind, what, i>> \in S
        BY <1>1, <1>2 DEF Range
    <2> QED BY <1>1, <2>1, WordSizeFacts
<1>3. Word(kind, what) \in Seq(Range(Word(kind, what)))
    BY <1>2
<1>4. Len(Word(kind, what)) = W
    <2>1. DOMAIN Word(kind, what) = 1..W
        BY <1>1
    <2> QED BY <1>3, <2>1, LenProperties, WordSizeFacts
<1> QED BY <1>1, <1>2, <1>4

\* BUSY begins with a byte of its own, and counts its bytes.
LEMMA BusyFacts ==
    /\ BusyCode \in Seq(Bytes) /\ Len(BusyCode) = W
    /\ \A i \in 1..W : BusyCode[i] \in Bytes
    /\ \A i \in 1..W : BusyCode[i] = BusyCode[1] => i = 1
    /\ BusyCode[1] # ZERO
<1>1. Range(BusyCode) \subseteq Bytes
    BY DEF Bytes
<1>2. BusyCode = Word("status", "BUSY")
    BY DEF BusyCode, Status
<1>3. /\ Len(BusyCode) = W
      /\ \A i \in 1..W : BusyCode[i] = <<"status", "BUSY", i>>
      /\ BusyCode \in Seq(Bytes)
    BY <1>1, <1>2, WordFacts
<1> QED BY <1>3, WordSizeFacts DEF ZERO

LEMMA ByteTypes ==
    ASSUME NEW r \in Requests
    PROVE  /\ Status(r.code) \in Seq(Bytes) /\ Len(Status(r.code)) = W
           /\ r.data \in Seq(Bytes)
           /\ CrcOf(r.data) \in Seq(Bytes) /\ Len(CrcOf(r.data)) = W
           /\ ZERO \in Bytes /\ Rom \in Bytes
           /\ \A i \in 1..W : Status(r.code)[i] # BusyCode[1]
           /\ \A i \in 1..Len(r.data) : r.data[i] # BusyCode[1]
           /\ \A i \in 1..W : CrcOf(r.data)[i] # BusyCode[1]
<1>1. BytesOf(r) \subseteq Bytes
    BY DEF Bytes
<1>2. /\ Range(Status(r.code)) \subseteq Bytes
      /\ Range(r.data) \subseteq Bytes
      /\ Range(CrcOf(r.data)) \subseteq Bytes
    BY <1>1 DEF BytesOf
<1>3. /\ Status(r.code) = Word("status", r.code)
      /\ CrcOf(r.data) = Word("crc", r.data)
      /\ BusyCode = Word("status", "BUSY")
    BY DEF Status, CrcOf, BusyCode
<1>4. /\ Status(r.code) \in Seq(Bytes) /\ Len(Status(r.code)) = W
      /\ \A i \in 1..W : Status(r.code)[i] = <<"status", r.code, i>>
    BY <1>2, <1>3, WordFacts
<1>5. /\ CrcOf(r.data) \in Seq(Bytes) /\ Len(CrcOf(r.data)) = W
      /\ \A i \in 1..W : CrcOf(r.data)[i] = <<"crc", r.data, i>>
    BY <1>2, <1>3, WordFacts
<1>6. BusyCode[1] = <<"status", "BUSY", 1>> /\ BusyCode[1] \in Range(BusyCode)
    <2>1. 1 \in 1..W
        BY WordSizeFacts
    <2>2. BusyCode[1] = <<"status", "BUSY", 1>>
        BY <1>3, <2>1, WordFacts
    <2>3. 1 \in DOMAIN BusyCode
        BY <2>1, BusyFacts
    <2> QED BY <2>2, <2>3 DEF Range
<1>7. r.data \in Seq(Bytes) /\ \A i \in 1..Len(r.data) : r.data[i] # BusyCode[1]
    <2>1. r.data \in Seq(DataBytes)
        BY RequestFacts
    <2>2. \A i \in 1..Len(r.data) : r.data[i] \in Bytes /\ r.data[i] \in DataBytes
        BY <1>2, <2>1 DEF Range
    <2>3. DataBytes \cap Range(BusyCode) = {}
        BY RequestsAssumption
    <2> QED BY <1>6, <2>1, <2>2, <2>3
<1>8. ZERO \in Bytes /\ Rom \in Bytes
    BY DEF Bytes
<1>9. r.code # "BUSY"
    BY RequestFacts
<1>10. \A i \in 1..W : Status(r.code)[i] # BusyCode[1]
    BY <1>4, <1>6, <1>9
<1>11. \A i \in 1..W : CrcOf(r.data)[i] # BusyCode[1]
    BY <1>5, <1>6
<1> QED BY <1>4, <1>5, <1>7, <1>8, <1>10, <1>11

\* The stream, part by part.
Parts ==
    /\ req.kind # "patch" => \A i \in 1..W : Byte(i) = Status(req.code)[i]
    /\ req.kind \in WithData =>
          /\ DataAt + Len(req.data) = CrcAt /\ CrcAt <= DummyAt
          /\ \A i \in 1..Len(req.data) : Byte((DataAt + i) - 1) = req.data[i]
          /\ ~req.crc => DummyAt = CrcAt
    /\ req.crc => /\ DummyAt = CrcAt + W
                  /\ \A i \in 1..W : Byte((CrcAt + i) - 1) = CrcOf(req.data)[i]
    /\ req.kind \notin WithData => DummyAt = W + 1
    /\ DataAt = IF req.kind = "patch" THEN 1 ELSE W + 1

Sound ==
    /\ DummyAt \in Nat /\ DummyAt > 2 /\ DataAt \in Nat /\ CrcAt \in Nat
    /\ Answer \in Seq(Bytes) /\ Len(Answer) = DummyAt - 1
    /\ \A i \in 1..(DummyAt - 1) : Byte(i) = Answer[i] /\ Byte(i) # BusyCode[1]
    /\ Byte(DummyAt) = ZERO
    /\ \A i \in Int : i <= DummyAt => Byte(i) \in Bytes

LEMMA StreamFacts ==
    ASSUME req \in Requests
    PROVE  Parts /\ Sound
<1> DEFINE A1 == IF req.kind \in {"data", "status", "busy", "write"}
                 THEN Status(req.code) ELSE <<>>
           A2 == IF req.kind \in {"data", "patch"} THEN req.data ELSE <<>>
           A3 == IF req.crc THEN CrcOf(req.data) ELSE <<>>
           n  == Len(Answer)
<1>1. /\ req.kind \in {"status", "busy", "write", "data", "patch"}
      /\ req.crc \in BOOLEAN /\ Len(req.data) \in Nat
      /\ req.crc => req.kind \in WithData
      /\ req.kind = "patch" => Len(req.data) > 1
    BY RequestFacts
<1>2. /\ A1 \in Seq(Bytes) /\ A2 \in Seq(Bytes) /\ A3 \in Seq(Bytes)
    <2>1. <<>> \in Seq(Bytes)
        OBVIOUS
    <2>2. /\ Status(req.code) \in Seq(Bytes) /\ req.data \in Seq(Bytes)
          /\ CrcOf(req.data) \in Seq(Bytes)
        BY ByteTypes
    <2> QED BY <2>1, <2>2
<1>3. /\ req.kind # "patch" => A1 = Status(req.code) /\ Len(A1) = W
      /\ req.kind = "patch" => A1 = <<>> /\ Len(A1) = 0
    <2>1. Len(Status(req.code)) = W
        BY ByteTypes
    <2> QED BY <1>1, <2>1
<1>4. /\ req.kind \in WithData => A2 = req.data /\ Len(A2) = Len(req.data)
      /\ req.kind \notin WithData => A2 = <<>> /\ Len(A2) = 0
    BY DEF WithData
<1>5. /\ req.crc => A3 = CrcOf(req.data) /\ Len(A3) = W
      /\ ~req.crc => A3 = <<>> /\ Len(A3) = 0
    BY ByteTypes
<1>6. Answer = A1 \o A2 \o A3
    BY DEF Answer
<1>7. /\ \A i \in 1..Len(A1) : A1[i] # BusyCode[1]
      /\ \A i \in 1..Len(A2) : A2[i] # BusyCode[1]
      /\ \A i \in 1..Len(A3) : A3[i] # BusyCode[1]
    <2>1. /\ \A i \in 1..W : Status(req.code)[i] # BusyCode[1]
          /\ \A i \in 1..Len(req.data) : req.data[i] # BusyCode[1]
          /\ \A i \in 1..W : CrcOf(req.data)[i] # BusyCode[1]
        BY ByteTypes
    <2>2. \A i \in 1..Len(A1) : A1[i] # BusyCode[1]
        BY <1>3, <2>1
    <2>3. \A i \in 1..Len(A2) : A2[i] # BusyCode[1]
        BY <1>4, <2>1
    <2>4. \A i \in 1..Len(A3) : A3[i] # BusyCode[1]
        BY <1>5, <2>1
    <2> QED BY <2>2, <2>3, <2>4
<1> HIDE DEF A1, A2, A3
<1>8. /\ Answer \in Seq(Bytes) /\ n = Len(A1) + Len(A2) + Len(A3)
      /\ \A i \in 1..Len(A1) : Answer[i] = A1[i]
      /\ \A i \in 1..Len(A2) : Answer[Len(A1) + i] = A2[i]
      /\ \A i \in 1..Len(A3) : Answer[Len(A1) + Len(A2) + i] = A3[i]
    BY <1>2, <1>6, Concat3
<1>9. Len(A1) \in Nat /\ Len(A2) \in Nat /\ Len(A3) \in Nat /\ n \in Nat
    BY <1>2, <1>8
<1>10. /\ DummyAt = n + 1 /\ DummyAt > 2
       /\ DataAt = Len(A1) + 1
       /\ DataAt = IF req.kind = "patch" THEN 1 ELSE W + 1
       /\ CrcAt = DataAt + Len(req.data)
    BY <1>1, <1>3, <1>4, <1>8, <1>9, WordSizeFacts
       DEF DummyAt, DataAt, CrcAt, WithData
<1>11. /\ \A i \in 1..n : Byte(i) = Answer[i]
       /\ Byte(n + 1) = ZERO
    <2>1. ZERO \in Bytes
        BY ByteTypes
    <2>2. \A i \in 1..n : Append(Answer, ZERO)[i] = Answer[i]
        BY <1>8, <1>9, <2>1, AppendProperties
    <2>3. Append(Answer, ZERO)[n + 1] = ZERO
        BY <1>8, <1>9, <2>1, AppendProperties
    <2> QED BY <1>9, <2>2, <2>3 DEF Byte
<1>12. ASSUME NEW i \in 1..n
       PROVE  Answer[i] # BusyCode[1]
    <2>1. CASE i <= Len(A1)
        <3>1. i \in 1..Len(A1)
            BY <1>9, <2>1
        <3> QED BY <1>7, <1>8, <3>1
    <2>2. CASE i > Len(A1) /\ i <= Len(A1) + Len(A2)
        <3>1. i - Len(A1) \in 1..Len(A2) /\ Len(A1) + (i - Len(A1)) = i
            BY <1>9, <2>2
        <3>2. Answer[Len(A1) + (i - Len(A1))] = A2[i - Len(A1)]
            BY <1>8, <3>1
        <3> QED BY <1>7, <3>1, <3>2
    <2>3. CASE i > Len(A1) + Len(A2)
        <3> DEFINE j == i - (Len(A1) + Len(A2))
        <3>1. j \in 1..Len(A3) /\ Len(A1) + Len(A2) + j = i
            BY <1>8, <1>9, <2>3
        <3> HIDE DEF j
        <3>2. Answer[Len(A1) + Len(A2) + j] = A3[j]
            BY <1>8, <3>1
        <3> QED BY <1>7, <3>1, <3>2
    <2> QED BY <1>9, <2>1, <2>2, <2>3
<1>13. ASSUME NEW i \in Int, i <= n + 1
       PROVE  Byte(i) \in Bytes
    <2>1. CASE i \in 1..n
        BY <1>8, <1>9, <1>11, <2>1, ElementOfSeq
    <2>2. CASE i = n + 1
        BY <1>11, <2>2, ByteTypes
    <2>3. CASE i < 1
        <3>1. i - 1 \in Int
            OBVIOUS
        <3>2. (i - 1) % W \in 0..(W - 1)
            BY <3>1, ModStep
        <3>3. 1 + ((i - 1) % W) \in 1..W
            BY <3>2, WordSizeFacts
        <3>4. Byte(i) = BusyCode[1 + ((i - 1) % W)]
            BY <2>3 DEF Byte, W
        <3> QED BY <3>3, <3>4, BusyFacts
    <2> QED BY <1>9, <1>13, <2>1, <2>2, <2>3
<1>14. Sound
    BY <1>8, <1>9, <1>10, <1>11, <1>12, <1>13, <1>1 DEF Sound
<1>20. PICK a \in Nat, b \in Nat, c \in Nat :
            a = Len(A1) /\ b = Len(A2) /\ c = Len(A3)
    BY <1>9
<1>21. /\ DummyAt = (a + b + c) + 1 /\ DataAt = a + 1
       /\ CrcAt = DataAt + Len(req.data) /\ n = a + b + c
    BY <1>8, <1>10, <1>20
<1>22. /\ \A i \in 1..a : Answer[i] = A1[i]
       /\ \A i \in 1..b : Answer[a + i] = A2[i]
       /\ \A i \in 1..c : Answer[a + b + i] = A3[i]
    BY <1>8, <1>10, <1>20
<1>15. req.kind # "patch" => \A i \in 1..W : Byte(i) = Status(req.code)[i]
    BY <1>3, <1>8, <1>9, <1>11
<1>23. DummyAt = ((a + 1) + b) + c
    BY <1>21
<1>16. ASSUME req.kind \in WithData
       PROVE  /\ DataAt + Len(req.data) = CrcAt /\ CrcAt <= DummyAt
              /\ \A i \in 1..Len(req.data) : Byte((DataAt + i) - 1) = req.data[i]
              /\ ~req.crc => DummyAt = CrcAt
    <2>1. b = Len(req.data) /\ A2 = req.data
        BY <1>4, <1>16, <1>20
    <2>2. \A i \in 1..b : (DataAt + i) - 1 = a + i /\ a + i \in 1..n
        BY <1>21
    <2>3. \A i \in 1..b : Byte((DataAt + i) - 1) = A2[i]
        BY <1>22, <1>11, <2>2
    <2>4. CrcAt = (a + 1) + b
        BY <1>21, <2>1
    <2>5. CrcAt <= DummyAt
        BY <1>23, <2>4
    <2>6. ASSUME ~req.crc
          PROVE  DummyAt = CrcAt
        <3>1. c = 0
            BY <1>5, <1>20, <2>6
        <3> QED BY <1>23, <2>4, <3>1
    <2> QED BY <1>21, <2>1, <2>3, <2>5, <2>6
<1>17. ASSUME req.crc
       PROVE  /\ DummyAt = CrcAt + W
              /\ \A i \in 1..W : Byte((CrcAt + i) - 1) = CrcOf(req.data)[i]
    <2>1. b = Len(req.data) /\ A3 = CrcOf(req.data)
        BY <1>1, <1>4, <1>5, <1>17, <1>20
    <2>2. CrcAt = (a + 1) + b
        BY <1>21, <2>1
    <2>3. c = W
        BY <1>5, <1>17, <1>20
    <2>4. n = a + b + c
        BY <1>21
    <2> HIDE DEF n
    <2>5. \A i \in 1..c : (CrcAt + i) - 1 = a + b + i /\ a + b + i \in 1..n
        BY <2>2, <2>4
    <2>6. \A i \in 1..c : Byte((CrcAt + i) - 1) = A3[i]
        BY <1>11, <1>22, <2>5
    <2>7. DummyAt = CrcAt + W
        BY <1>23, <2>2, <2>3
    <2> QED BY <2>1, <2>3, <2>6, <2>7
<1>18. req.kind \notin WithData => DummyAt = W + 1
    <2> SUFFICES ASSUME req.kind \notin WithData
                 PROVE  DummyAt = W + 1
        OBVIOUS
    <2>1. ~req.crc /\ req.kind # "patch"
        BY <1>1 DEF WithData
    <2> QED BY <1>3, <1>4, <1>5, <1>8, <1>9, <1>10, <2>1, WordSizeFacts
<1>19. Parts
    BY <1>10, <1>15, <1>16, <1>17, <1>18 DEF Parts
<1> QED BY <1>14, <1>19

\* In front of the answer: BUSY words, the last of which ends at position 0.
LEMMA BusyStream ==
    /\ \A i \in Int : i <= 0 => /\ Byte(i) = BusyCode[1 + ((i - 1) % W)]
                                /\ Byte(i - W) = Byte(i)
                                /\ Byte(i) = BusyCode[1] => (i - 1) % W = 0
    /\ \A i \in 1..W : Byte(i - W) = BusyCode[i]
<1>1. ASSUME NEW i \in Int, i <= 0
      PROVE  Byte(i) = BusyCode[1 + ((i - 1) % W)]
    BY <1>1 DEF Byte, W
<1>2. ASSUME NEW i \in Int, i <= 0
      PROVE  Byte(i - W) = Byte(i)
    <2>1. i - W \in Int /\ i - W <= 0 /\ i - 1 \in Int /\ (i - W) - 1 = (i - 1) - W
        BY <1>2, WordSizeFacts
    <2>2. Byte(i - W) = BusyCode[1 + (((i - 1) - W) % W)]
        BY <1>1, <2>1
    <2>3. ((i - 1) - W) % W = (i - 1) % W
        BY <2>1, ModBack
    <2> QED BY <1>1, <1>2, <2>2, <2>3
<1>3. ASSUME NEW i \in Int, i <= 0, Byte(i) = BusyCode[1]
      PROVE  (i - 1) % W = 0
    <2> DEFINE m == (i - 1) % W
    <2>1. m \in 0..(W - 1)
        <3>1. i - 1 \in Int
            OBVIOUS
        <3> QED BY <3>1, ModStep
    <2>2. BusyCode[1 + m] = BusyCode[1]
        BY <1>1, <1>3
    <2> HIDE DEF m
    <2>3. 1 + m \in 1..W
        BY <2>1, WordSizeFacts
    <2>4. 1 + m = 1
        BY <2>2, <2>3, BusyFacts
    <2>5. m = 0
        BY <2>1, <2>4, WordSizeFacts
    <2> QED BY <2>5 DEF m
<1>4. ASSUME NEW i \in 1..W
      PROVE  Byte(i - W) = BusyCode[i]
    <2>1. /\ i - W \in Int /\ i - W <= 0 /\ (i - W) - 1 \in (-W)..(-1)
          /\ ((i - W) - 1) + W = i - 1
        BY WordSizeFacts
    <2>2. ((i - W) - 1) % W = ((i - W) - 1) + W
        BY <2>1, ModNear
    <2>3. Byte(i - W) = BusyCode[1 + (((i - W) - 1) % W)]
        BY <1>1, <2>1
    <2>4. 1 + (i - 1) = i
        OBVIOUS
    <2> QED BY <2>1, <2>2, <2>3, <2>4
<1> QED BY <1>1, <1>2, <1>3, <1>4

LEMMA StreamKept ==
    ASSUME req' = req
    PROVE  /\ Answer' = Answer /\ DummyAt' = DummyAt
           /\ DataAt' = DataAt /\ CrcAt' = CrcAt
           /\ \A i : Byte(i)' = Byte(i)
BY DEF Answer, DummyAt, DataAt, CrcAt, Byte

\* The console reads one byte more.
LEMMA ReadStep ==
    ASSUME req \in Requests, req' = req, NEW r \in Int, ReadUpTo(r),
           r + 1 < DummyAt,
           got' = IF got = BusyCode THEN <<Byte(r + 1)>>
                                    ELSE Append(got, Byte(r + 1))
    PROVE  ReadUpTo(r + 1)'
<1> DEFINE b == Byte(r + 1)
<1>1. Sound
    BY StreamFacts
<1>2. b \in Bytes /\ r + 1 \in Int
    BY <1>1 DEF Sound
<1>3. got \in Seq(Bytes) /\ Len(got) \in Nat
    BY DEF ReadUpTo, ReadTo
<1>4. Answer' = Answer
    BY StreamKept
<1> HIDE DEF b
<1>5. /\ Append(got, b) \in Seq(Bytes) /\ Len(Append(got, b)) = Len(got) + 1
      /\ \A i \in 1..Len(got) : Append(got, b)[i] = got[i]
      /\ Append(got, b)[Len(got) + 1] = b
    BY <1>2, <1>3, AppendProperties
<1>6. <<b>> \in Seq(Bytes) /\ Len(<<b>>) = 1 /\ <<b>>[1] = b
    BY <1>2
<1>7. got' = IF got = BusyCode THEN <<b>> ELSE Append(got, b)
    BY DEF b
<1>8. got' \in Seq(Bytes)
    BY <1>5, <1>6, <1>7
<1>9. Len(BusyCode) = W /\ W > 2 /\ W \in Nat
    BY BusyFacts, WordSizeFacts
<1>10. CASE r >= 1 /\ Len(got) = r /\ \A i \in 1..r : got[i] = Answer[i]
    <2>1. got # BusyCode
        <3>1. 1 \in 1..(DummyAt - 1)
            BY <1>1 DEF Sound
        <3>2. Answer[1] # BusyCode[1]
            BY <1>1, <3>1 DEF Sound
        <3> QED BY <1>10, <3>2
    <2>2. r + 1 \in 1..(DummyAt - 1)
        BY <1>1, <1>10 DEF Sound
    <2>3. b = Answer[r + 1]
        BY <1>1, <2>2 DEF b, Sound
    <2>4. got' = Append(got, b)
        BY <1>7, <2>1
    <2>5. Len(got') = r + 1 /\ \A i \in 1..(r + 1) : got'[i] = Answer[i]
        BY <1>5, <1>10, <2>3, <2>4
    <2> QED BY <1>4, <1>8, <1>10, <2>5 DEF ReadUpTo, ReadTo
<1>11. ASSUME r = 0, got' = <<b>>
       PROVE  ReadUpTo(r + 1)'
    <2>1. r + 1 = 1 /\ 1 \in 1..(DummyAt - 1)
        BY <1>1, <1>11 DEF Sound
    <2>2. b = Answer[1]
        BY <1>1, <2>1 DEF b, Sound
    <2>3. Len(got') = 1 /\ \A i \in 1..1 : got'[i] = Answer[i]
        BY <1>6, <1>11, <2>2
    <2>4. ReadUpTo(1)'
        BY <1>4, <1>8, <2>3 DEF ReadUpTo, ReadTo
    <2> QED BY <2>1, <2>4
<1>12. CASE r = 0 /\ got = <<>>
    <2>1. got' = <<b>>
        <3>1. got # BusyCode
            BY <1>9, <1>12
        <3> QED BY <1>7, <1>12, <3>1
    <2> QED BY <1>11, <1>12, <2>1
<1>13. ASSUME req.kind \in Slow, r < 0
       PROVE  /\ r + 1 <= 0 /\ (r + 1) - 1 = r
              /\ b = BusyCode[1 + (r % W)] /\ r % W \in 0..(W - 1)
    <2>1. r + 1 <= 0 /\ (r + 1) - 1 = r
        BY <1>13
    <2>2. b = BusyCode[1 + (r % W)]
        BY <1>2, <2>1, BusyStream DEF b
    <2> QED BY <2>1, <2>2, ModStep
<1>14. ASSUME req.kind \in Slow, r < 0, Len(got') = 1 + (r % W),
              \A i \in 1..Len(got') : got'[i] = BusyCode[i]
       PROVE  ReadUpTo(r + 1)'
    <2>1. r + 1 <= 0 /\ (r + 1) - 1 = r
        BY <1>14
    <2>2. Len(got') = 1 + (((r + 1) - 1) % WordSize)
        BY <1>14, <2>1 DEF W
    <2>3. req'.kind \in Slow
        BY <1>14
    <2> QED BY <1>8, <1>14, <2>1, <2>2, <2>3 DEF ReadUpTo, ReadTo
<1>15. CASE req.kind \in Slow /\ r < 0 /\ r % WordSize = 0 /\ got = <<>>
    <2>1. got # BusyCode
        BY <1>9, <1>15
    <2>2. got' = <<b>>
        BY <1>7, <1>15, <2>1
    <2>3. r % W = 0
        BY <1>15 DEF W
    <2>4. b = BusyCode[1]
        BY <1>13, <1>15, <2>3
    <2> QED BY <1>6, <1>14, <1>15, <2>2, <2>3, <2>4
<1>16. CASE /\ req.kind \in Slow /\ r <= 0
            /\ Len(got) = 1 + ((r - 1) % WordSize)
            /\ \A i \in 1..Len(got) : got[i] = BusyCode[i]
    <2> DEFINE m == (r - 1) % W
    <2>1. m \in 0..(W - 1) /\ r % W = IF m = W - 1 THEN 0 ELSE m + 1
        <3>1. r - 1 \in Int /\ (r - 1) + 1 = r
            OBVIOUS
        <3>2. /\ (r - 1) % W \in 0..(W - 1)
              /\ ((r - 1) + 1) % W = IF (r - 1) % W = W - 1 THEN 0 ELSE ((r - 1) % W) + 1
            BY <3>1, ModStep
        <3> QED BY <3>1, <3>2
    <2>2. Len(got) = 1 + m
        BY <1>16 DEF W
    <2>3. r = 0 => m = W - 1
        BY ModNear
    <2> HIDE DEF m
    <2>4. CASE m = W - 1
        <3>1. Len(got) = Len(BusyCode)
            BY <1>9, <2>2, <2>4
        <3>2. got = BusyCode
            BY <1>3, <1>16, <3>1, BusyFacts, SeqEqual
        <3>3. got' = <<b>>
            BY <1>7, <3>2
        <3>4. CASE r = 0
            BY <1>11, <3>3, <3>4
        <3>5. CASE r # 0
            <4>1. r < 0 /\ r % W = 0
                BY <1>16, <2>1, <2>4, <3>5
            <4>2. b = BusyCode[1]
                BY <1>13, <1>16, <4>1
            <4> QED BY <1>6, <1>14, <1>16, <3>3, <4>1, <4>2
        <3> QED BY <3>4, <3>5
    <2>5. CASE m # W - 1
        <3>1. r < 0 /\ r % W = m + 1
            BY <1>16, <2>1, <2>3, <2>5
        <3>2. got # BusyCode
            BY <1>9, <2>1, <2>2, <2>5
        <3>3. got' = Append(got, b)
            BY <1>7, <3>2
        <3>4. b = BusyCode[1 + (m + 1)]
            BY <1>13, <1>16, <3>1
        <3>5. Len(got') = 1 + (r % W)
            BY <1>5, <2>1, <2>2, <3>1, <3>3
        <3>6. \A i \in 1..Len(got') : got'[i] = BusyCode[i]
            <4>1. Len(got') = Len(got) + 1 /\ Len(got) + 1 = 1 + (m + 1)
                BY <1>5, <2>1, <2>2, <3>3
            <4>2. got'[Len(got) + 1] = BusyCode[Len(got) + 1]
                BY <1>5, <3>3, <3>4, <4>1
            <4>3. \A i \in 1..Len(got) : got'[i] = BusyCode[i]
                BY <1>5, <1>16, <3>3
            <4> QED BY <1>3, <4>1, <4>2, <4>3
        <3> QED BY <1>14, <1>16, <3>1, <3>5, <3>6
    <2> QED BY <2>4, <2>5
<1> QED BY <1>10, <1>12, <1>15, <1>16 DEF ReadUpTo, ReadTo

\* What has been read is a piece of the answer.
LEMMA ReadIsAnswer ==
    ASSUME req \in Requests, NEW g, NEW r \in Int, ReadTo(g, r), r < DummyAt
    PROVE  /\ IsPrefix(g, Answer) \/ (IsSlow /\ IsPrefix(g, BusyCode))
           /\ r = DummyAt - 1 => g = Answer
<1>1. Sound
    BY StreamFacts
<1>2. g \in Seq(Bytes) /\ Answer \in Seq(Bytes) /\ BusyCode \in Seq(Bytes)
    BY <1>1, BusyFacts DEF ReadTo, Sound
<1>3. ASSUME NEW s \in Seq(Bytes), Len(g) <= Len(s),
             \A i \in 1..Len(g) : g[i] = s[i]
      PROVE  IsPrefix(g, s)
    <2>1. Len(g) \in Nat /\ Len(s) \in Nat
        BY <1>2
    <2>2. /\ \A i \in 1..Len(g) : g[i] \in Bytes /\ s[i] \in Bytes
        BY <1>2, <1>3, <2>1, ElementOfSeq
    <2>3. /\ SubSeq(g, 1, Len(g)) \in Seq(Bytes)
          /\ Len(SubSeq(g, 1, Len(g))) = Len(g)
          /\ \A i \in 1..Len(g) : SubSeq(g, 1, Len(g))[i] = g[i]
        BY <1>2, <2>1, <2>2
    <2>4. /\ SubSeq(s, 1, Len(g)) \in Seq(Bytes)
          /\ Len(SubSeq(s, 1, Len(g))) = Len(g)
          /\ \A i \in 1..Len(g) : SubSeq(s, 1, Len(g))[i] = s[i]
        BY <1>2, <1>3, <2>1, <2>2
    <2>5. SubSeq(g, 1, Len(g)) = SubSeq(s, 1, Len(g))
        BY <1>3, <2>3, <2>4, SeqEqual
    <2> QED BY <1>3, <2>5 DEF IsPrefix
<1>4. CASE r >= 1 /\ Len(g) = r /\ \A i \in 1..r : g[i] = Answer[i]
    <2>1. Len(g) <= Len(Answer)
        BY <1>1, <1>4 DEF Sound
    <2>2. IsPrefix(g, Answer)
        BY <1>2, <1>3, <1>4, <2>1
    <2>3. ASSUME r = DummyAt - 1
          PROVE  g = Answer
        <3>1. Len(g) = Len(Answer)
            BY <1>1, <1>4, <2>3 DEF Sound
        <3> QED BY <1>2, <1>4, <3>1, SeqEqual
    <2> QED BY <2>2, <2>3
<1>5. CASE r <= 0 /\ g = <<>>
    <2>1. Len(g) = 0 /\ Len(Answer) \in Nat
        BY <1>2, <1>5
    <2>2. IsPrefix(g, Answer)
        BY <1>2, <1>3, <2>1
    <2>3. r # DummyAt - 1
        BY <1>1, <1>5 DEF Sound
    <2> QED BY <2>2, <2>3
<1>6. CASE /\ req.kind \in Slow /\ r <= 0
           /\ Len(g) = 1 + ((r - 1) % WordSize)
           /\ \A i \in 1..Len(g) : g[i] = BusyCode[i]
    <2>1. (r - 1) % W \in 0..(W - 1)
        <3>1. r - 1 \in Int
            OBVIOUS
        <3> QED BY <3>1, ModStep
    <2>2. Len(g) <= Len(BusyCode)
        BY <1>6, <2>1, BusyFacts, WordSizeFacts
    <2>3. IsPrefix(g, BusyCode)
        BY <1>2, <1>3, <1>6, <2>2
    <2>4. r # DummyAt - 1
        BY <1>1, <1>6 DEF Sound
    <2> QED BY <1>6, <2>3, <2>4 DEF IsSlow, Slow
<1>7. \/ r >= 1 /\ Len(g) = r /\ \A i \in 1..r : g[i] = Answer[i]
      \/ r <= 0 /\ g = <<>>
      \/ /\ req.kind \in Slow /\ r <= 0
         /\ Len(g) = 1 + ((r - 1) % WordSize)
         /\ \A i \in 1..Len(g) : g[i] = BusyCode[i]
    BY DEF ReadTo
<1> QED BY <1>4, <1>5, <1>6, <1>7

-----------------------------------------------------------------------------
(***************************************************************************)
(* The control lists                                                       *)
(***************************************************************************)
EotList == NO_STATUS_WITH_DATA_NO_CRC

LEMMA Lists ==
    /\ Head(NullList) = CONTROL_BLOCK_NULL
    /\ Head(EotList) = CONTROL_BLOCK_EOT /\ Tail(EotList) = NullList
    /\ Head(CrcList) = CONTROL_BLOCK_CRC /\ Tail(CrcList) = EotList
    /\ Head(WITH_STATUS_NO_DATA_NO_CRC) = CONTROL_BLOCK_STATUS_CODE("ctrl1")
    /\ Tail(WITH_STATUS_NO_DATA_NO_CRC) = EotList
    /\ Head(WITH_STATUS_WITH_DATA_NO_CRC) = CONTROL_BLOCK_STATUS_CODE("ctrl2")
    /\ Tail(WITH_STATUS_WITH_DATA_NO_CRC) = EotList
    /\ Head(StatusCrcList) = CONTROL_BLOCK_STATUS_CODE("ctrl2")
    /\ Tail(StatusCrcList) = CrcList
    /\ Head(WITH_STATUS_WITH_DATA_WITH_CRC) = CONTROL_BLOCK_SNIFFER_SETUP("ctrl1")
    /\ Tail(WITH_STATUS_WITH_DATA_WITH_CRC) = StatusCrcList
    /\ Head(NO_STATUS_WITH_DATA_WITH_CRC) = CONTROL_BLOCK_SNIFFER_SETUP("ctrl2")
    /\ Tail(NO_STATUS_WITH_DATA_WITH_CRC) = CrcList
    /\ Head(CONTROL_BLOCKS_DATA_OUT) = Block("data", "ctrl1")
<1>1. /\ Head(NullList) = CONTROL_BLOCK_NULL
      /\ Head(EotList) = CONTROL_BLOCK_EOT /\ Tail(EotList) = NullList
    BY DEF NullList, EotList, NO_STATUS_WITH_DATA_NO_CRC
<1>2. Head(CrcList) = CONTROL_BLOCK_CRC /\ Tail(CrcList) = EotList
    BY DEF CrcList, EotList, NO_STATUS_WITH_DATA_NO_CRC
<1>3. /\ Head(WITH_STATUS_NO_DATA_NO_CRC) = CONTROL_BLOCK_STATUS_CODE("ctrl1")
      /\ Tail(WITH_STATUS_NO_DATA_NO_CRC) = EotList
    BY DEF WITH_STATUS_NO_DATA_NO_CRC, EotList, NO_STATUS_WITH_DATA_NO_CRC
<1>4. /\ Head(WITH_STATUS_WITH_DATA_NO_CRC) = CONTROL_BLOCK_STATUS_CODE("ctrl2")
      /\ Tail(WITH_STATUS_WITH_DATA_NO_CRC) = EotList
    BY DEF WITH_STATUS_WITH_DATA_NO_CRC, EotList, NO_STATUS_WITH_DATA_NO_CRC
<1>5. /\ Head(StatusCrcList) = CONTROL_BLOCK_STATUS_CODE("ctrl2")
      /\ Tail(StatusCrcList) = CrcList
    BY DEF StatusCrcList, CrcList
<1>6. /\ Head(WITH_STATUS_WITH_DATA_WITH_CRC) = CONTROL_BLOCK_SNIFFER_SETUP("ctrl1")
      /\ Tail(WITH_STATUS_WITH_DATA_WITH_CRC) = StatusCrcList
    BY DEF StatusCrcList, WITH_STATUS_WITH_DATA_WITH_CRC
<1>7. /\ Head(NO_STATUS_WITH_DATA_WITH_CRC) = CONTROL_BLOCK_SNIFFER_SETUP("ctrl2")
      /\ Tail(NO_STATUS_WITH_DATA_WITH_CRC) = CrcList
    BY DEF CrcList, NO_STATUS_WITH_DATA_WITH_CRC
<1>8. Head(CONTROL_BLOCKS_DATA_OUT) = Block("data", "ctrl1")
    BY DEF CONTROL_BLOCKS_DATA_OUT
<1> QED BY <1>1, <1>2, <1>3, <1>4, <1>5, <1>6, <1>7, <1>8

\* Lists that are loaded are not empty.
LEMMA ListsGoOn ==
    /\ NullList # <<>> /\ EotList # <<>> /\ CrcList # <<>> /\ StatusCrcList # <<>>
    /\ WITH_STATUS_NO_DATA_NO_CRC # <<>> /\ WITH_STATUS_WITH_DATA_NO_CRC # <<>>
    /\ WITH_STATUS_WITH_DATA_WITH_CRC # <<>>
    /\ NO_STATUS_WITH_DATA_WITH_CRC # <<>> /\ CONTROL_BLOCKS_DATA_OUT # <<>>
BY DEF NullList, EotList, CrcList, StatusCrcList, NO_STATUS_WITH_DATA_NO_CRC,
       WITH_STATUS_NO_DATA_NO_CRC, WITH_STATUS_WITH_DATA_NO_CRC,
       WITH_STATUS_WITH_DATA_WITH_CRC, NO_STATUS_WITH_DATA_WITH_CRC,
       CONTROL_BLOCKS_DATA_OUT

\* What CTRL1 makes of a block
LEMMA Blocks ==
    ASSUME dma.ch = "ctrl1", Ctrl1
    PROVE  /\ Head(list1) = CONTROL_BLOCK_NULL => dma' = NoDma /\ sniffed' = sniffed
           /\ Head(list1) = CONTROL_BLOCK_EOT =>
                /\ dma' = [ch |-> "data1", left |-> <<ZERO>>, chain |-> "ctrl1"]
                /\ sniffed' = sniffed
           /\ Head(list1) = CONTROL_BLOCK_CRC =>
                dma' = [ch |-> "data1", left |-> CrcOf(sniffed), chain |-> "ctrl1"]
           /\ \A c : Head(list1) = CONTROL_BLOCK_STATUS_CODE(c) =>
                /\ dma' = [ch |-> "data1", left |-> Status(code), chain |-> c]
                /\ sniffed' = sniffed
           /\ \A c : Head(list1) = CONTROL_BLOCK_SNIFFER_SETUP(c) =>
                /\ dma' = [ch |-> "data1", left |-> <<>>, chain |-> c]
                /\ sniffed' = <<>>
<1>1. Head(list1) = CONTROL_BLOCK_NULL => dma' = NoDma /\ sniffed' = sniffed
    BY DEF Ctrl1, CONTROL_BLOCK_NULL, Block
<1>2. Head(list1) = CONTROL_BLOCK_EOT =>
         /\ dma' = [ch |-> "data1", left |-> <<ZERO>>, chain |-> "ctrl1"]
         /\ sniffed' = sniffed
    BY DEF Ctrl1, CONTROL_BLOCK_EOT, Block
<1>3. Head(list1) = CONTROL_BLOCK_CRC =>
         dma' = [ch |-> "data1", left |-> CrcOf(sniffed), chain |-> "ctrl1"]
    BY DEF Ctrl1, CONTROL_BLOCK_CRC, Block
<1>4. ASSUME NEW c, Head(list1) = CONTROL_BLOCK_STATUS_CODE(c)
      PROVE  /\ dma' = [ch |-> "data1", left |-> Status(code), chain |-> c]
             /\ sniffed' = sniffed
    BY <1>4 DEF Ctrl1, CONTROL_BLOCK_STATUS_CODE, Block
<1>5. ASSUME NEW c, Head(list1) = CONTROL_BLOCK_SNIFFER_SETUP(c)
      PROVE  /\ dma' = [ch |-> "data1", left |-> <<>>, chain |-> c]
             /\ sniffed' = <<>>
    BY <1>5 DEF Ctrl1, CONTROL_BLOCK_SNIFFER_SETUP, Block
<1> QED BY <1>1, <1>2, <1>3, <1>4, <1>5
-----------------------------------------------------------------------------
(***************************************************************************)
(* What the steps of the DMA have in common                                *)
(***************************************************************************)
Going == ~sniffing /\ core0 \notin {"load", "busy"} /\ core1 # "sniff"

\* The DMA is only ever active while an answer goes out.
LEMMA DmaContext ==
    ASSUME IInv, dma # NoDma
    PROVE  /\ Going /\ Answering /\ req \in Requests /\ Parts /\ Sound
           /\ core1 # "stop"
<1>1. ~sniffing
    BY DEF IInv, QuietInv, AtRest
<1>2. core0 \notin {"load", "busy"}
    BY DEF IInv, PreparedInv, AtRest
<1>3. core1 \notin {"sniff", "stop"}
    BY DEF IInv, OverInv, CoresInv, AtRest
<1>4. req \in Requests
    BY <1>1 DEF IInv, CoresInv
<1> QED BY <1>1, <1>2, <1>3, <1>4, StreamFacts DEF IInv, AnswerInv, Going

LEMMA EndFacts ==
    ASSUME req \in Requests
    PROVE  /\ End \in 1..(DummyAt + 1) /\ DataAt \in 1..DummyAt
           /\ Intact => End = DummyAt + 1
           /\ ~Intact => End = DataAt /\ req.kind \in WithData
<1>1. Parts /\ Sound
    BY StreamFacts
<1>2. DummyAt \in Nat /\ DataAt \in Nat /\ DummyAt > 2 /\ CrcAt \in Nat
    BY <1>1 DEF Sound
<1>3. /\ req.data \in Seq(DataBytes) /\ Len(req.data) \in Nat
      /\ req.kind = "patch" => req.kind \in WithData
    BY RequestFacts DEF WithData
<1>4. DataAt >= 1
    BY <1>1, WordSizeFacts DEF Parts
<1>5. CASE req.kind \in WithData
    <2>1. DataAt + Len(req.data) = CrcAt /\ CrcAt <= DummyAt
        BY <1>1, <1>5 DEF Parts
    <2>2. DataAt <= DummyAt
        BY <1>2, <1>3, <2>1
    <2> QED BY <1>2, <1>4, <1>5, <2>2 DEF End, Intact
<1>6. CASE req.kind \notin WithData
    <2>1. DummyAt = W + 1 /\ DataAt = W + 1
        BY <1>1, <1>3, <1>6 DEF Parts
    <2> QED BY <1>2, <1>6, <2>1, WordSizeFacts DEF End, Intact
<1> QED BY <1>5, <1>6

LEMMA DmaKeeps ==
    ASSUME IInv, dma # NoDma,
           UNCHANGED <<c0, pong, sm, osr, pins, drive, irq, sniffing, core1, oe,
                       got, late>>,
           TypeOK', Answering', BusyInv', (dma.ch = "idle" => dma = NoDma)'
    PROVE  IInv'
<1>1. Going /\ req \in Requests /\ core1 # "stop"
    BY DmaContext
<1>2. /\ core0' = core0 /\ req' = req /\ sniffing' = sniffing /\ core1' = core1
      /\ sm' = sm /\ irq' = irq /\ got' = got /\ late' = late
    BY DEF c0
<1>3. QuietInv'
    BY <1>1, <1>2 DEF QuietInv, Going
<1>4. PreparedInv'
    BY <1>1, <1>2 DEF PreparedInv, Going
<1>5. AnswerInv'
    BY DEF AnswerInv
<1>6. OverInv'
    BY <1>1, <1>2 DEF OverInv, Going
<1>7. CoresInv'
    BY <1>1, <1>2 DEF IInv, CoresInv
<1>8. ReadsAnswer'
    BY <1>2 DEF IInv, ReadsAnswer, Answer, IsSlow
<1>9. LateInv'
    BY <1>2 DEF IInv, LateInv, StatusComesSoon
<1> QED BY <1>3, <1>4, <1>5, <1>6, <1>7, <1>8, <1>9 DEF IInv

\* The SM and the console stay where they are while the DMA goes on.
LEMMA BusKept ==
    ASSUME IInv, dma # NoDma,
           UNCHANGED <<c0, sm, pins, drive, irq, core1, oe, got, late>>,
           NEW k \in Int, Shown(k), EndSeen(k), Soon(k),
           fifo' = <<>> => fifo = <<>>
    PROVE  Shown(k)' /\ EndSeen(k)' /\ Soon(k)'
<1>1. /\ core0' = core0 /\ req' = req /\ core1' = core1 /\ ctrl2_ok' = ctrl2_ok
      /\ sm' = sm /\ irq' = irq /\ got' = got /\ late' = late
    BY DEF c0
<1>2. core1 # "stop"
    BY DmaContext
<1>3. End' = End
    BY <1>1 DEF End, Intact, DummyAt, DataAt, Answer
<1>4. Shown(k)'
    BY <1>1 DEF Shown, ReadUpTo, ReadTo, Byte, Answer
<1>5. EndSeen(k)'
    BY <1>1, <1>2, <1>3 DEF EndSeen
<1>6. Soon(k)'
    BY <1>1 DEF Soon
<1> QED BY <1>4, <1>5, <1>6

LEMMA Positions ==
    ASSUME TypeOK, NEW e \in Int
    PROVE  /\ Len(dma.left) \in Nat /\ Len(fifo) \in Nat /\ InOsr \in 0..1
           /\ Next1(e) \in Int
           /\ e = Next1(e) + InOsr + Len(fifo) + Len(dma.left)
<1>1. dma.left \in Seq(Bytes) /\ fifo \in Seq(Bytes)
    BY DEF TypeOK
<1>2. Len(dma.left) \in Nat /\ Len(fifo) \in Nat /\ InOsr \in 0..1
    BY <1>1 DEF InOsr
<1> QED BY <1>2 DEF Next1

\* A channel gets bytes to send that follow what there is.
LEMMA Filled ==
    ASSUME TypeOK, req' = req, fifo' = fifo, osr' = osr, sm' = sm,
           NEW e \in Int, Pipe(e), dma.left = <<>>,
           NEW l \in Seq(Bytes), dma'.left = l, NEW f \in Int, f = e + Len(l),
           \A i \in 1..Len(l) : l[i] = Byte((e + i) - 1)
    PROVE  Pipe(f)' /\ Next1(f)' = Next1(e)
<1>1. Len(dma.left) = 0 /\ Len(l) \in Nat
    OBVIOUS
<1>2. Len(fifo) \in Nat /\ InOsr \in 0..1 /\ InOsr' = InOsr
    BY Positions DEF InOsr
<1>3. Next1(f)' = f - (Len(l) + Len(fifo) + InOsr)
    BY <1>2 DEF Next1
<1>4. Next1(e) = e - (0 + Len(fifo) + InOsr)
    BY <1>1 DEF Next1
<1>5. Next1(f)' = Next1(e)
    BY <1>1, <1>2, <1>3, <1>4
<1>6. f - Len(l) = e
    BY <1>1
<1>9. \A i \in 1..Len(fifo') : fifo'[i] = Byte((Next1(e) + InOsr + i) - 1)
    BY DEF Pipe
<1>10. \A i \in 1..Len(l) : l[i] = Byte(((f - Len(l)) + i) - 1)
    BY <1>6
<1>11. Byte(Next1(f))' = Byte(Next1(e))
    BY <1>5, StreamKept DEF Byte
<1>12. sm' = "loop" => Len(osr') = 1 /\ osr'[1] = Byte(Next1(f))'
    BY <1>11 DEF Pipe
<1>13. \A i : Byte((Next1(f) + InOsr + i) - 1)' = Byte((Next1(e) + InOsr + i) - 1)
    BY <1>2, <1>5, StreamKept DEF Byte
<1>14. \A i \in 1..Len(fifo') : fifo'[i] = Byte((Next1(f) + InOsr + i) - 1)'
    BY <1>9, <1>13
<1>15. \A i : Byte(((f - Len(dma.left)) + i) - 1)' = Byte(((f - Len(l)) + i) - 1)
    BY StreamKept DEF Byte
<1>16. \A i \in 1..Len(dma'.left) : dma'.left[i] = Byte(((f - Len(dma.left)) + i) - 1)'
    BY <1>10, <1>15
<1>17. Pipe(f)'
    BY <1>12, <1>14, <1>16 DEF Pipe
<1> QED BY <1>5, <1>17

\* So the answer goes on.
LEMMA GoesOn ==
    ASSUME IInv, dma # NoDma,
           UNCHANGED <<c0, pio, sniffing, core1, oe, got, late>>,
           NEW e \in 1..(DummyAt + 1), Pipe(e),
           Shown(Next1(e)), EndSeen(Next1(e)), Soon(Next1(e)), dma.left = <<>>,
           NEW l \in Seq(Bytes), dma'.left = l,
           NEW f \in 1..(DummyAt + 1), f = e + Len(l),
           \A i \in 1..Len(l) : l[i] = Byte((e + i) - 1),
           Plan(f)'
    PROVE  Answering'
<1>1. /\ req \in Requests /\ Sound
    BY DmaContext
<1>2. DummyAt \in Nat /\ DummyAt' = DummyAt /\ e \in Int /\ f \in Int
    BY <1>1, StreamKept DEF Sound, c0
<1>3. TypeOK
    BY DEF IInv
<1>4. req' = req /\ fifo' = fifo /\ osr' = osr /\ sm' = sm
    BY DEF c0, pio
<1>5. Pipe(f)' /\ Next1(f)' = Next1(e)
    BY <1>2, <1>3, <1>4, Filled
<1>6. Next1(e) \in Int
    BY <1>2, <1>3, Positions
<1> DEFINE k == Next1(e)
<1>7. k \in Int /\ Shown(k) /\ EndSeen(k) /\ Soon(k)
    BY <1>6
<1>8. PICK m \in Int : m = k
    BY <1>6
<1>9. Shown(m) /\ EndSeen(m) /\ Soon(m)
    BY <1>7, <1>8
<1>10. Shown(m)' /\ EndSeen(m)' /\ Soon(m)'
    BY <1>4, <1>9, BusKept DEF pio
<1>11. Next1(f)' = m
    BY <1>5, <1>8
<1>12. Shown(Next1(f))' /\ EndSeen(Next1(f))' /\ Soon(Next1(f))'
    BY <1>10, <1>11 DEF Shown, EndSeen, Soon, ReadUpTo, ReadTo, Byte
<1>13. f \in 1..(DummyAt' + 1)
    BY <1>2
<1> QED BY <1>5, <1>12, <1>13 DEF Answering

\* CTRL1 and DATA1
LEMMA Loaded1 ==
    ASSUME IInv, Ctrl1,
           NEW e \in 1..(DummyAt + 1), Pipe(e),
           Shown(Next1(e)), EndSeen(Next1(e)), Soon(Next1(e)), dma.left = <<>>,
           NEW l \in Seq(Bytes), NEW c \in {"ctrl1", "ctrl2"},
           dma' = [ch |-> "data1", left |-> l, chain |-> c],
           NEW f \in 1..(DummyAt + 1), f = e + Len(l),
           \A i \in 1..Len(l) : l[i] = Byte((e + i) - 1),
           IF c = "ctrl1" THEN From1(f)' ELSE From2(f)'
    PROVE  IInv'
<1>1. dma.ch = "ctrl1" /\ dma # NoDma
    BY DEF Ctrl1, NoDma
<1>2. UNCHANGED <<c0, list2, pong, ping_at, pio, sniffing, core1, oe, got, late>>
    BY DEF Ctrl1
<1>3. dma'.ch = "data1" /\ dma'.left = l /\ dma'.chain = c
    OBVIOUS
<1>4. Plan(f)'
    BY <1>3 DEF Plan
<1>5. Answering'
    BY <1>1, <1>2, <1>3, <1>4, GoesOn
<1>6. TypeOK'
    <2>1. dma' \in [ch : {"idle", "ctrl1", "ctrl2", "data1", "data2", "ping", "pong"},
                    left : Seq(Bytes), chain : {"none", "ctrl1", "ctrl2", "pong"}]
        OBVIOUS
    <2> QED BY <1>2, <1>3, <2>1 DEF IInv, TypeOK, c0, pio
<1>7. BusyInv'
    <2>1. /\ ping_at = 0
          /\ ~(core0 \in {"execute", "status", "chain"}
               \/ (core0 = "start" /\ req.kind \in Slow))
        BY <1>1 DEF IInv, BusyInv
    <2> QED BY <1>2, <1>3, <2>1 DEF BusyInv, c0
<1>8. (dma.ch = "idle" => dma = NoDma)'
    BY <1>3
<1> QED BY <1>1, <1>2, <1>5, <1>6, <1>7, <1>8, DmaKeeps DEF pio

\* The end of a list
LEMMA AtNull ==
    ASSUME IInv, dma # NoDma, dma.ch \in {"ctrl1", "ctrl2"},
           UNCHANGED <<c0, pong, ping_at, pio, sniffing, core1, oe, got, late>>,
           NEW e \in 1..(DummyAt + 1), Pipe(e), e = End,
           Shown(Next1(e)), EndSeen(Next1(e)), Soon(Next1(e)), dma.left = <<>>,
           dma' = NoDma
    PROVE  IInv'
<1>1. dma'.ch = "idle" /\ dma'.left = <<>> /\ <<>> \in Seq(Bytes) /\ Len(<<>>) = 0
    BY DEF NoDma
<1>2. req \in Requests /\ Sound
    BY DmaContext
<1>3. End' = End /\ e \in Int
    BY <1>2 DEF End, Intact, DummyAt, DataAt, Answer, c0, Sound
<1>4. Plan(e)'
    BY <1>3 DEF Plan
<1>5. \A i \in 1..Len(<<>>) : <<>>[i] = Byte((e + i) - 1)
    BY <1>1
<1>6. Answering'
    <2>1. PICK l \in Seq(Bytes) : l = <<>>
        BY <1>1
    <2>2. dma'.left = l /\ e = e + Len(l) /\ \A i \in 1..Len(l) : l[i] = Byte((e + i) - 1)
        BY <1>1, <1>3, <2>1
    <2> QED BY <1>4, <2>2, GoesOn
<1>7. TypeOK'
    <2>1. dma' \in [ch : {"idle", "ctrl1", "ctrl2", "data1", "data2", "ping", "pong"},
                    left : Seq(Bytes), chain : {"none", "ctrl1", "ctrl2", "pong"}]
        BY <1>1 DEF NoDma
    <2> QED BY <1>1, <2>1 DEF IInv, TypeOK, c0, pio
<1>8. BusyInv'
    <2>1. /\ ping_at = 0
          /\ ~(core0 \in {"execute", "status", "chain"}
               \/ (core0 = "start" /\ req.kind \in Slow))
        BY DEF IInv, BusyInv
    <2> QED BY <1>1, <2>1 DEF BusyInv, c0
<1> QED BY <1>6, <1>7, <1>8, DmaKeeps DEF pio

LEMMA SeqFacts ==
    /\ <<>> \in Seq(Bytes) /\ Len(<<>>) = 0
    /\ \A b \in Bytes : <<b>> \in Seq(Bytes) /\ Len(<<b>>) = 1 /\ <<b>>[1] = b
OBVIOUS

LEMMA Ctrl1Step ==
    ASSUME IInv, Ctrl1
    PROVE  IInv'
<1>1. dma.ch = "ctrl1" /\ dma # NoDma
    BY DEF Ctrl1, NoDma
<1>2. /\ req \in Requests /\ Parts /\ Sound /\ Answering
    BY <1>1, DmaContext
<1>3. UNCHANGED <<c0, list2, pong, ping_at, pio, sniffing, core1, oe, got, late>>
    BY DEF Ctrl1
<1>4. PICK e \in 1..(DummyAt + 1) :
            /\ Plan(e) /\ Pipe(e)
            /\ Shown(Next1(e)) /\ EndSeen(Next1(e)) /\ Soon(Next1(e))
    BY <1>2 DEF Answering
<1>5. dma.left = <<>> /\ From1(e)
    BY <1>1, <1>4 DEF Plan, NoDma
<1>6. list1' = Tail(list1)
    BY DEF Ctrl1
<1>7. /\ Intact' = Intact /\ DummyAt' = DummyAt /\ DataAt' = DataAt /\ CrcAt' = CrcAt
      /\ req' = req /\ DataReady' = DataReady /\ code' = code
    BY <1>3 DEF Intact, DummyAt, DataAt, CrcAt, Answer, DataReady, c0
<1>8. /\ DummyAt \in Nat /\ DummyAt > 2 /\ DataAt \in Nat /\ CrcAt \in Nat /\ e \in Int
      /\ W \in Nat /\ W > 2
    BY <1>2, WordSizeFacts DEF Sound
<1>9. DataAt \in 1..DummyAt
    BY <1>2, EndFacts
<1>10. CASE Intact /\ list1 = NullList /\ e = DummyAt + 1
    <2>1. dma' = NoDma
        BY <1>1, <1>10, Blocks, Lists
    <2>2. e = End
        BY <1>10 DEF End
    <2> QED BY <1>1, <1>3, <1>4, <1>5, <2>1, <2>2, AtNull
<1>11. CASE Intact /\ list1 = EotList /\ e = DummyAt
    <2>1. dma' = [ch |-> "data1", left |-> <<ZERO>>, chain |-> "ctrl1"]
        BY <1>1, <1>11, Blocks, Lists
    <2>2. PICK l : l = <<ZERO>>
        OBVIOUS
    <2>3. l \in Seq(Bytes) /\ Len(l) = 1 /\ l[1] = ZERO
        BY <1>2, <2>2, ByteTypes, SeqFacts
    <2>4. list1' = NullList
        BY <1>6, <1>11, Lists
    <2>5. PICK f \in 1..(DummyAt + 1) : f = e + Len(l) /\ f = DummyAt + 1
        BY <1>8, <1>11, <2>3
    <2>6. From1(f)'
        BY <1>7, <1>11, <2>4, <2>5 DEF From1
    <2>7. \A i \in 1..Len(l) : l[i] = Byte((e + i) - 1)
        <3>1. (e + 1) - 1 = e /\ Byte(e) = ZERO
            BY <1>2, <1>8, <1>11 DEF Sound
        <3>2. \A i \in 1..Len(l) : i = 1
            BY <2>3
        <3> QED BY <2>3, <3>1, <3>2
    <2>8. dma' = [ch |-> "data1", left |-> l, chain |-> "ctrl1"]
        BY <2>1, <2>2
    <2> QED BY <1>4, <1>5, <2>3, <2>5, <2>6, <2>7, <2>8, Loaded1
<1>12. CASE Intact /\ list1 = CrcList /\ req.crc /\ e = CrcAt /\ sniffed = req.data
    <2>1. dma' = [ch |-> "data1", left |-> CrcOf(req.data), chain |-> "ctrl1"]
        BY <1>1, <1>12, Blocks, Lists
    <2>2. PICK l : l = CrcOf(req.data)
        OBVIOUS
    <2>3. l \in Seq(Bytes) /\ Len(l) = W
        BY <1>2, <2>2, ByteTypes
    <2>4. list1' = EotList
        BY <1>6, <1>12, Lists
    <2>5. DummyAt = CrcAt + W
        BY <1>2, <1>12 DEF Parts
    <2>6. PICK f \in 1..(DummyAt + 1) : f = e + Len(l) /\ f = DummyAt
        BY <1>8, <1>12, <2>3, <2>5
    <2>7. From1(f)'
        BY <1>7, <1>12, <2>4, <2>6 DEF From1, EotList
    <2>8. \A i \in 1..Len(l) : l[i] = Byte((e + i) - 1)
        BY <1>2, <1>12, <2>2, <2>3 DEF Parts
    <2>9. dma' = [ch |-> "data1", left |-> l, chain |-> "ctrl1"]
        BY <2>1, <2>2
    <2> QED BY <1>4, <1>5, <2>3, <2>6, <2>7, <2>8, <2>9, Loaded1
<1>13. ASSUME e = 1, req.kind # "patch", code = req.code,
              NEW c \in {"ctrl1", "ctrl2"},
              Head(list1) = CONTROL_BLOCK_STATUS_CODE(c),
              \A f : f = W + 1 /\ f \in Nat =>
                    IF c = "ctrl1" THEN From1(f)' ELSE From2(f)'
       PROVE  IInv'
    <2>1. dma' = [ch |-> "data1", left |-> Status(req.code), chain |-> c]
        BY <1>1, <1>13, Blocks
    <2>2. PICK l : l = Status(req.code)
        OBVIOUS
    <2>3. l \in Seq(Bytes) /\ Len(l) = W
        BY <1>2, <2>2, ByteTypes
    <2>4. \A i \in 1..W : (1 + i) - 1 = i
        BY <1>8
    <2>5. \A i \in 1..Len(l) : l[i] = Byte((e + i) - 1)
        BY <1>2, <1>13, <2>2, <2>3, <2>4 DEF Parts
    <2>6. W + 1 <= DummyAt
        BY <1>2, <1>9, <1>13 DEF Parts
    <2>7. PICK f \in 1..(DummyAt + 1) : f = e + Len(l) /\ f = W + 1 /\ f \in Nat
        BY <1>8, <1>13, <2>3, <2>6
    <2>8. dma' = [ch |-> "data1", left |-> l, chain |-> c]
        BY <2>1, <2>2
    <2>9. IF c = "ctrl1" THEN From1(f)' ELSE From2(f)'
        BY <1>13, <2>7
    <2> QED BY <1>4, <1>5, <2>3, <2>5, <2>7, <2>8, <2>9, Loaded1
<1>14. ASSUME e = 1, NEW c \in {"ctrl1", "ctrl2"},
              Head(list1) = CONTROL_BLOCK_SNIFFER_SETUP(c),
              IF c = "ctrl1" THEN From1(e)' ELSE From2(e)'
       PROVE  IInv'
    <2>1. dma' = [ch |-> "data1", left |-> <<>>, chain |-> c]
        BY <1>1, <1>14, Blocks
    <2>2. PICK l : l = <<>>
        OBVIOUS
    <2>3. l \in Seq(Bytes) /\ Len(l) = 0
        BY <2>2
    <2>4. e = e + Len(l) /\ \A i \in 1..Len(l) : l[i] = Byte((e + i) - 1)
        BY <1>8, <2>3
    <2>5. dma' = [ch |-> "data1", left |-> l, chain |-> c]
        BY <2>1, <2>2
    <2> QED BY <1>4, <1>5, <1>14, <2>3, <2>4, <2>5, Loaded1
<1>15. CASE /\ e = 1 /\ req.kind # "patch" /\ code = req.code
            /\ list1 = WITH_STATUS_NO_DATA_NO_CRC /\ req.kind \notin WithData
    <2>1. Head(list1) = CONTROL_BLOCK_STATUS_CODE("ctrl1") /\ list1' = EotList
        BY <1>6, <1>15, Lists
    <2>2. ASSUME NEW f, f = W + 1
          PROVE  From1(f)'
        <3>1. DummyAt = W + 1 /\ Intact
            BY <1>2, <1>15 DEF Parts, Intact
        <3> QED BY <1>7, <2>1, <2>2, <3>1 DEF From1, EotList
    <2> QED BY <1>13, <1>15, <2>1, <2>2
<1>16. CASE /\ e = 1 /\ req.kind # "patch" /\ code = req.code
            /\ list1 = WITH_STATUS_WITH_DATA_NO_CRC /\ ~req.crc /\ DataReady
    <2>1. Head(list1) = CONTROL_BLOCK_STATUS_CODE("ctrl2") /\ list1' = EotList
        BY <1>6, <1>16, Lists
    <2>2. ASSUME NEW f, f = W + 1
          PROVE  From2(f)'
        <3>1. DataAt = W + 1
            BY <1>2, <1>16 DEF Parts
        <3> QED BY <1>7, <1>16, <2>1, <2>2, <3>1 DEF From2, EotList
    <2> QED BY <1>13, <1>16, <2>1, <2>2
<1>17. CASE /\ e = 1 /\ req.kind # "patch" /\ code = req.code
            /\ list1 = StatusCrcList /\ req.crc /\ DataReady /\ sniffed = <<>>
    <2>1. Head(list1) = CONTROL_BLOCK_STATUS_CODE("ctrl2") /\ list1' = CrcList
        BY <1>6, <1>17, Lists
    <2>3. sniffed' = <<>>
        BY <1>1, <1>17, <2>1, Blocks
    <2>2. ASSUME NEW f, f = W + 1
          PROVE  From2(f)'
        <3>1. DataAt = W + 1
            BY <1>2, <1>17 DEF Parts
        <3> QED BY <1>7, <1>17, <2>1, <2>2, <2>3, <3>1 DEF From2
    <2> QED BY <1>13, <1>17, <2>1, <2>2
<1>18. CASE /\ e = 1 /\ req.kind # "patch" /\ code = req.code
            /\ list1 = WITH_STATUS_WITH_DATA_WITH_CRC /\ req.crc /\ DataReady
    <2>1. /\ Head(list1) = CONTROL_BLOCK_SNIFFER_SETUP("ctrl1")
          /\ list1' = StatusCrcList
        BY <1>6, <1>18, Lists
    <2>2. sniffed' = <<>>
        BY <1>1, <2>1, Blocks
    <2>3. From1(e)'
        BY <1>7, <1>18, <2>1, <2>2 DEF From1
    <2> QED BY <1>14, <1>18, <2>1, <2>3
<1>19. CASE /\ e = 1 /\ req.kind = "patch" /\ req.crc /\ DataReady
            /\ list1 = NO_STATUS_WITH_DATA_WITH_CRC
    <2>1. /\ Head(list1) = CONTROL_BLOCK_SNIFFER_SETUP("ctrl2")
          /\ list1' = CrcList
        BY <1>6, <1>19, Lists
    <2>2. sniffed' = <<>>
        BY <1>1, <2>1, Blocks
    <2>3. From2(e)'
        <3>1. DataAt = 1
            BY <1>2, <1>19 DEF Parts
        <3> QED BY <1>7, <1>19, <2>1, <2>2, <3>1 DEF From2
    <2> QED BY <1>14, <1>19, <2>1, <2>3
<1> QED BY <1>5, <1>10, <1>11, <1>12, <1>15, <1>16, <1>17, <1>18, <1>19
        DEF From1, EotList

Channels == {"idle", "ctrl1", "ctrl2", "data1", "data2", "ping", "pong"}

LEMMA Ctrl2Step ==
    ASSUME IInv, Ctrl2
    PROVE  IInv'
<1>1. dma.ch = "ctrl2" /\ dma # NoDma
    BY DEF Ctrl2, NoDma
<1>2. req \in Requests /\ Parts /\ Sound /\ Answering
    BY <1>1, DmaContext
<1>3. UNCHANGED <<c0, list1, pong, ping_at, sniffed, pio, sniffing, core1, oe, got, late>>
    BY DEF Ctrl2
<1>4. PICK e \in 1..(DummyAt + 1) :
            /\ Plan(e) /\ Pipe(e)
            /\ Shown(Next1(e)) /\ EndSeen(Next1(e)) /\ Soon(Next1(e))
    BY <1>2 DEF Answering
<1>5. dma.left = <<>> /\ From2(e)
    BY <1>1, <1>4 DEF Plan, NoDma
<1>6. Head(list2) = Block("data", "ctrl1")
    BY <1>5, Lists DEF From2, DataReady
<1>7. CASE ~ctrl2_ok
    <2>1. dma' = NoDma
        BY <1>7 DEF Ctrl2
    <2>2. e = End
        BY <1>5, <1>7 DEF From2, DataReady, End, Intact
    <2> QED BY <1>1, <1>3, <1>4, <1>5, <2>1, <2>2, AtNull
<1>8. CASE ctrl2_ok
    <2>1. dma' = [ch |-> "data2", left |-> data, chain |-> "ctrl1"]
        BY <1>6, <1>8 DEF Ctrl2, Block
    <2>2. PICK l : l = req.data
        OBVIOUS
    <2>3. /\ l \in Seq(Bytes) /\ Len(l) \in Nat /\ data = l
        BY <1>2, <1>5, <2>2, ByteTypes DEF From2, DataReady
    <2>4. dma'.ch = "data2" /\ dma'.left = l /\ dma'.chain = "ctrl1"
        BY <2>1, <2>3
    <2>5. DataAt + Len(l) = CrcAt /\ CrcAt <= DummyAt /\ req.kind \in WithData
        BY <1>2, <1>5, <2>2 DEF Parts, From2, DataReady
    <2>6. DummyAt \in Nat /\ e = DataAt
        BY <1>2, <1>5 DEF Sound, From2
    <2>7. PICK f \in 1..(DummyAt + 1) : f = e + Len(l) /\ f = CrcAt
        BY <2>3, <2>5, <2>6
    <2>8. \A i \in 1..Len(l) : l[i] = Byte((e + i) - 1)
        BY <1>2, <2>2, <2>5, <2>6 DEF Parts
    <2>9. DataGoes'
        <3>1. req' = req /\ ctrl2_ok' = ctrl2_ok /\ list1' = list1 /\ sniffed' = sniffed
            BY <1>3 DEF c0
        <3>2. ASSUME req.crc
              PROVE  /\ sniffed' \in Seq(DataBytes)
                     /\ Len(sniffed') + Len(dma'.left) = Len(req.data)
                     /\ \A i \in 1..Len(sniffed') : sniffed'[i] = req.data[i]
            <4>1. sniffed' = <<>>
                BY <1>5, <3>1, <3>2 DEF From2
            <4>2. Len(sniffed') = 0 /\ sniffed' \in Seq(DataBytes)
                BY <4>1
            <4> QED BY <2>2, <2>3, <2>4, <4>2
        <3> QED BY <1>5, <1>8, <2>5, <3>1, <3>2 DEF DataGoes, From2
    <2>10. Plan(f)'
        <3>1. CrcAt' = CrcAt
            BY <1>3, StreamKept DEF c0
        <3> QED BY <2>4, <2>7, <2>9, <3>1 DEF Plan
    <2>11. Answering'
        BY <1>1, <1>3, <1>4, <1>5, <2>3, <2>4, <2>7, <2>8, <2>10, GoesOn
    <2>12. TypeOK'
        <3>1. dma' \in [ch : Channels, left : Seq(Bytes),
                        chain : {"none", "ctrl1", "ctrl2", "pong"}]
            BY <2>1, <2>3 DEF Channels
        <3> QED BY <1>3, <2>4, <3>1 DEF IInv, TypeOK, Channels, c0, pio
    <2>13. BusyInv'
        <3>1. /\ ping_at = 0
              /\ ~(core0 \in {"execute", "status", "chain"}
                   \/ (core0 = "start" /\ req.kind \in Slow))
            BY <1>1 DEF IInv, BusyInv
        <3> QED BY <1>3, <2>4, <3>1 DEF BusyInv, c0
    <2> QED BY <1>1, <1>3, <2>4, <2>11, <2>12, <2>13, DmaKeeps DEF pio
<1> QED BY <1>7, <1>8

\* The parts of Answering that a step of the DMA leaves alone.
LEMMA StillAnswering ==
    ASSUME IInv, dma # NoDma, NEW e \in 1..(DummyAt + 1),
           UNCHANGED <<c0, sm, pins, drive, irq, core1, oe, got, late>>,
           Shown(Next1(e)), EndSeen(Next1(e)), Soon(Next1(e)),
           fifo' = <<>> => fifo = <<>>,
           Plan(e)', Pipe(e)', Next1(e)' = Next1(e)
    PROVE  Answering'
<1>1. Sound /\ DummyAt' = DummyAt
    BY DmaContext, StreamKept DEF c0
<1>2. e \in Int /\ TypeOK
    BY <1>1 DEF Sound, IInv
<1>3. Next1(e) \in Int
    BY <1>2, Positions
<1>4. PICK m \in Int : m = Next1(e)
    BY <1>3
<1>5. Shown(m) /\ EndSeen(m) /\ Soon(m)
    BY <1>4
<1>6. Shown(m)' /\ EndSeen(m)' /\ Soon(m)'
    BY <1>5, BusKept
<1>7. Next1(e)' = m
    BY <1>4
<1>8. Shown(Next1(e))' /\ EndSeen(Next1(e))' /\ Soon(Next1(e))'
    BY <1>6, <1>7 DEF Shown, EndSeen, Soon, ReadUpTo, ReadTo, Byte
<1>9. e \in 1..(DummyAt' + 1)
    BY <1>1
<1> QED BY <1>8, <1>9 DEF Answering

LEMMA TransferStep ==
    ASSUME IInv, Transfer
    PROVE  IInv'
<1> DEFINE h == Head(dma.left)
<1>1. dma.left # <<>> /\ dma # NoDma
    BY DEF Transfer, NoDma
<1>2. req \in Requests /\ Parts /\ Sound /\ Answering
    BY <1>1, DmaContext
<1>3. /\ UNCHANGED <<c0, list1, list2, pong, sm, osr, pins, drive, irq, sniffing,
                     core1, oe, got, late>>
      /\ fifo' = Append(fifo, h) /\ dma' = [dma EXCEPT !.left = Tail(dma.left)]
      /\ Len(fifo) < FifoDepth
      /\ sniffed' = IF dma.ch = "data2" /\ sniffed # Stale
                    THEN Append(sniffed, h) ELSE sniffed
      /\ ping_at' = IF dma.ch = "ping" THEN ping_at + 1 ELSE ping_at
    BY DEF Transfer
<1>4. PICK e \in 1..(DummyAt + 1) :
            /\ Plan(e) /\ Pipe(e)
            /\ Shown(Next1(e)) /\ EndSeen(Next1(e)) /\ Soon(Next1(e))
    BY <1>2 DEF Answering
<1>5. /\ dma \in [ch : Channels, left : Seq(Bytes),
                  chain : {"none", "ctrl1", "ctrl2", "pong"}]
      /\ dma.left \in Seq(Bytes) /\ fifo \in Seq(Bytes)
    BY DEF IInv, TypeOK, Channels
<1>6. /\ dma'.left = Tail(dma.left) /\ dma'.ch = dma.ch /\ dma'.chain = dma.chain
      /\ dma' \in [ch : Channels, left : Seq(Bytes),
                   chain : {"none", "ctrl1", "ctrl2", "pong"}]
    <2>1. Tail(dma.left) \in Seq(Bytes)
        BY <1>1, <1>5, HeadTailProperties
    <2> QED BY <1>3, <1>5, <2>1
<1>7. PICK n \in Nat : n = Len(dma.left) /\ n > 0
    BY <1>1, <1>5
<1>8. PICK q \in Nat : q = Len(fifo)
    BY <1>5
<1>9. /\ Len(dma'.left) = n - 1 /\ h = dma.left[1] /\ h \in Bytes
      /\ \A i \in 1..(n - 1) : dma'.left[i] = dma.left[i + 1]
    BY <1>1, <1>5, <1>6, <1>7, HeadTailProperties
<1>10. /\ fifo' \in Seq(Bytes) /\ Len(fifo') = q + 1 /\ fifo'[q + 1] = h
       /\ \A i \in 1..q : fifo'[i] = fifo[i]
    BY <1>3, <1>5, <1>8, <1>9, AppendProperties
<1>11. DummyAt \in Nat /\ e \in Int
    BY <1>2 DEF Sound
<1>12. PICK o \in 0..1 : o = InOsr
    BY DEF InOsr
<1>13. PICK k \in Int : k = Next1(e) /\ k = e - (n + q + o)
    <2>1. Next1(e) = e - (n + q + o)
        BY <1>7, <1>8, <1>12 DEF Next1
    <2>2. e - (n + q + o) \in Int
        BY <1>11
    <2> QED BY <2>1, <2>2
<1>14. InOsr' = o /\ Next1(e)' = k
    <2>1. InOsr' = o
        BY <1>3, <1>12 DEF InOsr
    <2>2. Next1(e)' = e - ((n - 1) + (q + 1) + o)
        BY <1>9, <1>10, <2>1 DEF Next1
    <2> QED BY <1>11, <1>13, <2>1, <2>2
<1>15. \A i : Byte(i)' = Byte(i)
    BY <1>3, StreamKept DEF c0
<1>16. h = Byte(e - n)
    <2>1. 1 \in 1..Len(dma.left) /\ ((e - n) + 1) - 1 = e - n
        BY <1>7, <1>11
    <2>2. dma.left[1] = Byte(((e - Len(dma.left)) + 1) - 1)
        BY <1>4, <2>1 DEF Pipe
    <2> QED BY <1>7, <1>9, <2>1, <2>2
<1>17. Pipe(e)'
    <2>1. sm' = "loop" => Len(osr') = 1 /\ osr'[1] = Byte(Next1(e))'
        <3>1. Byte(Next1(e))' = Byte(k)
            BY <1>3, <1>14, StreamKept DEF Byte, c0
        <3> QED BY <1>3, <1>4, <1>13, <3>1 DEF Pipe
    <2>2. ASSUME NEW i \in 1..Len(fifo')
          PROVE  fifo'[i] = Byte((k + o + i) - 1)
        <3>1. CASE i \in 1..q
            <4>1. fifo[i] = Byte((Next1(e) + InOsr + i) - 1)
                BY <1>4, <1>8, <3>1 DEF Pipe
            <4> QED BY <1>10, <1>12, <1>13, <3>1, <4>1
        <3>2. CASE i = q + 1
            <4>1. (k + o + (q + 1)) - 1 = e - n
                BY <1>11, <1>13
            <4> QED BY <1>10, <1>16, <3>2, <4>1
        <3> QED BY <1>10, <3>1, <3>2
    <2>3. \A i : Byte((Next1(e) + InOsr + i) - 1)' = Byte((k + o + i) - 1)
        BY <1>3, <1>14, StreamKept DEF Byte, c0
    <2>4. ASSUME NEW i \in 1..Len(dma'.left)
          PROVE  dma'.left[i] = Byte(((e - (n - 1)) + i) - 1)
        <3>1. i \in 1..(n - 1) /\ i + 1 \in 1..Len(dma.left)
              /\ ((e - n) + (i + 1)) - 1 = ((e - (n - 1)) + i) - 1
            BY <1>7, <1>9, <1>11
        <3>2. dma.left[i + 1] = Byte(((e - Len(dma.left)) + (i + 1)) - 1)
            BY <1>4, <3>1 DEF Pipe
        <3> QED BY <1>7, <1>9, <3>1, <3>2
    <2>5. \A i : Byte(((e - Len(dma.left)) + i) - 1)' = Byte(((e - (n - 1)) + i) - 1)
        <3>1. Len(dma'.left) = n - 1
            BY <1>9
        <3>2. Answer' = Answer
            BY <1>3, StreamKept DEF c0
        <3> QED BY <3>1, <3>2 DEF Byte
    <2> QED BY <2>1, <2>2, <2>3, <2>4, <2>5 DEF Pipe
<1>18. /\ Intact' = Intact /\ DummyAt' = DummyAt /\ DataAt' = DataAt /\ CrcAt' = CrcAt
       /\ req' = req /\ DataReady' = DataReady /\ code' = code /\ list1' = list1
       /\ core0' = core0 /\ ctrl2_ok' = ctrl2_ok
    BY <1>3 DEF Intact, DummyAt, DataAt, CrcAt, Answer, DataReady, c0
<1>19. \/ dma.ch = "data1" /\ dma.chain = "ctrl1" /\ From1(e)
       \/ dma.ch = "data1" /\ dma.chain = "ctrl2" /\ From2(e)
       \/ dma.ch = "data2" /\ dma.chain = "ctrl1" /\ DataGoes /\ e = CrcAt
       \/ /\ dma.ch = "ping" /\ dma.chain = "pong" /\ e = 1 /\ req.kind \in Slow
          /\ (pong = "ctrl1" \/ core0 = "chain") => ResultReady
    BY <1>1, <1>4 DEF Plan
<1>20. Plan(e)'
    <2>1. CASE dma.ch = "data1"
        <3>1. sniffed' = sniffed
            BY <1>3, <2>1
        <3>2. From1(e)' = From1(e) /\ From2(e)' = From2(e)
            BY <1>18, <3>1 DEF From1, From2
        <3> QED BY <1>6, <1>19, <2>1, <3>2 DEF Plan
    <2>2. CASE dma.ch = "data2" /\ dma.chain = "ctrl1" /\ DataGoes /\ e = CrcAt
        <3>1. CASE ~req.crc
            <4>1. DataGoes'
                BY <1>18, <2>2, <3>1 DEF DataGoes
            <4> QED BY <1>6, <1>18, <2>2, <4>1 DEF Plan
        <3>2. CASE req.crc
            <4>1. PICK m \in Nat : m = Len(sniffed)
                BY <2>2, <3>2 DEF DataGoes
            <4>2. m + n = Len(req.data)
                BY <1>7, <2>2, <3>2, <4>1 DEF DataGoes
            <4>3. PICK d \in Nat : d = Len(req.data)
                BY <1>2, RequestFacts
            <4>4. DataAt \in Nat /\ DataAt + d = CrcAt
                BY <1>2, <2>2, <4>3 DEF Parts, Sound, DataGoes
            <4>5. m + 1 \in 1..d /\ (DataAt + (m + 1)) - 1 = e - n
                <5>1. m + n = d
                    BY <4>2, <4>3
                <5>2. PICK a \in Nat : a = DataAt
                    BY <4>4
                <5>3. e = a + d
                    BY <2>2, <4>4, <5>2
                <5>4. (a + (m + 1)) - 1 = e - n
                    BY <5>1, <5>3
                <5>5. n > 0
                    BY <1>7
                <5>6. m + 1 \in 1..d
                    BY <5>1, <5>5
                <5> QED BY <5>2, <5>4, <5>6
            <4>6. req.data[m + 1] = h
                <5>1. req.data[m + 1] = Byte((DataAt + (m + 1)) - 1)
                    BY <1>2, <2>2, <4>3, <4>5 DEF Parts, DataGoes
                <5> QED BY <1>16, <4>5, <5>1
            <4>7. h \in DataBytes
                <5>1. req.data \in Seq(DataBytes)
                    BY <1>2, RequestFacts
                <5> QED BY <4>3, <4>5, <4>6, <5>1, ElementOfSeq
            <4>8. sniffed \in Seq(DataBytes)
                BY <2>2, <3>2 DEF DataGoes
            <4>9. sniffed # Stale
                <5>1. ASSUME sniffed = Stale
                      PROVE  FALSE
                    <6>1. Len(sniffed) = 1 /\ sniffed[1] = <<"stale">>
                        BY <5>1 DEF Stale
                    <6>2. <<"stale">> \in DataBytes
                        BY <4>8, <6>1, ElementOfSeq
                    <6> QED BY <6>2, RequestsAssumption
                <5> QED BY <5>1
            <4>10. sniffed' = Append(sniffed, h)
                BY <1>3, <2>2, <4>9
            <4>11. /\ sniffed' \in Seq(DataBytes) /\ Len(sniffed') = m + 1
                   /\ \A i \in 1..m : sniffed'[i] = sniffed[i]
                   /\ sniffed'[m + 1] = h
                BY <4>1, <4>7, <4>8, <4>10, AppendProperties
            <4>12. Len(sniffed') + Len(dma'.left) = Len(req.data)
                <5>1. Len(sniffed') = m + 1 /\ Len(dma'.left) = n - 1
                    BY <1>9, <4>11
                <5>2. (m + 1) + (n - 1) = m + n
                    OBVIOUS
                <5> QED BY <4>2, <5>1, <5>2
            <4>13. \A i \in 1..m : sniffed[i] = req.data[i]
                BY <2>2, <3>2, <4>1 DEF DataGoes
            <4>14. \A i \in 1..Len(sniffed') : sniffed'[i] = req.data[i]
                BY <4>6, <4>11, <4>13
            <4>15. DataGoes'
                BY <1>18, <2>2, <3>2, <4>11, <4>12, <4>14 DEF DataGoes
            <4> QED BY <1>6, <1>18, <2>2, <4>15 DEF Plan
        <3> QED BY <3>1, <3>2
    <2>3. CASE /\ dma.ch = "ping" /\ dma.chain = "pong" /\ e = 1 /\ req.kind \in Slow
               /\ (pong = "ctrl1" \/ core0 = "chain") => ResultReady
        <3>1. ResultReady' = ResultReady /\ pong' = pong
            BY <1>3, <1>18 DEF ResultReady
        <3> QED BY <1>6, <1>18, <2>3, <3>1 DEF Plan
    <2> QED BY <1>19, <2>1, <2>2, <2>3
<1>21. Answering'
    <2>1. fifo' # <<>>
        BY <1>10
    <2> QED BY <1>1, <1>3, <1>4, <1>13, <1>14, <1>17, <1>20, <2>1, StillAnswering
<1>22. PICK w \in Nat : w = WordSize
    BY WordSizeFacts DEF W
<1>23. /\ dma.ch = "ping" => ping_at = w - n
       /\ ping_at \in 0..w
    BY <1>7, <1>22 DEF IInv, BusyInv, TypeOK
<1>24. dma.ch = "ping" => ping_at' = w - (n - 1) /\ ping_at' \in 0..w
    <2> SUFFICES ASSUME dma.ch = "ping"
                 PROVE  ping_at' = w - (n - 1) /\ ping_at' \in 0..w
        OBVIOUS
    <2>1. ping_at' = ping_at + 1
        BY <1>3
    <2>2. ping_at = w - n /\ w - n \in 0..w
        BY <1>23
    <2>3. n > 0
        BY <1>7
    <2>4. (w - n) + 1 = w - (n - 1) /\ (w - n) + 1 \in 0..w
        BY <2>2, <2>3
    <2>5. ping_at' = (w - n) + 1
        BY <2>1, <2>2
    <2> QED BY <2>4, <2>5
<1>25. TypeOK'
    <2>1. Len(fifo') <= FifoDepth
        BY <1>3, <1>8, <1>10, FifoAssumption
    <2>2. ping_at' \in 0..w
        BY <1>3, <1>23, <1>24
    <2>3. dma'.ch \in {"data1", "data2", "ping"}
        BY <1>6, <1>19
    <2> QED BY <1>3, <1>6, <1>10, <1>18, <1>22, <2>1, <2>2, <2>3
            DEF IInv, TypeOK, Channels, c0
<1>26. BusyInv'
    <2>1. CASE dma.ch = "ping"
        BY <1>3, <1>6, <1>9, <1>18, <1>22, <1>24, <2>1 DEF IInv, BusyInv
    <2>2. CASE dma.ch # "ping"
        BY <1>3, <1>6, <1>18, <1>19, <2>2 DEF IInv, BusyInv
    <2> QED BY <2>1, <2>2
<1>27. (dma.ch = "idle" => dma = NoDma)'
    BY <1>6, <1>19
<1> QED BY <1>1, <1>3, <1>21, <1>25, <1>26, <1>27, DmaKeeps

\* A channel triggers another one: the stream goes on where it was.
LEMMA Triggered ==
    ASSUME IInv, dma # NoDma,
           UNCHANGED <<c0, list1, list2, pong, pio, sniffing, core1, oe, got, late>>,
           NEW e \in 1..(DummyAt + 1), Pipe(e),
           Shown(Next1(e)), EndSeen(Next1(e)), Soon(Next1(e)), dma.left = <<>>,
           NEW c \in {"ctrl1", "ctrl2", "pong"},
           dma' = [ch |-> c, left |-> <<>>, chain |-> "none"],
           c = "ctrl1" => list1 # <<>>, c = "ctrl2" => list2 # <<>>,
           ping_at' \in 0..WordSize, Plan(e)', BusyInv'
    PROVE  IInv'
<1>1. dma'.ch = c /\ dma'.left = <<>>
    OBVIOUS
<1>2. PICK l \in Seq(Bytes) : l = <<>> /\ Len(l) = 0
    BY SeqFacts
<1>3. e \in Int
    BY DmaContext DEF Sound
<1>4. dma'.left = l /\ e = e + Len(l) /\ \A i \in 1..Len(l) : l[i] = Byte((e + i) - 1)
    BY <1>1, <1>2, <1>3
<1>5. Answering'
    BY <1>4, GoesOn
<1>6. TypeOK'
    <2>1. dma' \in [ch : Channels, left : Seq(Bytes),
                    chain : {"none", "ctrl1", "ctrl2", "pong"}]
        BY SeqFacts DEF Channels
    <2> QED BY <1>1, <2>1 DEF IInv, TypeOK, Channels, c0, pio
<1>7. (dma.ch = "idle" => dma = NoDma)'
    BY <1>1
<1> QED BY <1>5, <1>6, <1>7, DmaKeeps DEF pio

LEMMA ChainStep ==
    ASSUME IInv, Chain
    PROVE  IInv'
<1>1. /\ dma.ch \in {"data1", "data2", "ping"} /\ dma.left = <<>> /\ dma # NoDma
      /\ dma' = Trigger(dma.chain)
      /\ UNCHANGED <<c0, list1, list2, pong, ping_at, sniffed, pio, sniffing, core1,
                     oe, got, late>>
    BY DEF Chain, NoDma
<1>2. req \in Requests /\ Parts /\ Sound /\ Answering
    BY <1>1, DmaContext
<1>3. PICK e \in 1..(DummyAt + 1) :
            /\ Plan(e) /\ Pipe(e)
            /\ Shown(Next1(e)) /\ EndSeen(Next1(e)) /\ Soon(Next1(e))
    BY <1>2 DEF Answering
<1>4. /\ Intact' = Intact /\ DummyAt' = DummyAt /\ DataAt' = DataAt /\ CrcAt' = CrcAt
      /\ req' = req /\ DataReady' = DataReady /\ code' = code /\ core0' = core0
    BY <1>1 DEF Intact, DummyAt, DataAt, CrcAt, Answer, DataReady, c0
<1>5. From1(e)' = From1(e) /\ From2(e)' = From2(e) /\ ResultReady' = ResultReady
    BY <1>1, <1>4 DEF From1, From2, ResultReady
<1>6. ping_at \in 0..WordSize /\ ping_at' = ping_at
    BY <1>1 DEF IInv, TypeOK
<1>7. \/ dma.ch = "data1" /\ dma.chain = "ctrl1" /\ From1(e)
      \/ dma.ch = "data1" /\ dma.chain = "ctrl2" /\ From2(e)
      \/ dma.ch = "data2" /\ dma.chain = "ctrl1" /\ DataGoes /\ e = CrcAt
      \/ /\ dma.ch = "ping" /\ dma.chain = "pong" /\ e = 1 /\ req.kind \in Slow
         /\ (pong = "ctrl1" \/ core0 = "chain") => ResultReady
    BY <1>1, <1>3 DEF Plan
<1>8. \A c \in {"ctrl1", "ctrl2", "pong"} :
            dma.chain = c => dma' = [ch |-> c, left |-> <<>>, chain |-> "none"]
    BY <1>1 DEF Trigger
<1>9. ASSUME dma.ch # "ping", NEW c \in {"ctrl1", "ctrl2"}, dma.chain = c
      PROVE  BusyInv'
    <2>1. dma'.ch = c
        BY <1>8, <1>9
    <2>2. /\ ping_at = 0
          /\ ~(core0 \in {"execute", "status", "chain"}
               \/ (core0 = "start" /\ req.kind \in Slow))
        BY <1>1, <1>9 DEF IInv, BusyInv
    <2> QED BY <1>4, <1>6, <2>1, <2>2 DEF BusyInv
<1>10. ASSUME dma.ch # "ping", dma.chain = "ctrl1", From1(e)
       PROVE  IInv'
    <2>1. PICK c \in {"ctrl1", "ctrl2", "pong"} : c = "ctrl1"
        OBVIOUS
    <2>2. dma' = [ch |-> c, left |-> <<>>, chain |-> "none"]
        BY <1>8, <1>10, <2>1
    <2>3. list1 # <<>>
        BY <1>10, ListsGoOn DEF From1, EotList
    <2>4. Plan(e)'
        <3>1. dma'.ch = "ctrl1" /\ dma'.left = <<>>
            BY <2>1, <2>2
        <3> QED BY <1>5, <1>10, <3>1 DEF Plan
    <2>5. BusyInv'
        BY <1>9, <1>10
    <2> QED BY <1>1, <1>3, <1>6, <2>1, <2>2, <2>3, <2>4, <2>5, Triggered
<1>11. CASE dma.ch = "data1" /\ dma.chain = "ctrl1" /\ From1(e)
    BY <1>10, <1>11
<1>12. CASE dma.ch = "data1" /\ dma.chain = "ctrl2" /\ From2(e)
    <2>1. PICK c \in {"ctrl1", "ctrl2", "pong"} : c = "ctrl2"
        OBVIOUS
    <2>2. dma' = [ch |-> c, left |-> <<>>, chain |-> "none"]
        BY <1>8, <1>12, <2>1
    <2>3. list2 # <<>>
        BY <1>12, ListsGoOn DEF From2, DataReady
    <2>4. Plan(e)'
        <3>1. dma'.ch = "ctrl2" /\ dma'.left = <<>>
            BY <2>1, <2>2
        <3> QED BY <1>5, <1>12, <3>1 DEF Plan
    <2>5. BusyInv'
        BY <1>9, <1>12
    <2> QED BY <1>1, <1>3, <1>6, <2>1, <2>2, <2>3, <2>4, <2>5, Triggered
<1>13. CASE dma.ch = "data2" /\ dma.chain = "ctrl1" /\ DataGoes /\ e = CrcAt
    <2>1. Intact
        BY <1>13 DEF DataGoes, Intact
    <2>2. CASE ~req.crc
        <3>1. CrcAt = DummyAt
            BY <1>2, <1>13, <2>2 DEF Parts, DataGoes
        <3>2. list1 = NO_STATUS_WITH_DATA_NO_CRC
            BY <1>13, <2>2 DEF DataGoes
        <3>3. From1(e)
            BY <1>13, <2>1, <3>1, <3>2 DEF From1
        <3> QED BY <1>10, <1>13, <3>3
    <2>3. CASE req.crc
        <3>1. /\ list1 = CrcList /\ sniffed \in Seq(DataBytes)
              /\ Len(sniffed) + Len(dma.left) = Len(req.data)
              /\ \A i \in 1..Len(sniffed) : sniffed[i] = req.data[i]
            BY <1>13, <2>3 DEF DataGoes
        <3>2. req.data \in Seq(DataBytes) /\ Len(req.data) \in Nat
            BY <1>2, RequestFacts
        <3>3. Len(dma.left) = 0 /\ Len(sniffed) \in Nat
            BY <1>1, <3>1
        <3>4. Len(sniffed) = Len(req.data)
            BY <3>1, <3>3
        <3>5. sniffed = req.data
            BY <3>1, <3>2, <3>4, SeqEqual
        <3>6. From1(e)
            BY <1>13, <2>1, <2>3, <3>1, <3>5 DEF From1
        <3> QED BY <1>10, <1>13, <3>6
    <2> QED BY <2>2, <2>3
<1>14. CASE /\ dma.ch = "ping" /\ dma.chain = "pong" /\ e = 1 /\ req.kind \in Slow
            /\ (pong = "ctrl1" \/ core0 = "chain") => ResultReady
    <2>1. PICK c \in {"ctrl1", "ctrl2", "pong"} : c = "pong"
        OBVIOUS
    <2>2. dma' = [ch |-> c, left |-> <<>>, chain |-> "none"]
        BY <1>8, <1>14, <2>1
    <2>3. dma'.ch = "pong" /\ dma'.left = <<>>
        BY <2>1, <2>2
    <2>4. Plan(e)'
        BY <1>1, <1>4, <1>5, <1>14, <2>3 DEF Plan
    <2>5. BusyInv'
        <3>1. ping_at = WordSize
            <4>1. ping_at = WordSize - Len(dma.left) /\ Len(dma.left) = 0
                BY <1>1, <1>14 DEF IInv, BusyInv
            <4> QED BY <4>1, FifoAssumption
        <3>2. /\ core0 \in {"execute", "status", "chain"}
                    \/ (core0 = "start" /\ req.kind \in Slow) => pong = "ping"
              /\ core0 = "idle" => pong = "ctrl1"
            BY <1>14 DEF IInv, BusyInv
        <3> QED BY <1>1, <1>4, <1>6, <2>3, <3>1, <3>2 DEF BusyInv
    <2> QED BY <1>1, <1>3, <1>6, <2>1, <2>2, <2>4, <2>5, Triggered
<1> QED BY <1>7, <1>11, <1>12, <1>13, <1>14

\* One more BUSY word: what has been read of the last one stays what it is.
LEMMA ReadBefore ==
    ASSUME req' = req, got' = got, req.kind \in Slow,
           NEW r \in Int, r <= 0, ReadUpTo(r), NEW s \in Int, s = r - W
    PROVE  ReadUpTo(s)'
<1>1. W \in Nat /\ W > 2
    BY WordSizeFacts
<1>2. s < 0
    BY <1>1
<1>3. s % W = r % W
    BY ModBack
<1>4. (s - 1) % W = (r - 1) % W
    <2>1. r - 1 \in Int /\ s - 1 = (r - 1) - W
        BY <1>1
    <2> QED BY <2>1, ModBack
<1>5. 0 % W = 0
    <2>1. 0 \in 0..(W - 1)
        BY <1>1
    <2> QED BY <2>1, ModNear
<1>6. got' \in Seq(Bytes) /\ req'.kind \in Slow
    BY DEF ReadUpTo, ReadTo
<1>7. CASE r % WordSize = 0 /\ got = <<>>
    <2>1. s % WordSize = 0
        BY <1>3, <1>7 DEF W
    <2> QED BY <1>2, <1>6, <1>7, <2>1 DEF ReadUpTo, ReadTo
<1>8. CASE /\ Len(got) = 1 + ((r - 1) % WordSize)
           /\ \A i \in 1..Len(got) : got[i] = BusyCode[i]
    <2>1. Len(got') = 1 + ((s - 1) % WordSize)
        BY <1>4, <1>8 DEF W
    <2>2. \A i \in 1..Len(got') : got'[i] = BusyCode[i]
        BY <1>8
    <2> QED BY <1>2, <1>6, <2>1, <2>2 DEF ReadUpTo, ReadTo
<1>9. CASE r = 0 /\ got = <<>>
    BY <1>5, <1>7, <1>9 DEF W
<1> QED BY <1>7, <1>8, <1>9 DEF ReadUpTo, ReadTo

LEMMA PongStep ==
    ASSUME IInv, Pong
    PROVE  IInv'
<1>1. dma.ch = "pong" /\ dma # NoDma /\ ping_at' = 0
    BY DEF Pong, NoDma
<1>2. req \in Requests /\ Parts /\ Sound /\ Answering /\ core1 # "stop"
    BY <1>1, DmaContext
<1>3. UNCHANGED <<c0, list1, list2, pong, sniffed, pio, sniffing, core1, oe, got, late>>
    BY DEF Pong
<1>4. PICK e \in 1..(DummyAt + 1) :
            /\ Plan(e) /\ Pipe(e)
            /\ Shown(Next1(e)) /\ EndSeen(Next1(e)) /\ Soon(Next1(e))
    BY <1>2 DEF Answering
<1>5. /\ dma.left = <<>> /\ e = 1 /\ req.kind \in Slow
      /\ (pong = "ctrl1" \/ core0 = "chain") => ResultReady
    BY <1>1, <1>4 DEF Plan
<1>6. /\ req' = req /\ code' = code /\ core0' = core0 /\ ctrl2_ok' = ctrl2_ok
      /\ got' = got /\ sm' = sm /\ fifo' = fifo /\ osr' = osr /\ irq' = irq
      /\ core1' = core1 /\ oe' = oe /\ pins' = pins /\ drive' = drive /\ late' = late
    BY <1>3 DEF c0, pio
<1>7. W \in Nat /\ W > 2
    BY WordSizeFacts
<1>8. /\ core0 \in {"execute", "status", "chain"}
            \/ (core0 = "start" /\ req.kind \in Slow) => pong = "ping"
      /\ core0 = "idle" => pong = "ctrl1"
    BY <1>1 DEF IInv, BusyInv
<1>9. CASE pong # "ping"
    <2>1. pong = "ctrl1"
        BY <1>9 DEF IInv, TypeOK
    <2>2. PICK c \in {"ctrl1", "ctrl2", "pong"} : c = "ctrl1"
        OBVIOUS
    <2>3. dma' = [ch |-> c, left |-> <<>>, chain |-> "none"]
        BY <2>1, <2>2 DEF Pong, Trigger
    <2>4. list1 = WITH_STATUS_NO_DATA_NO_CRC /\ code = req.code
        BY <1>5, <2>1 DEF ResultReady
    <2>5. list1 # <<>>
        BY <2>4, ListsGoOn
    <2>6. From1(e)'
        <3>1. req.kind # "patch" /\ req.kind \notin WithData
            BY <1>5 DEF Slow, WithData
        <3> QED BY <1>3, <1>5, <1>6, <2>4, <3>1 DEF From1
    <2>7. dma'.ch = "ctrl1" /\ dma'.left = <<>>
        BY <2>2, <2>3
    <2>8. Plan(e)'
        BY <2>6, <2>7 DEF Plan
    <2>9. BusyInv'
        BY <1>1, <1>3, <1>6, <1>8, <1>9, <2>7 DEF BusyInv
    <2>10. ping_at' \in 0..WordSize
        BY <1>1, FifoAssumption
    <2> QED BY <1>1, <1>3, <1>4, <1>5, <2>2, <2>3, <2>5, <2>8, <2>9, <2>10, Triggered
<1>10. CASE pong = "ping"
    <2>1. dma' = [ch |-> "ping", left |-> BusyCode, chain |-> "pong"]
        BY <1>10 DEF Pong
    <2>2. BusyCode \in Seq(Bytes) /\ Len(BusyCode) = W
        BY BusyFacts
    <2>3. dma'.ch = "ping" /\ dma'.left = BusyCode /\ dma'.chain = "pong"
        BY <2>1
    <2>4. PICK q \in Nat : q = Len(fifo)
        BY DEF IInv, TypeOK
    <2>5. PICK o \in 0..1 : o = InOsr /\ (o = 1 <=> sm = "loop")
        BY DEF InOsr
    <2>6. PICK k \in Int : k = Next1(e) /\ k = 1 - (q + o)
        <3>1. Len(dma.left) = 0
            BY <1>5
        <3>2. Next1(e) = 1 - (0 + q + o)
            BY <1>5, <2>4, <2>5, <3>1 DEF Next1
        <3>3. 1 - (0 + q + o) = 1 - (q + o) /\ 1 - (q + o) \in Int
            OBVIOUS
        <3> QED BY <3>2, <3>3
    <2>7. PICK m \in Int : m = k - W /\ m = 1 - (W + q + o)
        <3>1. k - W = 1 - (W + q + o) /\ k - W \in Int
            BY <1>7, <2>6
        <3> QED BY <3>1
    <2>8. InOsr' = o /\ Next1(e)' = m
        <3>1. InOsr' = o
            BY <1>6, <2>5 DEF InOsr
        <3>2. Next1(e)' = 1 - (W + q + o)
            BY <1>5, <1>6, <2>2, <2>3, <2>4, <3>1 DEF Next1
        <3> QED BY <2>7, <3>1, <3>2
    <2>9. \A i \in Int : i <= 0 => Byte(i - W) = Byte(i)
        BY BusyStream
    <2>10. Answer' = Answer
        BY <1>6, StreamKept
    <2>11. Pipe(e)'
        <3>1. ASSUME sm = "loop"
              PROVE  osr[1] = Byte(m) /\ Len(osr) = 1
            <4>1. k <= 0
                BY <2>5, <2>6, <3>1
            <4>2. Byte(k) = Byte(m)
                BY <2>7, <2>9, <4>1
            <4> QED BY <1>4, <2>6, <3>1, <4>2 DEF Pipe
        <3>2. Byte(Next1(e))' = Byte(m)
            BY <2>8, <2>10 DEF Byte
        <3>3. ASSUME NEW i \in 1..Len(fifo)
              PROVE  fifo[i] = Byte((m + o + i) - 1)
            <4>1. i \in Int /\ i <= q
                BY <2>4
            <4>2. /\ (k + o + i) - 1 \in Int /\ (k + o + i) - 1 <= 0
                  /\ ((k + o + i) - 1) - W = (m + o + i) - 1
                BY <1>7, <2>6, <2>7, <4>1
            <4>3. fifo[i] = Byte((k + o + i) - 1)
                BY <1>4, <2>5, <2>6 DEF Pipe
            <4> QED BY <2>9, <4>2, <4>3
        <3>4. \A i : Byte((Next1(e) + InOsr + i) - 1)' = Byte((m + o + i) - 1)
            BY <2>8, <2>10 DEF Byte
        <3>5. ASSUME NEW i \in 1..W
              PROVE  BusyCode[i] = Byte(((e - W) + i) - 1)
            <4>1. ((1 - W) + i) - 1 = i - W
                BY <1>7
            <4>2. BusyCode[i] = Byte(i - W)
                BY BusyStream
            <4> QED BY <1>5, <4>1, <4>2
        <3>6. \A i : Byte(((e - Len(dma.left)) + i) - 1)' = Byte(((e - W) + i) - 1)
            <4>1. Len(dma'.left) = W
                BY <2>2, <2>3
            <4> QED BY <2>10, <4>1 DEF Byte
        <3> QED BY <1>6, <2>2, <2>3, <3>1, <3>2, <3>3, <3>4, <3>5, <3>6 DEF Pipe
    <2>12. Shown(k) /\ EndSeen(k) /\ Soon(k)
        BY <1>4, <2>6
    <2>13. ASSUME NEW r \in {k - 1, k - 2}, ReadUpTo(r), r <= 0
           PROVE  ReadUpTo(r - W)'
        <3>1. r \in Int /\ r - W \in Int
            BY <1>7
        <3> QED BY <1>5, <1>6, <2>13, <3>1, ReadBefore
    <2>14. Shown(m)'
        <3>1. (k - 1) - W = m - 1 /\ (k - 2) - W = m - 2 /\ k - 1 \in Int
            BY <1>7, <2>7
        <3>2. CASE sm = "loop"
            <4>1. k <= 0 /\ k - 1 <= 0 /\ k - 2 <= 0
                BY <2>5, <2>6, <3>2
            <4>2. Byte(k - 1) = Byte(m - 1) /\ Byte(m - 1)' = Byte(m - 1)
                <5>1. Byte((k - 1) - W) = Byte(k - 1)
                    BY <2>9, <3>1, <4>1
                <5>2. Byte(k - 1) = Byte(m - 1)
                    BY <3>1, <5>1
                <5>3. Byte(m - 1)' = Byte(m - 1)
                    BY <2>10 DEF Byte
                <5> QED BY <5>2, <5>3
            <4>3. drive /\ req.kind \in Slow
                BY <1>5, <2>12, <3>2 DEF Shown
            <4>4. CASE oe = "low"
                <5>1. pins = Byte(k - 1) /\ ReadUpTo(k - 2)
                    BY <2>12, <3>2, <4>4 DEF Shown
                <5>2. ReadUpTo(m - 2)'
                    BY <2>13, <3>1, <4>1, <5>1
                <5> QED BY <1>6, <3>2, <4>2, <4>3, <4>4, <5>1, <5>2 DEF Shown
            <4>5. CASE oe # "low"
                <5>1. ReadUpTo(k - 1)
                    BY <2>12, <3>2, <4>5 DEF Shown
                <5>2. ReadUpTo(m - 1)'
                    BY <2>13, <3>1, <4>1, <5>1
                <5> QED BY <1>6, <3>2, <4>3, <4>5, <5>2 DEF Shown
            <4> QED BY <4>4, <4>5
        <3>3. CASE sm # "loop"
            <4>1. oe = "high" /\ got = <<>> /\ ReadUpTo(k - 1)
                BY <2>12, <3>3 DEF Shown
            <4>2. k - 1 <= 0
                BY <2>6
            <4>3. ReadUpTo(m - 1)'
                BY <2>13, <3>1, <4>1, <4>2
            <4> QED BY <1>6, <3>3, <4>1, <4>3 DEF Shown
        <3> QED BY <3>2, <3>3
    <2>15. EndSeen(m)'
        <3>1. End' = End /\ End \in Int
            <4>1. End \in 1..(DummyAt + 1) /\ DummyAt \in Nat
                BY <1>2, EndFacts DEF Sound
            <4>2. End' = End
                BY <1>6, <2>10 DEF End, Intact, DummyAt, DataAt
            <4> QED BY <4>1, <4>2
        <3>2. (k < End => m < End) /\ (k < End - 1 => m < End - 1)
            BY <1>7, <2>7, <3>1
        <3>3. sm = "loop" => (irq /\ core1 = "idle" => fifo # <<>>)
            BY <1>1, <2>12 DEF EndSeen
        <3> QED BY <1>2, <1>6, <2>12, <3>1, <3>2, <3>3 DEF EndSeen
    <2>16. Soon(m)'
        BY <1>6, <1>8, <1>10 DEF Soon
    <2>17. Plan(e)'
        <3>1. ResultReady' = ResultReady
            BY <1>3, <1>6 DEF ResultReady
        <3> QED BY <1>3, <1>5, <1>6, <2>3, <3>1 DEF Plan
    <2>18. Answering'
        <3>1. Shown(Next1(e))' /\ EndSeen(Next1(e))' /\ Soon(Next1(e))'
            BY <2>8, <2>14, <2>15, <2>16 DEF Shown, EndSeen, Soon, ReadUpTo, ReadTo, Byte
        <3>2. e \in 1..(DummyAt' + 1)
            BY <2>10 DEF DummyAt
        <3> QED BY <2>11, <2>17, <3>1, <3>2 DEF Answering
    <2>19. TypeOK'
        <3>1. dma' \in [ch : Channels, left : Seq(Bytes),
                        chain : {"none", "ctrl1", "ctrl2", "pong"}]
            BY <2>1, <2>2 DEF Channels
        <3>2. ping_at' \in 0..WordSize
            BY <1>1, FifoAssumption
        <3> QED BY <1>3, <2>3, <3>1, <3>2 DEF IInv, TypeOK, Channels, c0, pio
    <2>20. BusyInv'
        <3>1. WordSize - Len(dma'.left) = 0
            BY <1>7, <2>2, <2>3 DEF W
        <3> QED BY <1>1, <1>3, <1>6, <1>8, <1>10, <2>3, <3>1 DEF BusyInv
    <2>21. (dma.ch = "idle" => dma = NoDma)'
        BY <2>3
    <2> QED BY <1>1, <1>3, <2>18, <2>19, <2>20, <2>21, DmaKeeps DEF pio
<1> QED BY <1>9, <1>10

-----------------------------------------------------------------------------
(***************************************************************************)
(* Core 0                                                                  *)
(***************************************************************************)
LEMMA EmptyPrefix ==
    ASSUME NEW s \in Seq(Bytes)
    PROVE  IsPrefix(<<>>, s)
<1>1. Len(s) \in Nat /\ Len(<<>>) = 0
    OBVIOUS
<1>2. SubSeq(s, 1, 0) = SubSeq(<<>>, 1, 0)
    OBVIOUS
<1> QED BY <1>1, <1>2 DEF IsPrefix

LEMMA AnswerNext ==
    ASSUME req' \in Requests
    PROVE  Answer' \in Seq(Bytes)
<1>1. /\ Status(req'.code) \in Seq(Bytes) /\ req'.data \in Seq(Bytes)
      /\ CrcOf(req'.data) \in Seq(Bytes)
    BY ByteTypes
<1> DEFINE A1 == IF req'.kind \in {"data", "status", "busy", "write"}
                 THEN Status(req'.code) ELSE <<>>
           A2 == IF req'.kind \in {"data", "patch"} THEN req'.data ELSE <<>>
           A3 == IF req'.crc THEN CrcOf(req'.data) ELSE <<>>
<1>2. A1 \in Seq(Bytes) /\ A2 \in Seq(Bytes) /\ A3 \in Seq(Bytes)
    BY <1>1, SeqFacts
<1>3. Answer' = A1 \o A2 \o A3
    BY DEF Answer
<1> HIDE DEF A1, A2, A3
<1> QED BY <1>2, <1>3, Concat3

LEMMA StartStep ==
    ASSUME IInv, NEW r \in Requests, Start(r)
    PROVE  IInv'
<1>1. /\ core0 = "idle" /\ sniffing /\ oe = "high" /\ req' = r
      /\ got' = <<>> /\ late' = 0 /\ sniffing' = FALSE
      /\ core0' = IF r.kind \in Slow THEN "busy" ELSE "load"
      /\ r.kind = "patch" => data' = r.data /\ list2' = CONTROL_BLOCKS_DATA_OUT
      /\ UNCHANGED <<code, ctrl2_ok, dma, list1, pong, ping_at, sniffed, pio,
                     core1, oe>>
    BY DEF Start, Slow
<1>2. AtRest /\ core1 \notin {"stop", "sniff"}
    BY <1>1 DEF IInv, QuietInv
<1>3. core0' \in {"load", "busy"} /\ core0' # "idle"
    BY <1>1
<1>4. UNCHANGED <<fifo, sm, osr, pins, drive, irq, dma, core1, oe, ping_at>>
    BY <1>1 DEF pio
<1>5. dma.ch = "idle" /\ dma'.ch = "idle" /\ dma' = NoDma
    BY <1>2, <1>4 DEF AtRest, NoDma
<1>6. TypeOK'
    BY <1>1, <1>3, <1>4, <1>5 DEF IInv, TypeOK
<1>7. QuietInv'
    BY <1>1 DEF QuietInv
<1>8. PreparedInv'
    BY <1>1, <1>2, <1>4 DEF PreparedInv, AtRest, DataReady, WithData
<1>9. AnswerInv'
    BY <1>3 DEF AnswerInv
<1>10. OverInv'
    BY <1>2, <1>4 DEF OverInv
<1>11. CoresInv'
    BY <1>1, <1>2, <1>3, <1>4, <1>5 DEF IInv, CoresInv, AtRest
<1>12. BusyInv'
    BY <1>3, <1>4, <1>5 DEF IInv, BusyInv
<1>13. ReadsAnswer'
    <2>1. Answer' \in Seq(Bytes)
        BY <1>1, AnswerNext
    <2> QED BY <1>1, <2>1, EmptyPrefix DEF ReadsAnswer
<1>14. LateInv'
    BY <1>1 DEF LateInv, StatusComesSoon, MaxLate
<1> QED BY <1>6, <1>7, <1>8, <1>9, <1>10, <1>11, <1>12, <1>13, <1>14 DEF IInv

\* The DMA is started on an answer.
LEMMA Loading ==
    ASSUME IInv, core0 \in {"load", "busy"}, core0' = "start",
           UNCHANGED <<req, ctrl2_ok, ping_at, pio, sniffing, core1, oe, got, late>>,
           NEW l \in Seq(Bytes), dma'.left = l, dma'.ch # "idle",
           Len(l) = 0 \/ (req.kind \in Slow /\ Len(l) = W),
           \A i \in 1..Len(l) : l[i] = Byte(((1 - Len(l)) + i) - 1),
           Plan(1)', TypeOK', BusyInv'
    PROVE  IInv'
<1>1. /\ ~sniffing /\ fifo = <<>> /\ sm = "off" /\ oe = "high" /\ got = <<>>
    BY DEF IInv, PreparedInv, AtRest
<1>2. core1 \notin {"sniff", "stop"} /\ req \in Requests /\ late = 0
    BY <1>1 DEF IInv, OverInv, CoresInv, LateInv
<1>3. UNCHANGED <<fifo, sm, osr, pins, drive, irq>>
    BY DEF pio
<1>4. Sound /\ DummyAt' = DummyAt /\ Answer' = Answer
    BY <1>2, StreamFacts, StreamKept
<1>5. PICK n \in Nat : n = Len(l)
    OBVIOUS
<1>6. Next1(1)' = 1 - n
    <2>1. Len(fifo') = 0 /\ InOsr' = 0 /\ Len(dma'.left) = n
        BY <1>1, <1>3, <1>5 DEF InOsr
    <2>2. Next1(1)' = 1 - (n + 0 + 0)
        BY <2>1 DEF Next1
    <2> QED BY <2>2
<1>7. Pipe(1)'
    <2>1. Len(fifo') = 0 /\ sm' # "loop"
        BY <1>1, <1>3
    <2>2. Len(dma'.left) = n
        BY <1>5
    <2>3. \A i : Byte(((1 - Len(dma.left)) + i) - 1)' = Byte(((1 - n) + i) - 1)
        BY <1>4, <2>2 DEF Byte
    <2>4. \A i \in 1..Len(dma'.left) : dma'.left[i] = Byte(((1 - Len(dma.left)) + i) - 1)'
        BY <1>5, <2>3
    <2> QED BY <2>1, <2>4 DEF Pipe
<1>8. ReadUpTo(0 - n)'
    <2>1. got' = <<>> /\ got' \in Seq(Bytes) /\ req' = req
        BY <1>1
    <2>2. CASE n = 0
        <3>1. 0 - n = 0
            BY <2>2
        <3>2. ReadUpTo(0)'
            BY <2>1 DEF ReadUpTo, ReadTo
        <3> QED BY <3>1, <3>2
    <2>3. CASE req.kind \in Slow /\ n = W
        <3>1. 0 - n = -W /\ -W < 0 /\ -W \in Int
            BY <2>3, WordSizeFacts
        <3>2. (-W) % W = 0
            BY ModNear
        <3>3. (0 - n) % WordSize = 0 /\ 0 - n < 0
            BY <3>1, <3>2, WordSizeFacts
        <3> QED BY <2>1, <2>3, <3>3 DEF ReadUpTo, ReadTo
    <2> QED BY <1>5, <2>2, <2>3
<1>9. Shown(1 - n)'
    <2>1. (1 - n) - 1 = 0 - n
        OBVIOUS
    <2>2. ReadUpTo((1 - n) - 1)'
        BY <1>8, <2>1
    <2> QED BY <1>1, <1>3, <2>2 DEF Shown
<1>10. EndSeen(1 - n)' /\ Soon(1 - n)'
    BY <1>1, <1>3 DEF EndSeen, Soon
<1>11. Answering'
    <2>1. 1 \in 1..(DummyAt' + 1)
        BY <1>4 DEF Sound
    <2>2. Shown(Next1(1))' /\ EndSeen(Next1(1))' /\ Soon(Next1(1))'
        BY <1>6, <1>9, <1>10 DEF Shown, EndSeen, Soon, ReadUpTo, ReadTo, Byte
    <2> QED BY <1>7, <2>1, <2>2 DEF Answering
<1>12. QuietInv'
    BY <1>1 DEF QuietInv
<1>13. PreparedInv'
    BY DEF PreparedInv
<1>14. AnswerInv'
    BY <1>11 DEF AnswerInv
<1>15. OverInv'
    BY <1>2 DEF OverInv
<1>16. CoresInv'
    BY <1>1, <1>2, <1>3 DEF IInv, CoresInv
<1>17. ReadsAnswer'
    BY <1>4 DEF IInv, ReadsAnswer, IsSlow
<1>18. LateInv'
    BY <1>2 DEF LateInv, StatusComesSoon, MaxLate
<1> QED BY <1>12, <1>13, <1>14, <1>15, <1>16, <1>17, <1>18 DEF IInv

LEMMA LoadStep ==
    ASSUME IInv, Load
    PROVE  IInv'
<1>1. /\ core0 = "load" /\ core0' = "start"
      /\ code' = IF req.kind = "patch" THEN code ELSE req.code
      /\ req.kind = "data" => data' = req.data /\ list2' = CONTROL_BLOCKS_DATA_OUT
      /\ req.kind # "data" => data' = data /\ list2' = list2
      /\ dma' = Trigger(IF req.kind = "patch" /\ ~req.crc THEN "ctrl2" ELSE "ctrl1")
      /\ UNCHANGED <<req, ctrl2_ok, pong, ping_at, sniffed, pio, sniffing, core1,
                     oe, got, late>>
    BY DEF Load
<1>2. /\ ~sniffing /\ req.kind \notin Slow
      /\ req.kind = "patch" => DataReady
    BY <1>1 DEF IInv, PreparedInv
<1>3. req \in Requests
    BY <1>1, <1>2 DEF IInv, PreparedInv, CoresInv
<1>4. /\ req.kind \in {"status", "busy", "write", "data", "patch"}
      /\ req.crc => req.kind \in WithData
    BY <1>3, RequestFacts
<1>5. req.kind \in {"status", "data", "patch"}
    BY <1>2, <1>4 DEF Slow
<1>6. req.kind \in WithData => DataReady'
    BY <1>1, <1>2 DEF DataReady, WithData
<1>7. dma.ch = "idle" /\ ping_at = 0
    <2>1. dma = NoDma
        BY <1>1 DEF IInv, PreparedInv, AtRest
    <2> QED BY <2>1 DEF NoDma, IInv, BusyInv
<1>8. PICK c \in {"ctrl1", "ctrl2"} :
            c = IF req.kind = "patch" /\ ~req.crc THEN "ctrl2" ELSE "ctrl1"
    OBVIOUS
<1>9. dma' = [ch |-> c, left |-> <<>>, chain |-> "none"]
    BY <1>1, <1>8 DEF Trigger
<1>10. PICK l \in Seq(Bytes) : l = <<>> /\ Len(l) = 0
    BY SeqFacts
<1>11. dma'.ch = c /\ dma'.left = l /\ dma'.left = <<>>
    BY <1>9, <1>10
<1>12. req' = req
    BY <1>1
<1>13. ASSUME c = "ctrl1"
       PROVE  Plan(1)' /\ list1' # <<>>
    <2>1. From1(1)'
        <3>1. CASE req.kind = "status"
            <4>1. list1' = WITH_STATUS_NO_DATA_NO_CRC
                BY <1>1, <3>1 DEF Load
            <4>2. req.kind \notin WithData /\ code' = req.code
                BY <1>1, <3>1 DEF WithData
            <4> QED BY <1>12, <3>1, <4>1, <4>2 DEF From1
        <3>2. CASE req.kind = "data"
            <4>1. list1' = IF req.crc THEN WITH_STATUS_WITH_DATA_WITH_CRC
                                      ELSE WITH_STATUS_WITH_DATA_NO_CRC
                BY <1>1, <3>2 DEF Load
            <4>2. DataReady' /\ code' = req.code
                BY <1>1, <1>6, <3>2 DEF WithData
            <4> QED BY <1>12, <3>2, <4>1, <4>2 DEF From1
        <3>3. CASE req.kind = "patch"
            <4>1. req.crc
                BY <1>8, <1>13, <3>3
            <4>2. list1' = NO_STATUS_WITH_DATA_WITH_CRC
                BY <1>1, <3>3, <4>1 DEF Load
            <4>3. DataReady'
                BY <1>6, <3>3 DEF WithData
            <4> QED BY <1>12, <3>3, <4>1, <4>2, <4>3 DEF From1
        <3> QED BY <1>5, <3>1, <3>2, <3>3
    <2>2. list1' # <<>>
        BY <2>1, ListsGoOn DEF From1, EotList
    <2>3. Plan(1)'
        BY <1>11, <1>13, <2>1 DEF Plan
    <2> QED BY <2>2, <2>3
<1>14. ASSUME c = "ctrl2"
       PROVE  Plan(1)' /\ list2' # <<>>
    <2>1. req.kind = "patch" /\ ~req.crc
        BY <1>8, <1>14
    <2>2. DataReady'
        BY <1>6, <2>1 DEF WithData
    <2>3. list1' = NO_STATUS_WITH_DATA_NO_CRC
        BY <1>1, <2>1 DEF Load
    <2>4. DataAt' = 1
        BY <1>12, <2>1 DEF DataAt
    <2>5. Plan(1)'
        BY <1>11, <1>12, <1>14, <2>1, <2>2, <2>3, <2>4 DEF Plan, From2
    <2>6. list2' # <<>>
        BY <2>2, ListsGoOn DEF DataReady
    <2> QED BY <2>5, <2>6
<1>15. Plan(1)' /\ (c = "ctrl1" => list1' # <<>>) /\ (c = "ctrl2" => list2' # <<>>)
    BY <1>13, <1>14
<1>16. TypeOK'
    <2>1. dma' \in [ch : Channels, left : Seq(Bytes),
                    chain : {"none", "ctrl1", "ctrl2", "pong"}]
        BY <1>9, SeqFacts DEF Channels
    <2> QED BY <1>1, <1>11, <1>15, <2>1 DEF IInv, TypeOK, Channels, pio
<1>17. BusyInv'
    BY <1>1, <1>2, <1>7, <1>11, <1>12 DEF BusyInv
<1>18. \A i \in 1..Len(l) : l[i] = Byte(((1 - Len(l)) + i) - 1)
    BY <1>10
<1> QED BY <1>1, <1>10, <1>11, <1>15, <1>16, <1>17, <1>18, Loading

LEMMA StartBusyStep ==
    ASSUME IInv, StartBusy
    PROVE  IInv'
<1>1. /\ core0 = "busy" /\ core0' = "start" /\ pong' = "ping" /\ dma' = Trigger("ping")
      /\ UNCHANGED <<req, code, ctrl2_ok, data, list1, list2, ping_at, sniffed,
                     pio, sniffing, core1, oe, got, late>>
    BY DEF StartBusy
<1>2. req.kind \in Slow
    BY <1>1 DEF IInv, PreparedInv
<1>3. ping_at = 0
    <2>1. dma = NoDma
        BY <1>1 DEF IInv, PreparedInv, AtRest
    <2> QED BY <2>1 DEF NoDma, IInv, BusyInv
<1>4. BusyCode \in Seq(Bytes) /\ Len(BusyCode) = W /\ W \in Nat /\ W > 2
    BY BusyFacts, WordSizeFacts
<1>5. SubSeq(BusyCode, ping_at + 1, WordSize) = BusyCode
    <2>1. PICK s \in Seq(Bytes) : s = BusyCode
        BY <1>4
    <2>2. SubSeq(s, 1, Len(s)) = s
        OBVIOUS
    <2>3. ping_at + 1 = 1 /\ WordSize = Len(s)
        BY <1>3, <1>4, <2>1, WordSizeFacts
    <2> QED BY <2>1, <2>2, <2>3
<1>6. PICK l \in Seq(Bytes) : l = BusyCode /\ Len(l) = W
    BY <1>4
<1>7. dma' = [ch |-> "ping", left |-> l, chain |-> "pong"]
    BY <1>1, <1>5, <1>6 DEF Trigger
<1>8. dma'.ch = "ping" /\ dma'.left = l /\ dma'.chain = "pong"
    BY <1>7
<1>9. \A i \in 1..Len(l) : l[i] = Byte(((1 - Len(l)) + i) - 1)
    <2> SUFFICES ASSUME NEW i \in 1..W
                 PROVE  BusyCode[i] = Byte(((1 - W) + i) - 1)
        BY <1>6
    <2>1. ((1 - W) + i) - 1 = i - W
        BY <1>4
    <2> QED BY <2>1, BusyStream
<1>10. Plan(1)'
    BY <1>1, <1>2, <1>8 DEF Plan
<1>11. TypeOK'
    <2>1. dma' \in [ch : Channels, left : Seq(Bytes),
                    chain : {"none", "ctrl1", "ctrl2", "pong"}]
        BY <1>7 DEF Channels
    <2> QED BY <1>1, <1>8, <2>1 DEF IInv, TypeOK, Channels, pio
<1>12. BusyInv'
    <2>1. WordSize - Len(dma'.left) = 0
        BY <1>4, <1>6, <1>8, WordSizeFacts
    <2> QED BY <1>1, <1>3, <1>8, <2>1 DEF BusyInv
<1> QED BY <1>1, <1>2, <1>6, <1>8, <1>9, <1>10, <1>11, <1>12, Loading

\* The other steps of core 0 leave the bus and the data path alone.
LEMMA Core0Context ==
    ASSUME IInv, core0 \in {"start", "execute", "status", "chain"}
    PROVE  /\ ~sniffing /\ core1 # "sniff" /\ Answering
           /\ req \in Requests /\ Parts /\ Sound /\ late = 0
<1>1. ~sniffing /\ core1 # "sniff" /\ late = 0
    BY DEF IInv, QuietInv, OverInv, LateInv
<1>2. req \in Requests
    BY <1>1 DEF IInv, CoresInv
<1> QED BY <1>1, <1>2, StreamFacts DEF IInv, AnswerInv

LEMMA Core0Keeps ==
    ASSUME IInv, core0 \in {"start", "execute", "status", "chain"},
           core0' \in {"idle", "execute", "status", "chain"},
           core0' # "idle" => req.kind \in Slow,
           UNCHANGED <<req, dma, fifo, osr, pins, drive, irq, sniffing, core1, oe,
                       got, late>>,
           sm' # "off", sm' = "loop" <=> sm = "loop",
           ctrl2_ok' = ctrl2_ok \/ req.kind \in Slow,
           NEW e \in 1..(DummyAt + 1), Pipe(e), Plan(e)',
           Shown(Next1(e)), EndSeen(Next1(e)), Soon(Next1(e))',
           TypeOK', BusyInv'
    PROVE  IInv'
<1>1. /\ ~sniffing /\ core1 # "sniff" /\ req \in Requests /\ Sound /\ late = 0
    BY Core0Context
<1>2. Answer' = Answer /\ DummyAt' = DummyAt /\ DataAt' = DataAt
    BY StreamKept
<1>3. e \in Int /\ TypeOK
    BY <1>1 DEF Sound, IInv
<1>4. PICK m \in Int : m = Next1(e)
    BY <1>3, Positions
<1>5. PICK o : o = InOsr /\ InOsr' = o
    BY DEF InOsr
<1>6. Next1(e)' = m
    BY <1>4, <1>5 DEF Next1
<1>7. Pipe(e)'
    <2>1. Byte(Next1(e))' = Byte(Next1(e))
        BY <1>2, <1>4, <1>6 DEF Byte
    <2>2. \A i : Byte((Next1(e) + InOsr + i) - 1)' = Byte((Next1(e) + InOsr + i) - 1)
        BY <1>2, <1>4, <1>5, <1>6 DEF Byte
    <2>3. \A i : Byte(((e - Len(dma.left)) + i) - 1)' = Byte(((e - Len(dma.left)) + i) - 1)
        BY <1>2 DEF Byte
    <2> QED BY <2>1, <2>2, <2>3 DEF Pipe
<1>8. Shown(m)' /\ EndSeen(m)'
    <2>1. Shown(m) /\ EndSeen(m)
        BY <1>4
    <2>2. End' = End
        <3>1. Intact' = Intact
            BY DEF Intact, Slow, WithData
        <3> QED BY <1>2, <3>1 DEF End
    <2>3. Shown(m)'
        BY <1>2, <2>1 DEF Shown, ReadUpTo, ReadTo, Byte
    <2>4. EndSeen(m)'
        BY <2>1, <2>2 DEF EndSeen
    <2> QED BY <2>3, <2>4
<1>9. Answering'
    <2>1. Shown(Next1(e))' /\ EndSeen(Next1(e))'
        BY <1>6, <1>8 DEF Shown, EndSeen, ReadUpTo, ReadTo, Byte
    <2>2. e \in 1..(DummyAt' + 1)
        BY <1>2
    <2> QED BY <1>7, <2>1, <2>2 DEF Answering
<1>10. QuietInv'
    BY <1>1 DEF QuietInv
<1>11. PreparedInv'
    BY DEF PreparedInv
<1>12. AnswerInv'
    BY <1>9 DEF AnswerInv
<1>13. OverInv'
    BY <1>1 DEF OverInv
<1>14. CoresInv'
    BY <1>1 DEF IInv, CoresInv
<1>15. ReadsAnswer'
    BY <1>2 DEF IInv, ReadsAnswer, IsSlow
<1>16. LateInv'
    BY <1>1 DEF LateInv, StatusComesSoon, MaxLate
<1> QED BY <1>10, <1>11, <1>12, <1>13, <1>14, <1>15, <1>16 DEF IInv

LEMMA StartSmStep ==
    ASSUME IInv, StartSm
    PROVE  IInv'
<1>1. /\ core0 = "start" /\ core0' = IF req.kind \in Slow THEN "execute" ELSE "idle"
      /\ sm' = "first"
      /\ UNCHANGED <<req, code, ctrl2_ok, data, dmav, fifo, osr, pins, drive, irq,
                     sniffing, core1, oe, got, late>>
    BY DEF StartSm, IsSlow, Slow
<1>2. UNCHANGED <<dma, list1, list2, pong, ping_at, sniffed>>
    BY <1>1 DEF dmav
<1>3. /\ Answering /\ req \in Requests /\ Sound /\ late = 0
    BY <1>1, Core0Context
<1>4. PICK e \in 1..(DummyAt + 1) :
            /\ Plan(e) /\ Pipe(e)
            /\ Shown(Next1(e)) /\ EndSeen(Next1(e)) /\ Soon(Next1(e))
    BY <1>3 DEF Answering
<1>5. sm = "off"
    BY <1>1 DEF IInv, CoresInv
<1>6. Plan(e)'
    <2>1. core0' # "chain"
        BY <1>1
    <2>2. /\ Intact' = Intact /\ DummyAt' = DummyAt /\ DataAt' = DataAt
          /\ CrcAt' = CrcAt /\ DataReady' = DataReady
        BY <1>1, <1>2 DEF Intact, DummyAt, DataAt, CrcAt, Answer, DataReady
    <2>3. /\ From1(e)' = From1(e) /\ From2(e)' = From2(e) /\ DataGoes' = DataGoes
          /\ ResultReady' = ResultReady /\ End' = End
        BY <1>1, <1>2, <2>2 DEF From1, From2, DataGoes, ResultReady, End
    <2> QED BY <1>1, <1>2, <1>4, <2>1, <2>2, <2>3 DEF Plan
<1>7. Soon(Next1(e))'
    BY <1>1, <1>3 DEF Soon
<1>8. TypeOK'
    BY <1>1, <1>2 DEF IInv, TypeOK
<1>9. BusyInv'
    <2>1. dma.ch \in {"ping", "pong"} => req.kind \in Slow
        BY <1>4 DEF Plan, NoDma
    <2> QED BY <1>1, <1>2, <2>1 DEF IInv, BusyInv
<1> QED BY <1>1, <1>2, <1>4, <1>5, <1>6, <1>7, <1>8, <1>9, Core0Keeps

LEMMA ExecuteStep ==
    ASSUME IInv, Execute
    PROVE  IInv'
<1>1. /\ core0 = "execute" /\ core0' = "status"
      /\ ctrl2_ok' = (ctrl2_ok /\ req.kind # "write")
      /\ UNCHANGED <<req, code, data, dmav, pio, sniffing, core1, oe, got, late>>
    BY DEF Execute
<1>2. /\ UNCHANGED <<dma, list1, list2, pong, ping_at, sniffed>>
      /\ UNCHANGED <<fifo, sm, osr, pins, drive, irq>>
    BY <1>1 DEF dmav, pio
<1>3. Answering /\ req.kind \in Slow
    BY <1>1, Core0Context DEF IInv, CoresInv
<1>4. PICK e \in 1..(DummyAt + 1) :
            /\ Plan(e) /\ Pipe(e)
            /\ Shown(Next1(e)) /\ EndSeen(Next1(e)) /\ Soon(Next1(e))
    BY <1>3 DEF Answering
<1>5. sm # "off"
    BY <1>1, Core0Context DEF IInv, CoresInv
<1>6. dma.ch \in {"ping", "pong"} /\ pong = "ping"
    BY <1>1 DEF IInv, BusyInv
<1>7. Plan(e)'
    BY <1>1, <1>2, <1>4, <1>6 DEF Plan, NoDma
<1>8. Soon(Next1(e))'
    BY <1>1 DEF Soon
<1>9. TypeOK'
    <2>1. ctrl2_ok' \in BOOLEAN
        BY <1>1 DEF IInv, TypeOK
    <2> QED BY <1>1, <1>2, <2>1 DEF IInv, TypeOK
<1>10. BusyInv'
    BY <1>1, <1>2, <1>6 DEF IInv, BusyInv
<1> QED BY <1>1, <1>2, <1>3, <1>4, <1>5, <1>7, <1>8, <1>9, <1>10, Core0Keeps

LEMMA StopBusyListStep ==
    ASSUME IInv, StopBusyList
    PROVE  IInv'
<1>1. /\ core0 = "status" /\ core0' = "chain" /\ code' = req.code
      /\ list1' = WITH_STATUS_NO_DATA_NO_CRC
      /\ UNCHANGED <<req, ctrl2_ok, data, dma, list2, pong, ping_at, sniffed, pio,
                     sniffing, core1, oe, got, late>>
    BY DEF StopBusyList
<1>2. UNCHANGED <<fifo, sm, osr, pins, drive, irq>>
    BY <1>1 DEF pio
<1>3. Answering /\ req.kind \in Slow
    BY <1>1, Core0Context DEF IInv, CoresInv
<1>4. PICK e \in 1..(DummyAt + 1) :
            /\ Plan(e) /\ Pipe(e)
            /\ Shown(Next1(e)) /\ EndSeen(Next1(e)) /\ Soon(Next1(e))
    BY <1>3 DEF Answering
<1>5. sm # "off"
    BY <1>1, Core0Context DEF IInv, CoresInv
<1>6. dma.ch \in {"ping", "pong"} /\ pong = "ping"
    BY <1>1 DEF IInv, BusyInv
<1>7. Plan(e)'
    <2>1. ResultReady'
        BY <1>1 DEF ResultReady
    <2> QED BY <1>1, <1>4, <1>6, <2>1 DEF Plan, NoDma
<1>8. Soon(Next1(e))'
    BY <1>1 DEF Soon
<1>9. TypeOK'
    BY <1>1, <1>2, <1>6 DEF IInv, TypeOK
<1>10. BusyInv'
    BY <1>1, <1>6 DEF IInv, BusyInv
<1> QED BY <1>1, <1>2, <1>3, <1>4, <1>5, <1>7, <1>8, <1>9, <1>10, Core0Keeps

\* From here on the BUSY words are counted: those in PING, in the FIFO and in
\* the shift register.
LEMMA StopBusyChainStep ==
    ASSUME IInv, StopBusyChain
    PROVE  IInv'
<1>1. /\ core0 = "chain" /\ core0' = "idle" /\ pong' = "ctrl1"
      /\ UNCHANGED <<req, code, ctrl2_ok, data, dma, list1, list2, ping_at,
                     sniffed, pio, sniffing, core1, oe, got, late>>
    BY DEF StopBusyChain
<1>2. UNCHANGED <<fifo, sm, osr, pins, drive, irq>>
    BY <1>1 DEF pio
<1>3. /\ Answering /\ req.kind \in Slow /\ late = 0
      /\ dma.left \in Seq(Bytes) /\ fifo \in Seq(Bytes) /\ Len(fifo) <= FifoDepth
      /\ ping_at \in 0..WordSize
    BY <1>1, Core0Context DEF IInv, CoresInv, TypeOK
<1>4. PICK e \in 1..(DummyAt + 1) :
            /\ Plan(e) /\ Pipe(e)
            /\ Shown(Next1(e)) /\ EndSeen(Next1(e)) /\ Soon(Next1(e))
    BY <1>3 DEF Answering
<1>5. sm # "off"
    BY <1>1, Core0Context DEF IInv, CoresInv
<1>6. dma.ch \in {"ping", "pong"}
    BY <1>1 DEF IInv, BusyInv
<1>7. /\ \/ dma.ch = "ping" /\ dma.chain = "pong"
         \/ dma.ch = "pong" /\ dma.left = <<>>
      /\ e = 1 /\ ResultReady
    BY <1>1, <1>4, <1>6 DEF Plan, NoDma
<1>8. Plan(e)'
    <2>1. ResultReady'
        BY <1>1, <1>7 DEF ResultReady
    <2> QED BY <1>1, <1>3, <1>7, <2>1 DEF Plan
<1>9. PICK n \in Nat, q \in Nat, o \in 0..1 :
            n = Len(dma.left) /\ q = Len(fifo) /\ o = InOsr /\ InOsr' = o
    BY <1>2, <1>3 DEF InOsr
<1>10. n <= WordSize
    <2>1. CASE dma.ch = "ping"
        <3>1. ping_at = WordSize - n
            BY <1>9, <2>1 DEF IInv, BusyInv
        <3> QED BY <1>3, <3>1, FifoAssumption
    <2>2. CASE dma.ch # "ping"
        <3>1. Len(dma.left) = 0
            BY <1>7, <2>2
        <3> QED BY <1>9, <3>1, FifoAssumption
    <2> QED BY <2>1, <2>2
<1>11. Next1(e)' = 1 - (n + q + o)
    BY <1>1, <1>2, <1>7, <1>9 DEF Next1
<1>12. ASSUME RoomForThree
       PROVE  1 - (1 - (n + q + o)) < (MaxLate + 1) * WordSize
    <2>1. PICK w \in Nat, d \in Nat : w = WordSize /\ d = FifoDepth
        BY FifoAssumption
    <2>2. n <= w /\ q <= d /\ d + 1 < 3 * w
        BY <1>3, <1>9, <1>10, <1>12, <2>1 DEF RoomForThree
    <2>3. 1 - (1 - (n + q + o)) < 4 * w
        BY <2>2
    <2> QED BY <2>1, <2>3 DEF MaxLate
<1>13. Soon(Next1(e))'
    <2>1. late' = 0 /\ MaxLate + 1 - 0 = MaxLate + 1 /\ 0 <= MaxLate
        BY <1>1, <1>3 DEF MaxLate
    <2> QED BY <1>1, <1>3, <1>11, <1>12, <2>1 DEF Soon, MaxLate
<1>14. TypeOK'
    BY <1>1, <1>2, <1>6 DEF IInv, TypeOK
<1>15. BusyInv'
    BY <1>1, <1>6 DEF IInv, BusyInv
<1> QED BY <1>1, <1>2, <1>3, <1>4, <1>5, <1>8, <1>13, <1>14, <1>15, Core0Keeps

-----------------------------------------------------------------------------
(***************************************************************************)
(* The bus                                                                 *)
(***************************************************************************)
\* The stream does not go on behind its end, and it ends behind its third byte
\* or where it begins.
LEMMA PlanWithinEnd ==
    ASSUME req \in Requests, NEW e \in 1..(DummyAt + 1), Plan(e)
    PROVE  /\ e <= End /\ End \in Int /\ End <= DummyAt + 1 /\ DummyAt \in Nat
           /\ End = 1 \/ End > 3
           /\ req.kind \in Slow => End > 3
           /\ dma = NoDma => e = End
<1>1. Parts /\ Sound
    BY StreamFacts
<1>2. DummyAt \in Nat /\ DummyAt > 2 /\ e \in Int
    BY <1>1 DEF Sound
<1>3. /\ End \in 1..(DummyAt + 1) /\ DataAt \in 1..DummyAt
      /\ Intact => End = DummyAt + 1
      /\ ~Intact => End = DataAt /\ req.kind \in WithData
    BY EndFacts
<1>4. dma = NoDma => e = End
    BY DEF Plan, NoDma
<1>5. e <= End
    <2>1. CASE e = 1 \/ e = End
        BY <1>2, <1>3, <2>1
    <2>2. CASE Intact
        BY <1>2, <1>3, <2>2
    <2>3. CASE e = DataAt
        BY <1>2, <1>3, <2>3
    <2>4. e = 1 \/ e = End \/ Intact \/ e = DataAt
        <3>1. From1(e) => e = 1 \/ Intact
            BY DEF From1
        <3>2. From2(e) => e = DataAt
            BY DEF From2
        <3>3. DataGoes => Intact
            BY DEF DataGoes, Intact
        <3> QED BY <3>1, <3>2, <3>3 DEF Plan
    <2> QED BY <2>1, <2>2, <2>3, <2>4
<1>6. End = 1 \/ End > 3
    <2>1. CASE Intact
        BY <1>2, <1>3, <2>1
    <2>2. CASE ~Intact
        <3>1. DataAt = 1 \/ DataAt = W + 1
            BY <1>1 DEF Parts
        <3> QED BY <1>3, <2>2, <3>1, WordSizeFacts
    <2> QED BY <2>1, <2>2
<1>7. req.kind \in Slow => End > 3
    <2> SUFFICES ASSUME req.kind \in Slow
                 PROVE  End > 3
        OBVIOUS
    <2>1. Intact
        BY DEF Intact, Slow, WithData
    <2> QED BY <1>2, <1>3, <2>1
<1> QED BY <1>2, <1>3, <1>4, <1>5, <1>6, <1>7

\* The BUSY words that begin behind the end of the command are few enough.
LEMMA LateStep ==
    ASSUME req \in Requests, req' = req, core0' = core0, NEW k \in Int, k < DummyAt,
           Soon(k), req.kind \in Slow \/ k >= 1, late \in Nat,
           late' = IF Byte(k) = BusyCode[1] /\ core0 = "idle" /\ late <= MaxLate
                   THEN late + 1 ELSE late
    PROVE  Soon(k + 1)'
<1>1. Sound
    BY StreamFacts
<1>2. DummyAt \in Nat
    BY <1>1 DEF Sound
<1>3. k >= 1 => Byte(k) # BusyCode[1]
    <2> SUFFICES ASSUME k >= 1
                 PROVE  Byte(k) # BusyCode[1]
        OBVIOUS
    <2>1. k \in 1..(DummyAt - 1)
        BY <1>2
    <2> QED BY <1>1, <2>1 DEF Sound
<1> SUFFICES ASSUME RoomForThree, core0 = "idle"
             PROVE  IF req.kind \in Slow
                    THEN /\ late' <= MaxLate
                         /\ k + 1 <= 1 => 1 - (k + 1) < (MaxLate + 1 - late') * WordSize
                    ELSE late' = 0
    BY DEF Soon
<1>4. CASE req.kind \notin Slow
    <2>1. late = 0 /\ k >= 1
        BY <1>4 DEF Soon
    <2> QED BY <1>3, <1>4, <2>1
<1>5. CASE req.kind \in Slow
    <2>1. /\ late <= 3
          /\ k <= 1 => 1 - k < (3 + 1 - late) * W
        BY <1>5 DEF Soon, MaxLate, W
    <2>2. W \in Nat /\ W > 2
        BY WordSizeFacts
    <2>3. PICK a \in 0..3 : a = late
        BY <2>1
    <2>4. CASE k >= 1
        <3>1. late' = late
            BY <1>3, <2>4
        <3>2. ~(k + 1 <= 1)
            BY <2>4
        <3> QED BY <1>5, <2>1, <3>1, <3>2 DEF MaxLate
    <2>5. CASE k < 1 /\ Byte(k) # BusyCode[1]
        <3>1. late' = a
            BY <2>3, <2>5
        <3>2. 1 - k < (4 - a) * W
            BY <2>1, <2>3, <2>5
        <3>3. 1 - (k + 1) < (4 - a) * W
            BY <2>2, <3>2
        <3>4. 1 - (k + 1) < (3 + 1 - late') * WordSize /\ late' <= 3
            BY <2>3, <3>1, <3>3 DEF W
        <3> QED BY <1>5, <3>4 DEF MaxLate
    <2>6. CASE k < 1 /\ Byte(k) = BusyCode[1]
        <3>1. late' = a + 1
            BY <2>1, <2>3, <2>6 DEF MaxLate
        <3>2. k <= 0 /\ k - 1 \in Int
            BY <2>6
        <3>3. (k - 1) % W = 0
            BY <2>6, <3>2, BusyStream
        <3>4. PICK j \in Int : k - 1 = W * j
            <4>1. (k - 1) \div W \in Int /\ k - 1 = W * ((k - 1) \div W) + ((k - 1) % W)
                BY <2>2, <3>2, DivMod
            <4>2. PICK j \in Int : j = (k - 1) \div W
                BY <4>1
            <4>3. k - 1 = W * j + 0
                BY <3>3, <4>1, <4>2
            <4>4. W * j \in Int
                BY <2>2
            <4> QED BY <4>3, <4>4
        <3>5. 1 - k < (4 - a) * W
            BY <2>1, <2>3, <2>6
        <3>6. PICK i \in Int : i = 0 - j /\ 1 - k = W * i
            <4>1. 0 - j \in Int /\ W * (0 - j) = 0 - (W * j)
                BY <2>2
            <4>2. 1 - k = 0 - (W * j)
                BY <3>4
            <4> QED BY <4>1, <4>2
        <3>7. i <= 3 - a
            <4>1. ASSUME i >= 4 - a
                  PROVE  FALSE
                <5>1. W * i >= W * (4 - a)
                    BY <2>2, <4>1
                <5>2. W * (4 - a) = (4 - a) * W
                    BY <2>2
                <5> QED BY <2>2, <3>5, <3>6, <5>1, <5>2
            <4> QED BY <4>1
        <3>8. i >= 1
            <4>1. ASSUME i <= 0
                  PROVE  FALSE
                <5>1. W * i <= 0
                    BY <2>2, <4>1
                <5> QED BY <3>2, <3>6, <5>1
            <4> QED BY <4>1
        <3>9. W * i <= W * (3 - a)
            BY <2>2, <3>7
        <3>10. W * (3 - a) = (3 - a) * W /\ W * i \in Int /\ (3 - a) * W \in Int
            BY <2>2
        <3>11. 1 - (k + 1) < (3 - a) * W
            BY <3>6, <3>9, <3>10
        <3>12. 3 + 1 - late' = 3 - a /\ late' <= 3
            BY <3>1, <3>7, <3>8
        <3> QED BY <1>5, <3>11, <3>12 DEF MaxLate, W
    <2> QED BY <2>4, <2>5, <2>6
<1> QED BY <1>4, <1>5

\* A read begins: byte k is put out, and the byte behind it is pulled.
LEMMA ReadBegins ==
    ASSUME IInv, sm # "off", irq = FALSE, core1 = "idle",
           core0 \in {"idle", "execute", "status", "chain"},
           UNCHANGED <<c0, dmav, sniffing, core1, got>>,
           oe' = "low", sm' = "loop", drive' = TRUE,
           NEW e \in 1..(DummyAt + 1), Plan(e), Pipe(e),
           NEW k \in Int, NEW n \in Nat, n = Len(dma.left), NEW p \in Nat, p > 0,
           e = (k + 1 + p) + n,
           NEW rest \in Seq(Bytes), Len(rest) = p, p <= FifoDepth, Pull(rest),
           \A i \in 1..p : rest[i] = Byte(k + i),
           pins' = Byte(k), ReadUpTo(k - 1), Soon(k), req.kind \in Slow \/ k >= 1,
           k + 1 < End, irq' \in BOOLEAN,
           irq' => (p = 1 => dma = NoDma), ~irq' => k + 1 < End - 1,
           late' = IF pins' = BusyCode[1] /\ core0 = "idle" /\ late <= MaxLate
                   THEN late + 1 ELSE late
    PROVE  IInv'
<1>1. ~sniffing
    BY DEF IInv, QuietInv, AtRest
<1>2. req \in Requests /\ late \in 0..4
    BY <1>1 DEF IInv, CoresInv, LateInv, MaxLate
<1>3. Sound
    BY <1>2, StreamFacts
<1>4. /\ End \in Int /\ End <= DummyAt + 1 /\ DummyAt \in Nat /\ e \in Int
    <2>1. End \in Int /\ End <= DummyAt + 1 /\ DummyAt \in Nat
        BY <1>2, PlanWithinEnd
    <2>2. e \in Int
        OBVIOUS
    <2> QED BY <2>1, <2>2
<1>5. k < DummyAt
    BY <1>4
<1>6. /\ core0' = core0 /\ req' = req /\ ctrl2_ok' = ctrl2_ok /\ dma' = dma
      /\ core1' = "idle" /\ sniffing' = sniffing /\ got' = got
      /\ ping_at' = ping_at /\ pong' = pong
    BY DEF c0, dmav
<1>7. Answer' = Answer /\ DummyAt' = DummyAt /\ End' = End
    BY <1>6, StreamKept DEF End, Intact, c0
<1>8. rest # <<>>
    OBVIOUS
<1>9. /\ osr' = <<Head(rest)>> /\ fifo' = Tail(rest)
    BY <1>8 DEF Pull
<1>10. /\ Head(rest) = rest[1] /\ Tail(rest) \in Seq(Bytes) /\ Len(Tail(rest)) = p - 1
       /\ \A i \in 1..(p - 1) : Tail(rest)[i] = rest[i + 1]
    BY <1>8, HeadTailProperties
<1>11. rest[1] = Byte(k + 1) /\ rest[1] \in Bytes
    BY ElementOfSeq
<1>12. /\ osr' \in Seq(Bytes) /\ Len(osr') = 1 /\ osr'[1] = Byte(k + 1)
       /\ fifo' \in Seq(Bytes) /\ Len(fifo') = p - 1
       /\ \A i \in 1..(p - 1) : fifo'[i] = rest[i + 1]
    BY <1>9, <1>10, <1>11, SeqFacts
<1>13. InOsr' = 1 /\ Next1(e)' = k + 1
    <2>1. InOsr' = 1
        BY DEF InOsr
    <2>2. Next1(e)' = e - (n + (p - 1) + 1)
        BY <1>6, <1>12, <2>1 DEF Next1
    <2>3. e - (n + (p - 1) + 1) = k + 1
        OBVIOUS
    <2> QED BY <2>1, <2>2, <2>3
<1>14. Pipe(e)'
    <2>1. Byte(Next1(e))' = Byte(k + 1)
        BY <1>7, <1>13 DEF Byte
    <2>2. ASSUME NEW i \in 1..(p - 1)
          PROVE  fifo'[i] = Byte(((k + 1) + 1 + i) - 1)
        <3>1. i + 1 \in 1..p /\ k + (i + 1) = ((k + 1) + 1 + i) - 1
            OBVIOUS
        <3>2. rest[i + 1] = Byte(k + (i + 1))
            BY <3>1
        <3> QED BY <1>12, <3>1, <3>2
    <2>3. \A i : Byte((Next1(e) + InOsr + i) - 1)' = Byte(((k + 1) + 1 + i) - 1)
        BY <1>7, <1>13 DEF Byte
    <2>4. \A i : Byte(((e - Len(dma.left)) + i) - 1)' = Byte(((e - Len(dma.left)) + i) - 1)
        BY <1>6, <1>7 DEF Byte
    <2>5. \A i \in 1..Len(fifo') : fifo'[i] = Byte((Next1(e) + InOsr + i) - 1)'
        BY <1>12, <2>2, <2>3
    <2>6. \A i \in 1..Len(dma'.left) : dma'.left[i] = Byte(((e - Len(dma.left)) + i) - 1)'
        BY <1>6, <2>4 DEF Pipe
    <2> QED BY <1>12, <2>1, <2>5, <2>6 DEF Pipe
<1>15. Shown(k + 1)'
    <2>1. (k + 1) - 1 = k /\ (k + 1) - 2 = k - 1
        OBVIOUS
    <2>2. Byte(k)' = Byte(k) /\ ReadUpTo(k - 1)'
        BY <1>6, <1>7 DEF Byte, ReadUpTo, ReadTo
    <2>3. Byte((k + 1) - 1)' = Byte(k) /\ ReadUpTo((k + 1) - 2)'
        BY <2>1, <2>2
    <2>4. req'.kind \notin Slow => k + 1 > 1
        BY <1>6
    <2> QED BY <2>3, <2>4 DEF Shown
<1>16. EndSeen(k + 1)'
    <2>1. Len(fifo') = 0 => p = 1
        BY <1>12
    <2>2. fifo' = <<>> => p = 1
        BY <2>1
    <2> QED BY <1>6, <1>7, <2>2 DEF EndSeen
<1>17. Soon(k + 1)'
    BY <1>2, <1>5, <1>6, LateStep
<1>18. Plan(e)'
    <2>1. UNCHANGED <<code, data, list1, list2, sniffed>>
        BY DEF c0, dmav
    <2>2. CrcAt' = CrcAt /\ DataAt' = DataAt
        BY <1>6, StreamKept
    <2>3. Intact' = Intact /\ DataReady' = DataReady
        BY <1>6, <2>1 DEF Intact, DataReady
    <2>4. /\ From1(e)' = From1(e) /\ From2(e)' = From2(e) /\ DataGoes' = DataGoes
          /\ ResultReady' = ResultReady
        BY <1>6, <1>7, <2>1, <2>2, <2>3 DEF From1, From2, DataGoes, ResultReady
    <2> QED BY <1>6, <1>7, <2>2, <2>4 DEF Plan
<1>19. Answering'
    <2>1. Shown(Next1(e))' /\ EndSeen(Next1(e))' /\ Soon(Next1(e))'
        BY <1>13, <1>15, <1>16, <1>17 DEF Shown, EndSeen, Soon, ReadUpTo, ReadTo, Byte
    <2>2. e \in 1..(DummyAt' + 1)
        BY <1>7
    <2> QED BY <1>14, <1>18, <2>1, <2>2 DEF Answering
<1>20. TypeOK'
    <2>1. Byte(k) \in Bytes
        BY <1>3, <1>5, <1>4 DEF Sound
    <2>2. Len(fifo') <= FifoDepth
        BY <1>12, FifoAssumption
    <2>3. UNCHANGED <<list1, list2>>
        BY DEF dmav
    <2> QED BY <1>6, <1>12, <2>1, <2>2, <2>3 DEF IInv, TypeOK
<1>21. QuietInv'
    BY <1>1, <1>6 DEF QuietInv
<1>22. PreparedInv'
    BY <1>6 DEF PreparedInv
<1>23. AnswerInv'
    BY <1>19 DEF AnswerInv
<1>24. OverInv'
    BY <1>6 DEF OverInv
<1>25. CoresInv'
    BY <1>1, <1>2, <1>6 DEF IInv, CoresInv
<1>26. BusyInv'
    BY <1>6 DEF IInv, BusyInv
<1>27. ReadsAnswer'
    BY <1>6, <1>7 DEF IInv, ReadsAnswer, IsSlow
<1>28. LateInv'
    <2>1. late' \in 0..(MaxLate + 1)
        BY <1>2 DEF MaxLate
    <2>2. core0' # "idle" => late' = 0
        BY <1>6 DEF IInv, LateInv
    <2>3. ASSUME RoomForThree
          PROVE  late' <= MaxLate
        <3>1. CASE core0' = "idle"
            BY <1>17, <2>3, <3>1 DEF Soon, MaxLate
        <3>2. CASE core0' # "idle"
            BY <2>2, <3>2 DEF MaxLate
        <3> QED BY <3>1, <3>2
    <2> QED BY <2>1, <2>2, <2>3 DEF LateInv, StatusComesSoon
<1> QED BY <1>20, <1>21, <1>22, <1>23, <1>24, <1>25, <1>26, <1>27, <1>28 DEF IInv

LEMMA OeLowStep ==
    ASSUME IInv, OeLow
    PROVE  IInv'
<1>1. /\ oe = "high" /\ oe' = "low" /\ irq = FALSE /\ core1 = "idle"
      /\ core0 \in {"idle", "execute", "status", "chain"}
      /\ dma = NoDma \/ Len(fifo) = FifoDepth
      /\ late' = IF pins' = BusyCode[1] /\ core0 = "idle" /\ late <= MaxLate
                 THEN late + 1 ELSE late
      /\ UNCHANGED <<c0, dmav, sniffing, core1, got>>
    BY DEF OeLow, InTime
<1>2. \/ /\ sm = "first" /\ fifo # <<>> /\ sm' = "loop" /\ drive' = TRUE
         /\ pins' = Head(fifo) /\ Pull(Tail(fifo)) /\ irq' = irq
      \/ /\ sm = "loop" /\ osr # <<>> /\ irq' = TRUE /\ pins' = osr[1] /\ Pull(fifo)
         /\ sm' = sm /\ drive' = drive
    BY DEF OeLow
<1>3. sm # "off"
    BY <1>2
<1>4. ~sniffing /\ req \in Requests /\ Answering
    BY <1>1, <1>3 DEF IInv, QuietInv, AtRest, CoresInv, AnswerInv
<1>5. Parts /\ Sound
    BY <1>4, StreamFacts
<1>6. PICK e \in 1..(DummyAt + 1) :
            /\ Plan(e) /\ Pipe(e)
            /\ Shown(Next1(e)) /\ EndSeen(Next1(e)) /\ Soon(Next1(e))
    BY <1>4 DEF Answering
<1>7. PICK E \in Int : E = End
    BY <1>4, <1>6, PlanWithinEnd
<1>8. /\ e <= E /\ E <= DummyAt + 1 /\ DummyAt \in Nat
      /\ E = 1 \/ E > 3
      /\ req.kind \in Slow => E > 3
      /\ dma = NoDma => e = E
    BY <1>4, <1>6, <1>7, PlanWithinEnd
<1>9. TypeOK /\ e \in Int /\ dma.left \in Seq(Bytes) /\ fifo \in Seq(Bytes)
    BY <1>8 DEF IInv, TypeOK
<1>10. PICK n \in Nat, q \in Nat, o \in 0..1 :
            /\ n = Len(dma.left) /\ q = Len(fifo) /\ o = InOsr
            /\ o = IF sm = "loop" THEN 1 ELSE 0
    BY <1>9 DEF InOsr
<1>11. PICK k \in Int : k = Next1(e) /\ k = e - (n + q + o)
    <2>1. Next1(e) = e - (n + q + o) /\ e - (n + q + o) \in Int
        BY <1>9, <1>10 DEF Next1
    <2> QED BY <2>1
<1>12. PICK d \in Nat : d = FifoDepth /\ d > 1
    BY FifoAssumption
<1>13. q <= d /\ (dma = NoDma => n = 0) /\ (dma # NoDma => q = d)
    <2>1. q <= d
        BY <1>10, <1>12 DEF IInv, TypeOK
    <2>2. dma = NoDma => n = 0
        <3>1. dma = NoDma => dma.left = <<>>
            BY DEF NoDma
        <3> QED BY <1>10, <3>1
    <2>3. dma # NoDma => q = d
        BY <1>1, <1>10, <1>12
    <2> QED BY <2>1, <2>2, <2>3
<1>14. late \in Nat
    BY DEF IInv, LateInv, MaxLate
<1>15. \A i \in 1..q : fifo[i] = Byte((k + o + i) - 1)
    BY <1>6, <1>10, <1>11 DEF Pipe
<1>16. Shown(k) /\ EndSeen(k) /\ Soon(k)
    BY <1>6, <1>11
<1>17. CASE /\ sm = "first" /\ fifo # <<>> /\ sm' = "loop" /\ drive' = TRUE
            /\ pins' = Head(fifo) /\ Pull(Tail(fifo)) /\ irq' = irq
    <2>1. o = 0 /\ q > 0 /\ k = e - (n + q)
        BY <1>9, <1>10, <1>11, <1>17
    <2>2. got = <<>> /\ ReadUpTo(k - 1)
        BY <1>16, <1>17 DEF Shown
    <2>3. k <= 1 /\ (req.kind \notin Slow => k = 1)
        <3>1. Len(got) = 0
            BY <2>2
        <3>2. k - 1 >= 1 => Len(got) # k - 1
            BY <3>1
        <3>3. k - 1 <= 0 /\ (req.kind \notin Slow => k - 1 = 0)
            BY <2>2, <3>2 DEF ReadUpTo, ReadTo
        <3> QED BY <3>3
    <2>4. E > 3
        <3>1. CASE req.kind \in Slow
            BY <1>8, <3>1
        <3>2. CASE req.kind \notin Slow
            <4>1. e = 1 + (n + q)
                BY <1>9, <2>1, <2>3, <3>2
            <4>2. E > 1
                BY <1>8, <2>1, <4>1
            <4> QED BY <1>8, <4>2
        <3> QED BY <3>1, <3>2
    <2>5. q > 1
        <3>1. CASE dma = NoDma
            <4>1. k = E - q
                BY <1>8, <1>13, <2>1, <3>1
            <4> QED BY <2>3, <2>4, <4>1
        <3>2. CASE dma # NoDma
            BY <1>12, <1>13, <3>2
        <3> QED BY <3>1, <3>2
    <2>6. PICK p \in Nat : p = q - 1 /\ p > 0
        BY <2>5
    <2>7. PICK rest \in Seq(Bytes) : rest = Tail(fifo) /\ Len(rest) = p
                                     /\ \A i \in 1..p : rest[i] = fifo[i + 1]
        <3>1. /\ Tail(fifo) \in Seq(Bytes) /\ Len(Tail(fifo)) = Len(fifo) - 1
              /\ \A i \in 1..(Len(fifo) - 1) : Tail(fifo)[i] = fifo[i + 1]
            BY <1>9, <1>17, HeadTailProperties
        <3>2. Len(fifo) - 1 = p
            BY <1>10, <2>6
        <3> QED BY <3>1, <3>2
    <2>8. \A i \in 1..p : rest[i] = Byte(k + i)
        <3> SUFFICES ASSUME NEW i \in 1..p
                     PROVE  rest[i] = Byte(k + i)
            OBVIOUS
        <3>1. i + 1 \in 1..q /\ (k + 0 + (i + 1)) - 1 = k + i
            BY <2>6
        <3>2. fifo[i + 1] = Byte((k + 0 + (i + 1)) - 1)
            BY <1>15, <2>1, <3>1
        <3> QED BY <2>7, <3>1, <3>2
    <2>9. pins' = Byte(k)
        <3>1. 1 \in 1..q /\ (k + 0 + 1) - 1 = k
            BY <2>5
        <3>2. fifo[1] = Byte((k + 0 + 1) - 1)
            BY <1>15, <2>1, <3>1
        <3>3. Head(fifo) = fifo[1]
            BY <1>9, <1>17, HeadTailProperties
        <3> QED BY <1>17, <3>1, <3>2, <3>3
    <2>10. e = (k + 1 + p) + n /\ p <= FifoDepth
        BY <1>9, <1>12, <1>13, <2>1, <2>6
    <2>11. k + 1 < End - 1 /\ k + 1 < End
        BY <1>7, <2>3, <2>4
    <2>12. req.kind \in Slow \/ k >= 1
        BY <2>3
    <2>13. Pull(rest) /\ irq' = FALSE
        BY <1>1, <1>17, <2>7
    <2> QED BY <1>1, <1>3, <1>6, <1>10, <1>16, <1>17, <2>2, <2>6, <2>7, <2>8, <2>9,
               <2>10, <2>11, <2>12, <2>13, ReadBegins
<1>18. CASE /\ sm = "loop" /\ osr # <<>> /\ irq' = TRUE /\ pins' = osr[1] /\ Pull(fifo)
            /\ sm' = sm /\ drive' = drive
    <2>1. o = 1 /\ k = e - (n + q + 1)
        BY <1>10, <1>11, <1>18
    <2>2. drive /\ (req.kind \notin Slow => k > 1) /\ ReadUpTo(k - 1)
        BY <1>1, <1>16, <1>18 DEF Shown
    <2>3. k < E - 1
        BY <1>1, <1>7, <1>16, <1>18 DEF EndSeen
    <2>4. q > 0
        <3>1. CASE dma = NoDma
            <4>1. k = E - (q + 1)
                BY <1>8, <1>13, <2>1, <3>1
            <4> QED BY <2>3, <4>1
        <3>2. CASE dma # NoDma
            BY <1>12, <1>13, <3>2
        <3> QED BY <3>1, <3>2
    <2>5. \A i \in 1..q : fifo[i] = Byte(k + i)
        <3> SUFFICES ASSUME NEW i \in 1..q
                     PROVE  fifo[i] = Byte(k + i)
            OBVIOUS
        <3>1. (k + 1 + i) - 1 = k + i
            OBVIOUS
        <3>2. fifo[i] = Byte((k + 1 + i) - 1)
            BY <1>15, <2>1
        <3> QED BY <3>1, <3>2
    <2>6. pins' = Byte(k)
        BY <1>6, <1>11, <1>18 DEF Pipe
    <2>7. e = (k + 1 + q) + n /\ q <= FifoDepth
        BY <1>9, <1>12, <1>13, <2>1
    <2>8. k + 1 < End
        BY <1>7, <2>3
    <2>9. q = 1 => dma = NoDma
        BY <1>12, <1>13
    <2>10. req.kind \in Slow \/ k >= 1
        BY <2>2
    <2>11. sm' = "loop" /\ drive' = TRUE /\ irq' = TRUE
        <3>1. drive' = drive /\ drive \in BOOLEAN
            BY <1>18 DEF IInv, TypeOK
        <3> QED BY <1>18, <2>2, <3>1
    <2>12. Pull(fifo)
        BY <1>18
    <2> QED BY <1>1, <1>3, <1>6, <1>9, <1>10, <1>16, <2>2, <2>4, <2>5, <2>6, <2>7, <2>8,
               <2>9, <2>10, <2>11, <2>12, ReadBegins
<1> QED BY <1>2, <1>17, <1>18

\* The console samples a byte.
LEMMA OeHighStep ==
    ASSUME IInv, OeHigh
    PROVE  IInv'
<1>1. /\ oe = "low" /\ oe' = "high"
      /\ LET byte == IF drive THEN pins ELSE Rom
         IN  got' = IF got = BusyCode THEN <<byte>> ELSE Append(got, byte)
      /\ UNCHANGED <<c0, dmav, pio, sniffing, core1, late>>
    BY DEF OeHigh
<1>2. ~sniffing /\ core0 \notin {"load", "busy"}
    BY <1>1 DEF IInv, QuietInv, PreparedInv
<1>3. req \in Requests
    BY <1>2 DEF IInv, CoresInv
<1>4. Sound
    BY <1>3, StreamFacts
<1>5. /\ UNCHANGED <<req, core0, ctrl2_ok, code, data, dma, list1, list2, pong, ping_at,
                     sniffed, fifo, sm, osr, pins, drive, irq>>
    BY <1>1 DEF c0, dmav, pio
<1>6. /\ Answer' = Answer /\ DummyAt' = DummyAt /\ DataAt' = DataAt /\ CrcAt' = CrcAt
      /\ Intact' = Intact /\ End' = End
    BY <1>5, StreamKept DEF End, Intact
<1>7. /\ DummyAt \in Nat /\ DummyAt > 2 /\ End \in Int /\ End <= DummyAt + 1
    BY <1>3, <1>4, EndFacts DEF Sound
<1>8. ASSUME NEW r \in Int, ReadUpTo(r), r + 1 < DummyAt, drive, pins = Byte(r + 1)
      PROVE  ReadUpTo(r + 1)' /\ ReadsAnswer'
    <2>1. got' = IF got = BusyCode THEN <<Byte(r + 1)>> ELSE Append(got, Byte(r + 1))
        BY <1>1, <1>8
    <2>2. ReadUpTo(r + 1)'
        BY <1>3, <1>5, <1>8, <2>1, ReadStep
    <2>3. ReadTo(got', r + 1)
        BY <1>5, <1>6, <2>2 DEF ReadUpTo, ReadTo
    <2>4. IsPrefix(got', Answer) \/ (IsSlow /\ IsPrefix(got', BusyCode))
        <3>1. r + 1 \in Int
            OBVIOUS
        <3> QED BY <1>3, <1>8, <2>3, <3>1, ReadIsAnswer
    <2>5. ReadsAnswer'
        BY <1>5, <1>6, <2>4 DEF ReadsAnswer, IsSlow
    <2> QED BY <2>2, <2>5
<1>9. TypeOK' /\ QuietInv' /\ PreparedInv' /\ CoresInv' /\ BusyInv' /\ LateInv'
    <2>1. TypeOK'
        BY <1>1, <1>5 DEF IInv, TypeOK
    <2>2. QuietInv' /\ PreparedInv'
        BY <1>1, <1>2, <1>5 DEF QuietInv, PreparedInv
    <2>3. CoresInv' /\ BusyInv'
        BY <1>1, <1>5 DEF IInv, CoresInv, BusyInv
    <2>4. LateInv'
        BY <1>1, <1>5 DEF IInv, LateInv, StatusComesSoon
    <2> QED BY <2>1, <2>2, <2>3, <2>4
<1>10. CASE core1 = "sniff"
    <2>1. /\ drive /\ pins = Byte(End - 2) /\ ReadUpTo(End - 3)
          /\ core0 = "idle" /\ AtRest /\ End > 2
        BY <1>1, <1>10 DEF IInv, OverInv
    <2>2. PICK m \in Int : m = End - 3
        BY <1>7
    <2>3. m + 1 = End - 2 /\ m + 1 < DummyAt
        BY <1>7, <2>2
    <2>4. ReadUpTo(m) /\ pins = Byte(m + 1)
        BY <2>1, <2>2, <2>3
    <2>5. ReadUpTo(m + 1)' /\ ReadsAnswer'
        BY <1>8, <2>1, <2>3, <2>4
    <2>6. (End - 2)' = m + 1
        BY <1>6, <2>3
    <2>7. ReadUpTo(End - 2)'
        BY <2>5, <2>6 DEF ReadUpTo, ReadTo
    <2>8. OverInv'
        BY <1>1, <1>2, <1>5, <1>6, <2>1, <2>7 DEF OverInv, AtRest
    <2>9. AnswerInv'
        BY <1>1, <1>10 DEF AnswerInv
    <2> QED BY <1>9, <2>5, <2>8, <2>9 DEF IInv
<1>11. CASE core1 # "sniff"
    <2>1. Answering
        BY <1>2, <1>11 DEF IInv, AnswerInv
    <2>2. PICK e \in 1..(DummyAt + 1) :
            /\ Plan(e) /\ Pipe(e)
            /\ Shown(Next1(e)) /\ EndSeen(Next1(e)) /\ Soon(Next1(e))
        BY <2>1 DEF Answering
    <2>3. TypeOK /\ e \in Int
        BY <1>7 DEF IInv
    <2>4. PICK k \in Int : k = Next1(e)
        BY <2>3, Positions
    <2>5. Shown(k) /\ EndSeen(k) /\ Soon(k)
        BY <2>2, <2>4
    <2>6. /\ sm = "loop" /\ drive /\ pins = Byte(k - 1) /\ ReadUpTo(k - 2)
          /\ req.kind \notin Slow => k > 1
        BY <1>1, <2>5 DEF Shown
    <2>7. k < End
        BY <1>7, <2>5, <2>6 DEF EndSeen
    <2>8. k - 2 \in Int /\ (k - 2) + 1 = k - 1 /\ k - 1 < DummyAt
        BY <1>7, <2>7
    <2>9. ReadUpTo(k - 1)' /\ ReadsAnswer'
        <3>1. ReadUpTo((k - 2) + 1)' /\ ReadsAnswer'
            BY <1>8, <2>6, <2>8
        <3> QED BY <2>8, <3>1
    <2>10. Next1(e)' = k
        BY <1>5, <2>4 DEF Next1, InOsr
    <2>11. Plan(e)'
        <3>1. DataReady' = DataReady /\ ResultReady' = ResultReady
            BY <1>5 DEF DataReady, ResultReady
        <3>2. /\ From1(e)' = From1(e) /\ From2(e)' = From2(e) /\ DataGoes' = DataGoes
            BY <1>5, <1>6, <3>1 DEF From1, From2, DataGoes
        <3> QED BY <1>5, <1>6, <2>2, <3>1, <3>2 DEF Plan
    <2>12. Pipe(e)'
        <3>1. Byte(Next1(e))' = Byte(Next1(e))
            BY <1>6, <2>4, <2>10 DEF Byte
        <3>2. \A i : Byte((Next1(e) + InOsr + i) - 1)' = Byte((Next1(e) + InOsr + i) - 1)
            <4>1. InOsr' = InOsr
                BY <1>5 DEF InOsr
            <4> QED BY <1>6, <2>4, <2>10, <4>1 DEF Byte
        <3>3. \A i : Byte(((e - Len(dma.left)) + i) - 1)'
                        = Byte(((e - Len(dma.left)) + i) - 1)
            BY <1>5, <1>6 DEF Byte
        <3> QED BY <1>5, <2>2, <3>1, <3>2, <3>3 DEF Pipe
    <2>13. Shown(k)'
        BY <1>1, <1>5, <2>6, <2>9 DEF Shown
    <2>14. EndSeen(k)' /\ Soon(k)'
        BY <1>1, <1>5, <1>6, <2>5 DEF EndSeen, Soon
    <2>15. Answering'
        <3>1. Shown(Next1(e))' /\ EndSeen(Next1(e))' /\ Soon(Next1(e))'
            BY <2>10, <2>13, <2>14 DEF Shown, EndSeen, Soon, ReadUpTo, ReadTo, Byte
        <3>2. e \in 1..(DummyAt' + 1)
            BY <1>6
        <3> QED BY <2>11, <2>12, <3>1, <3>2 DEF Answering
    <2>16. AnswerInv' /\ OverInv'
        BY <1>1, <1>11, <2>15 DEF AnswerInv, OverInv
    <2> QED BY <1>9, <2>9, <2>16 DEF IInv
<1> QED BY <1>10, <1>11

-----------------------------------------------------------------------------
(***************************************************************************)
(* byte_out_irq_handler                                                    *)
(***************************************************************************)
\* It leaves the stream alone.
LEMMA HandlerKeeps ==
    ASSUME IInv, ~sniffing, req \in Requests,
           UNCHANGED <<c0, dmav, fifo, sm, pins, drive, sniffing, oe, got, late>>,
           sm = "loop" => osr' = osr,
           NEW e \in 1..(DummyAt + 1), Plan(e), Pipe(e),
           Shown(Next1(e)), Soon(Next1(e)), EndSeen(Next1(e))'
    PROVE  Answering'
<1>1. UNCHANGED <<req, core0, ctrl2_ok, code, data, dma, list1, list2, pong, ping_at,
                  sniffed, fifo, sm, pins, drive>>
    BY DEF c0, dmav
<1>2. /\ Answer' = Answer /\ DummyAt' = DummyAt /\ DataAt' = DataAt /\ CrcAt' = CrcAt
      /\ Intact' = Intact /\ End' = End /\ InOsr' = InOsr
    BY <1>1, StreamKept DEF End, Intact, InOsr
<1>3. e \in Int /\ TypeOK
    BY StreamFacts DEF Sound, IInv
<1>4. PICK k \in Int : k = Next1(e)
    BY <1>3, Positions
<1>5. Next1(e)' = k
    BY <1>1, <1>2, <1>4 DEF Next1
<1>6. Plan(e)'
    <2>1. DataReady' = DataReady /\ ResultReady' = ResultReady
        BY <1>1 DEF DataReady, ResultReady
    <2>2. From1(e)' = From1(e) /\ From2(e)' = From2(e) /\ DataGoes' = DataGoes
        BY <1>1, <1>2, <2>1 DEF From1, From2, DataGoes
    <2> QED BY <1>1, <1>2, <2>1, <2>2 DEF Plan
<1>7. Pipe(e)'
    <2>1. Byte(Next1(e))' = Byte(Next1(e))
        BY <1>2, <1>4, <1>5 DEF Byte
    <2>2. \A i : Byte((Next1(e) + InOsr + i) - 1)' = Byte((Next1(e) + InOsr + i) - 1)
        BY <1>2, <1>4, <1>5 DEF Byte
    <2>3. \A i : Byte(((e - Len(dma.left)) + i) - 1)' = Byte(((e - Len(dma.left)) + i) - 1)
        BY <1>1, <1>2 DEF Byte
    <2> QED BY <1>1, <2>1, <2>2, <2>3 DEF Pipe
<1>8. Shown(k)' /\ Soon(k)'
    <2>1. Shown(k) /\ Soon(k)
        BY <1>4
    <2>2. Soon(k)'
        BY <1>1, <2>1 DEF Soon
    <2>3. Byte(k - 1)' = Byte(k - 1)
        BY <1>2 DEF Byte
    <2>4. ReadUpTo(k - 1)' = ReadUpTo(k - 1) /\ ReadUpTo(k - 2)' = ReadUpTo(k - 2)
        BY <1>1, <1>2 DEF ReadUpTo, ReadTo
    <2>5. Shown(k)'
        BY <1>1, <2>1, <2>3, <2>4 DEF Shown
    <2> QED BY <2>2, <2>5
<1>9. Shown(Next1(e))' /\ Soon(Next1(e))'
    BY <1>5, <1>8 DEF Shown, Soon, ReadUpTo, ReadTo, Byte
<1>10. e \in 1..(DummyAt' + 1)
    BY <1>2
<1> QED BY <1>6, <1>7, <1>9, <1>10 DEF Answering

LEMMA HandlerCheckStep ==
    ASSUME IInv, HandlerCheck
    PROVE  IInv'
<1>1. /\ core1 = "idle" /\ irq /\ core1' = IF fifo = <<>> THEN "stop" ELSE "clear"
      /\ UNCHANGED <<c0, dmav, pio, sniffing, oe, got, late>>
    BY DEF HandlerCheck
<1>2. UNCHANGED <<req, core0, dma, list1, list2, pong, ping_at, fifo, sm, osr, pins,
                  drive, irq, ctrl2_ok, data>>
    BY <1>1 DEF c0, dmav, pio
<1>3. sm = "loop" /\ ~sniffing /\ core0 \notin {"load", "busy", "start"} /\ req \in Requests
    BY <1>1 DEF IInv, CoresInv, QuietInv, AtRest
<1>4. Answering
    BY <1>1, <1>3 DEF IInv, AnswerInv
<1>5. PICK e \in 1..(DummyAt + 1) :
            /\ Plan(e) /\ Pipe(e)
            /\ Shown(Next1(e)) /\ EndSeen(Next1(e)) /\ Soon(Next1(e))
    BY <1>4 DEF Answering
<1>6. /\ e <= End /\ End \in Int /\ DummyAt \in Nat
    BY <1>3, <1>5, PlanWithinEnd
<1>7. e \in Int /\ TypeOK
    BY <1>6 DEF IInv
<1>8. PICK k \in Int : k = Next1(e)
    BY <1>7, Positions
<1>9. k < End /\ (fifo = <<>> => dma = NoDma)
    BY <1>1, <1>3, <1>5, <1>8 DEF EndSeen
<1>10. fifo # <<>> => k < End - 1
    <2> SUFFICES ASSUME fifo # <<>>
                 PROVE  k < End - 1
        OBVIOUS
    <2>1. fifo \in Seq(Bytes) /\ dma.left \in Seq(Bytes)
        BY <1>7 DEF TypeOK
    <2>2. PICK q \in Nat, n \in Nat : q = Len(fifo) /\ q > 0 /\ n = Len(dma.left)
        BY <2>1
    <2>3. k = e - (n + q + 1)
        BY <1>3, <1>8, <2>2 DEF Next1, InOsr
    <2> QED BY <1>6, <1>7, <2>2, <2>3
<1>11. EndSeen(Next1(e))'
    <2>1. Next1(e)' = k
        BY <1>2, <1>8 DEF Next1, InOsr
    <2>2. End' = End
        BY <1>2, StreamKept DEF End, Intact
    <2>3. EndSeen(k)'
        BY <1>1, <1>2, <1>9, <1>10, <2>2 DEF EndSeen
    <2> QED BY <2>1, <2>3 DEF EndSeen
<1>12. Answering'
    BY <1>1, <1>2, <1>3, <1>5, <1>11, HandlerKeeps
<1>13. TypeOK' /\ BusyInv'
    BY <1>1, <1>2 DEF IInv, TypeOK, BusyInv
<1>14. QuietInv' /\ PreparedInv' /\ AnswerInv' /\ OverInv'
    BY <1>1, <1>2, <1>3, <1>12 DEF QuietInv, PreparedInv, AnswerInv, OverInv
<1>15. CoresInv'
    BY <1>1, <1>2, <1>3, <1>9 DEF IInv, CoresInv
<1>16. ReadsAnswer' /\ LateInv'
    BY <1>1, <1>2, StreamKept DEF IInv, ReadsAnswer, IsSlow, LateInv, StatusComesSoon
<1> QED BY <1>13, <1>14, <1>15, <1>16 DEF IInv

\* When core 1 stops the SM the whole stream has been put out.
LEMMA HandlerStopStep ==
    ASSUME IInv, HandlerStop
    PROVE  IInv'
<1>1. /\ core1 = "stop" /\ core1' = "sniff" /\ sm' = "off"
      /\ UNCHANGED <<c0, dmav, fifo, osr, pins, drive, irq, sniffing, oe, got, late>>
    BY DEF HandlerStop
<1>2. UNCHANGED <<req, core0, dma, list1, list2, pong, ping_at, ctrl2_ok, data>>
    BY <1>1 DEF c0, dmav
<1>3. /\ sm = "loop" /\ fifo = <<>> /\ dma = NoDma /\ irq
      /\ ~sniffing /\ core0 \notin {"load", "busy", "start"} /\ req \in Requests
    BY <1>1 DEF IInv, CoresInv, QuietInv, AtRest
<1>4. core0 = "idle"
    <2>1. dma.ch \notin {"ping", "pong"}
        BY <1>3 DEF NoDma
    <2>2. core0 \notin {"execute", "status", "chain"}
        BY <2>1 DEF IInv, BusyInv
    <2> QED BY <1>3, <2>2 DEF IInv, TypeOK
<1>5. Answering
    BY <1>1, <1>3 DEF IInv, AnswerInv
<1>6. PICK e \in 1..(DummyAt + 1) :
            /\ Plan(e) /\ Pipe(e)
            /\ Shown(Next1(e)) /\ EndSeen(Next1(e)) /\ Soon(Next1(e))
    BY <1>5 DEF Answering
<1>7. PICK E \in Int : E = End /\ e = E /\ (req.kind \in Slow => E > 3)
    BY <1>3, <1>6, PlanWithinEnd
<1>8. Next1(e) = E - 1
    <2>1. Len(fifo) = 0 /\ Len(dma.left) = 0 /\ InOsr = 1
        BY <1>3 DEF NoDma, InOsr
    <2>2. Next1(e) = E - (0 + 0 + 1)
        BY <1>7, <2>1 DEF Next1
    <2> QED BY <2>2
<1>9. Shown(E - 1)
    BY <1>6, <1>8
<1>10. /\ drive /\ (req.kind \notin Slow => E - 1 > 1)
       /\ IF oe = "low" THEN pins = Byte(E - 2) /\ ReadUpTo(E - 3)
                        ELSE ReadUpTo(E - 2)
    <2>1. (E - 1) - 1 = E - 2 /\ (E - 1) - 2 = E - 3
        OBVIOUS
    <2>2. /\ drive /\ (req.kind \notin Slow => E - 1 > 1)
          /\ IF oe = "low" THEN pins = Byte((E - 1) - 1) /\ ReadUpTo((E - 1) - 2)
                           ELSE ReadUpTo((E - 1) - 1)
        BY <1>3, <1>9 DEF Shown
    <2> QED BY <2>1, <2>2
<1>11. E > 2
    BY <1>7, <1>10
<1>12. End' = E /\ \A i : Byte(i)' = Byte(i)
    BY <1>2, <1>7, StreamKept DEF End, Intact
<1>13. OverInv'
    <2>1. AtRest'
        BY <1>1, <1>2, <1>3 DEF AtRest
    <2>2. ReadUpTo(E - 3)' = ReadUpTo(E - 3) /\ ReadUpTo(E - 2)' = ReadUpTo(E - 2)
        BY <1>1, <1>2, StreamKept DEF ReadUpTo, ReadTo
    <2>3. /\ pins' = pins /\ oe' = oe /\ drive' = drive /\ sniffing' = sniffing
          /\ core0' = core0
        BY <1>1, <1>2
    <2>4. oe' = "low" => pins' = Byte(E - 2)' /\ ReadUpTo(E - 3)'
        BY <1>10, <1>12, <2>2, <2>3
    <2>5. oe' # "low" => ReadUpTo(E - 2)'
        BY <1>10, <2>2, <2>3
    <2>6. oe' = "low" => pins' = Byte(End - 2)' /\ ReadUpTo(End - 3)'
        BY <1>12, <2>4 DEF Byte, ReadUpTo, ReadTo
    <2>7. oe' # "low" => ReadUpTo(End - 2)'
        BY <1>12, <2>5 DEF ReadUpTo, ReadTo
    <2> QED BY <1>3, <1>4, <1>10, <1>11, <1>12, <2>1, <2>3, <2>6, <2>7 DEF OverInv
<1>14. TypeOK' /\ BusyInv'
    BY <1>1, <1>2 DEF IInv, TypeOK, BusyInv
<1>15. QuietInv' /\ PreparedInv' /\ AnswerInv'
    BY <1>1, <1>2, <1>3 DEF QuietInv, PreparedInv, AnswerInv
<1>16. CoresInv'
    BY <1>1, <1>2, <1>3, <1>4 DEF IInv, CoresInv
<1>17. ReadsAnswer' /\ LateInv'
    BY <1>1, <1>2, StreamKept DEF IInv, ReadsAnswer, IsSlow, LateInv, StatusComesSoon
<1> QED BY <1>13, <1>14, <1>15, <1>16, <1>17 DEF IInv

LEMMA HandlerSniffStep ==
    ASSUME IInv, HandlerSniff
    PROVE  IInv'
<1>1. /\ core1 = "sniff" /\ oe = "high" /\ core1' = "reset" /\ sniffing' = TRUE
      /\ drive' = FALSE
      /\ UNCHANGED <<c0, dmav, fifo, sm, osr, pins, irq, oe, got, late>>
    BY DEF HandlerSniff
<1>2. UNCHANGED <<req, core0, dma, list1, list2, pong, ping_at, ctrl2_ok, data>>
    BY <1>1 DEF c0, dmav
<1>3. core0 = "idle" /\ AtRest
    BY <1>1 DEF IInv, OverInv
<1>4. TypeOK' /\ BusyInv'
    <2>1. {drive', sniffing', irq', ctrl2_ok'} \subseteq BOOLEAN
        BY <1>1, <1>2 DEF IInv, TypeOK
    <2>2. TypeOK'
        BY <1>1, <1>2, <2>1 DEF IInv, TypeOK
    <2>3. BusyInv'
        BY <1>1, <1>2 DEF IInv, BusyInv
    <2> QED BY <2>2, <2>3
<1>5. QuietInv' /\ PreparedInv' /\ AnswerInv' /\ OverInv'
    BY <1>1, <1>2, <1>3 DEF QuietInv, PreparedInv, AnswerInv, OverInv, AtRest
<1>6. CoresInv'
    BY <1>1, <1>2, <1>3 DEF IInv, CoresInv, AtRest
<1>7. ReadsAnswer' /\ LateInv'
    BY <1>1, <1>2, StreamKept DEF IInv, ReadsAnswer, IsSlow, LateInv, StatusComesSoon
<1> QED BY <1>4, <1>5, <1>6, <1>7 DEF IInv

\* The end of the handler may run while the next answer is being prepared, but
\* not while the console reads it.
LEMMA HandlerLeaves ==
    ASSUME IInv, core1 \in {"reset", "clear"}, core1' \in {"clear", "idle"},
           UNCHANGED <<c0, dmav, fifo, sm, pins, drive, sniffing, oe, got, late>>,
           osr' \in Seq(Bytes), Len(osr') <= 1, sm = "loop" => osr' = osr,
           irq' \in BOOLEAN, irq' <=> core1' = "clear"
    PROVE  IInv'
<1>1. UNCHANGED <<req, core0, dma, list1, list2, pong, ping_at, ctrl2_ok, data>>
    BY DEF c0, dmav
<1>2. ASSUME ~sniffing, core0 \notin {"load", "busy"}
      PROVE  Answering'
    <2>1. Answering /\ req \in Requests
        BY <1>2 DEF IInv, AnswerInv, CoresInv
    <2>2. PICK e \in 1..(DummyAt + 1) :
                /\ Plan(e) /\ Pipe(e)
                /\ Shown(Next1(e)) /\ EndSeen(Next1(e)) /\ Soon(Next1(e))
        BY <2>1 DEF Answering
    <2>3. EndSeen(Next1(e))'
        <3>1. Next1(e)' = Next1(e)
            BY <1>1 DEF Next1, InOsr
        <3>2. End' = End
            BY <1>1, StreamKept DEF End, Intact
        <3>3. sm = "loop" => Next1(e) < End - 1
            BY <2>2 DEF EndSeen
        <3> QED BY <3>1, <3>2, <3>3 DEF EndSeen
    <2> QED BY <1>2, <2>1, <2>2, <2>3, HandlerKeeps
<1>3. TypeOK' /\ BusyInv'
    <2>1. {drive', sniffing', irq', ctrl2_ok'} \subseteq BOOLEAN
        BY <1>1 DEF IInv, TypeOK
    <2>2. TypeOK'
        BY <1>1, <2>1 DEF IInv, TypeOK
    <2>3. BusyInv'
        BY <1>1 DEF IInv, BusyInv
    <2> QED BY <2>2, <2>3
<1>4. QuietInv' /\ PreparedInv' /\ AnswerInv' /\ OverInv'
    <2>1. QuietInv'
        BY <1>1 DEF IInv, QuietInv, AtRest
    <2>2. PreparedInv'
        BY <1>1 DEF IInv, PreparedInv, AtRest, DataReady
    <2>3. AnswerInv' /\ OverInv'
        BY <1>1, <1>2 DEF AnswerInv, OverInv
    <2> QED BY <2>1, <2>2, <2>3
<1>5. CoresInv'
    BY <1>1 DEF IInv, CoresInv
<1>6. ReadsAnswer' /\ LateInv'
    BY <1>1, StreamKept DEF IInv, ReadsAnswer, IsSlow, LateInv, StatusComesSoon
<1> QED BY <1>3, <1>4, <1>5, <1>6 DEF IInv

LEMMA HandlerResetStep ==
    ASSUME IInv, HandlerReset
    PROVE  IInv'
<1>1. /\ core1 = "reset" /\ core1' = "clear" /\ osr' = <<>>
      /\ UNCHANGED <<c0, dmav, fifo, sm, pins, drive, irq, sniffing, oe, got, late>>
    BY DEF HandlerReset
<1>2. sm # "loop" /\ irq /\ irq \in BOOLEAN
    BY <1>1 DEF IInv, CoresInv, TypeOK
<1>3. osr' \in Seq(Bytes) /\ Len(osr') <= 1
    BY <1>1, SeqFacts
<1> QED BY <1>1, <1>2, <1>3, HandlerLeaves

LEMMA HandlerClearStep ==
    ASSUME IInv, HandlerClear
    PROVE  IInv'
<1>1. /\ core1 = "clear" /\ core1' = "idle" /\ irq' = FALSE
      /\ UNCHANGED <<c0, dmav, fifo, sm, osr, pins, drive, sniffing, oe, got, late>>
    BY DEF HandlerClear
<1>2. osr' \in Seq(Bytes) /\ Len(osr') <= 1
    BY <1>1 DEF IInv, TypeOK
<1> QED BY <1>1, <1>2, HandlerLeaves

-----------------------------------------------------------------------------
(***************************************************************************)
(* The theorems                                                            *)
(***************************************************************************)
LEMMA AtFirst ==
    ASSUME Init
    PROVE  IInv
<1>1. /\ core0 = "idle" /\ req = NoReq /\ code = "OK"
      /\ dma = NoDma /\ list1 = <<>> /\ list2 = <<>> /\ data = <<>>
      /\ ctrl2_ok = TRUE /\ pong = "ping" /\ ping_at = 0 /\ sniffed = Stale
      /\ fifo = <<>> /\ sm = "off" /\ osr = <<>> /\ pins = Rom /\ drive = FALSE
      /\ sniffing = TRUE /\ irq = FALSE
      /\ core1 = "idle" /\ oe = "high" /\ got = <<>> /\ late = 0
    BY DEF Init
<1>2. dma.ch = "idle" /\ NoDma = [ch |-> "idle", left |-> <<>>, chain |-> "none"]
    BY <1>1 DEF NoDma
<1>3. TypeOK
    <2>1. <<>> \in Seq(Bytes) /\ Len(<<>>) = 0 /\ FifoDepth \in Nat /\ WordSize \in Nat
        BY SeqFacts, FifoAssumption
    <2>2. dma \in [ch : {"idle", "ctrl1", "ctrl2", "data1", "data2", "ping", "pong"},
                   left : Seq(Bytes), chain : {"none", "ctrl1", "ctrl2", "pong"}]
        BY <1>1, <1>2, <2>1
    <2>3. Rom \in Bytes
        BY DEF Bytes
    <2>4. Len(fifo) <= FifoDepth /\ ping_at \in 0..WordSize
        BY <1>1, <2>1
    <2>5. fifo \in Seq(Bytes) /\ osr \in Seq(Bytes) /\ Len(osr) <= 1 /\ pins \in Bytes
        BY <1>1, <2>1, <2>3
    <2>6. dma.ch # "ctrl1" /\ dma.ch # "ctrl2"
        BY <1>2
    <2>7. {drive, sniffing, irq, ctrl2_ok} \subseteq BOOLEAN
        BY <1>1
    <2> QED BY <1>1, <2>2, <2>4, <2>5, <2>6, <2>7 DEF TypeOK
<1>4. QuietInv /\ PreparedInv /\ AnswerInv /\ OverInv
    BY <1>1 DEF QuietInv, PreparedInv, AnswerInv, OverInv, AtRest
<1>5. CoresInv /\ BusyInv
    BY <1>1, <1>2 DEF CoresInv, BusyInv
<1>6. ReadsAnswer
    <2>1. Answer = <<>> \o <<>> \o <<>>
        BY <1>1 DEF Answer, NoReq
    <2>2. Answer \in Seq(Bytes)
        BY <2>1, SeqFacts
    <2> QED BY <1>1, <2>2, EmptyPrefix DEF ReadsAnswer
<1>7. LateInv
    BY <1>1 DEF LateInv, StatusComesSoon, MaxLate
<1> QED BY <1>3, <1>4, <1>5, <1>6, <1>7 DEF IInv

LEMMA AtRestKept ==
    ASSUME IInv, UNCHANGED vars
    PROVE  IInv'
<1>1. UNCHANGED <<core0, req, code, ctrl2_ok, data, dma, list1, list2, pong, ping_at,
                  sniffed, fifo, sm, osr, pins, drive, irq, sniffing, core1, oe, got,
                  late>>
    BY DEF vars, c0, dmav, pio
<1>2. /\ Answer' = Answer /\ DummyAt' = DummyAt /\ DataAt' = DataAt /\ CrcAt' = CrcAt
      /\ Intact' = Intact /\ End' = End /\ InOsr' = InOsr
    BY <1>1, StreamKept DEF End, Intact, InOsr
<1>3. TypeOK' /\ QuietInv' /\ PreparedInv' /\ CoresInv'
    BY <1>1 DEF IInv, TypeOK, QuietInv, PreparedInv, CoresInv, AtRest, DataReady
<1>4. BusyInv' /\ ReadsAnswer' /\ LateInv'
    BY <1>1, <1>2 DEF IInv, BusyInv, ReadsAnswer, IsSlow, LateInv, StatusComesSoon
<1>5. OverInv'
    BY <1>1, <1>2 DEF IInv, OverInv, AtRest, ReadUpTo, ReadTo, Byte
<1>6. AnswerInv'
    <2>1. ASSUME Going
          PROVE  Answering'
        <3>1. ~sniffing /\ req \in Requests /\ Answering
            BY <2>1 DEF IInv, CoresInv, AnswerInv, Going
        <3>2. PICK e \in 1..(DummyAt + 1) :
                /\ Plan(e) /\ Pipe(e)
                /\ Shown(Next1(e)) /\ EndSeen(Next1(e)) /\ Soon(Next1(e))
            BY <3>1 DEF Answering
        <3>3. EndSeen(Next1(e))'
            BY <1>1, <1>2, <3>2 DEF EndSeen, Next1
        <3> QED BY <1>1, <3>1, <3>2, <3>3, HandlerKeeps DEF c0, dmav
    <2> QED BY <1>1, <2>1 DEF AnswerInv, Going
<1> QED BY <1>3, <1>4, <1>5, <1>6 DEF IInv

LEMMA StepKept ==
    ASSUME IInv, [Next]_vars
    PROVE  IInv'
<1>1. CASE \E r \in Requests : Start(r)
    BY <1>1, StartStep
<1>2. CASE Core0
    BY <1>2, LoadStep, StartBusyStep, StartSmStep, ExecuteStep, StopBusyListStep,
       StopBusyChainStep DEF Core0
<1>3. CASE Dma
    BY <1>3, Ctrl1Step, Ctrl2Step, TransferStep, ChainStep, PongStep DEF Dma
<1>4. CASE Core1
    BY <1>4, HandlerCheckStep, HandlerStopStep, HandlerSniffStep, HandlerResetStep,
       HandlerClearStep DEF Core1
<1>5. CASE Bus
    BY <1>5, OeLowStep, OeHighStep DEF Bus
<1>6. CASE UNCHANGED vars
    BY <1>6, AtRestKept
<1> QED BY <1>1, <1>2, <1>3, <1>4, <1>5, <1>6 DEF Next

\* The bytes on their way are a gapless piece of the answer, whoever takes the
\* next step.
THEOREM Inductive == Spec => []IInv
<1>1. Init => IInv
    BY AtFirst
<1>2. IInv /\ [Next]_vars => IInv'
    BY StepKept
<1> QED BY <1>1, <1>2, PTL DEF Spec

\* The data path keeps its shape (boot_rom_data_out_init_dma), and when commands
\* can be received nothing is left over that would come first in the next answer.
THEOREM CleanBetweenAnswers == Spec => []PathInv
<1>1. IInv => PathInv
    <2> SUFFICES ASSUME IInv
                 PROVE  TypeOK /\ CleanStart
        BY DEF PathInv
    <2>1. TypeOK
        BY DEF IInv
    <2>2. ASSUME core0 = "idle", sniffing
          PROVE  fifo = <<>> /\ dma = NoDma /\ ping_at = 0 /\ sm = "off"
        <3>1. fifo = <<>> /\ dma = NoDma /\ sm = "off"
            BY <2>2 DEF IInv, QuietInv, AtRest
        <3>2. ping_at = 0
            BY <3>1 DEF IInv, BusyInv, NoDma
        <3> QED BY <3>1, <3>2
    <2> QED BY <2>1, <2>2 DEF CleanStart
<1> QED BY <1>1, Inductive, PTL

\* What the console has read is the beginning of the answer it asked for, or of
\* a BUSY word in front of it (boot_rom_data_out_start, boot_rom.pio).
THEOREM ConsoleReadsAnswer == Spec => []ReadsAnswer
<1>1. IInv => ReadsAnswer
    BY DEF IInv
<1> QED BY <1>1, Inductive, PTL

\* After boot_rom_data_out_stop_busy_code at most three more BUSY words come, if
\* the FIFO and the shift register hold less than three of them.
THEOREM StatusInTime ==
    ASSUME RoomForThree
    PROVE  Spec => []StatusComesSoon
<1>1. IInv => StatusComesSoon
    BY DEF IInv, LateInv
<1> QED BY <1>1, Inductive, PTL

\* As long as CTRL2 is as boot_rom_data_out_init_dma left it, core 1 goes back to
\* sniffing when the console has the whole answer (byte_out_irq_handler).
LEMMA WholeAnswer ==
    ASSUME IInv, ctrl2_ok, [Next]_vars, ~sniffing, sniffing'
    PROVE  got = Answer
<1>1. HandlerSniff
    <2>1. sniffing' # sniffing
        OBVIOUS
    <2>2. ~UNCHANGED vars
        BY <2>1 DEF vars
    <2>3. ~\E r \in Requests : Start(r)
        BY DEF Start
    <2>4. ~Core0
        BY <2>1 DEF Core0, Load, StartBusy, StartSm, Execute, StopBusyList, StopBusyChain
    <2>5. ~Dma
        BY <2>1 DEF Dma, Ctrl1, Ctrl2, Transfer, Chain, Pong
    <2>6. ~Bus
        BY <2>1 DEF Bus, OeLow, OeHigh
    <2>7. ~HandlerCheck /\ ~HandlerStop /\ ~HandlerReset /\ ~HandlerClear
        BY <2>1 DEF HandlerCheck, HandlerStop, HandlerReset, HandlerClear
    <2> QED BY <2>2, <2>3, <2>4, <2>5, <2>6, <2>7 DEF Next, Core1
<1>2. core1 = "sniff" /\ oe = "high"
    BY <1>1 DEF HandlerSniff
<1>3. ReadUpTo(End - 2) /\ req \in Requests
    BY <1>2 DEF IInv, OverInv, CoresInv
<1>4. End = DummyAt + 1 /\ DummyAt \in Nat
    BY <1>3, EndFacts, StreamFacts DEF Intact, Sound
<1>5. PICK r \in Int : r = End - 2 /\ r = DummyAt - 1 /\ r < DummyAt
    BY <1>4
<1>6. ReadTo(got, r)
    BY <1>3, <1>5 DEF ReadUpTo
<1> QED BY <1>3, <1>5, <1>6, ReadIsAnswer

\* The dummy byte behind an answer is never seen and no answer is cut short, if no
\* command reconfigures CTRL2 (a write of a sector does: dma_crc32).
THEOREM StopsWhenRead ==
    ASSUME \A r \in Requests : r.kind # "write"
    PROVE  Spec => StopsAtEnd
<1> DEFINE J == IInv /\ ctrl2_ok
<1>1. Init => J
    BY AtFirst DEF Init
<1>2. J /\ [Next]_vars => J'
    <2> SUFFICES ASSUME J, [Next]_vars
                 PROVE  J'
        OBVIOUS
    <2>1. IInv'
        BY StepKept
    <2>2. CASE Execute
        <3>1. req \in Requests
            BY <2>2, Core0Context DEF Execute
        <3> QED BY <2>1, <2>2, <3>1 DEF Execute
    <2>3. CASE ~Execute
        <3>1. ctrl2_ok' = ctrl2_ok
            BY <2>3 DEF Next, Core0, Dma, Core1, Bus, Start, Load, StartBusy, StartSm,
               StopBusyList, StopBusyChain, Ctrl1, Ctrl2, Transfer, Chain, Pong, OeLow,
               OeHigh, HandlerCheck, HandlerStop, HandlerSniff, HandlerReset,
               HandlerClear, vars, c0
        <3> QED BY <2>1, <3>1
    <2> QED BY <2>2, <2>3
<1>3. J /\ [Next]_vars => [(~sniffing /\ sniffing') => (got = Answer)]_vars
    BY WholeAnswer
<1> HIDE DEF J
<1> QED BY <1>1, <1>2, <1>3, PTL DEF Spec, StopsAtEnd
=============================================================================
