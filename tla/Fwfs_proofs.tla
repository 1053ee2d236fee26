----------------------------- MODULE Fwfs_proofs -----------------------------
(***************************************************************************)
(* Proofs about Fwfs: types, the semaphore and which handle is whose, for  *)
(* any number of threads, files and handles, any apps and any calls.       *)
(*                                                                         *)
(* The invariant has a part for each thread (where it is, and what its     *)
(* call is about), each file (whose its handle is, what that says) and     *)
(* each handle (why it is in use).  An action is done by one thread, with  *)
(* at most one file and one handle: Frame says so, and FrameInv that only  *)
(* the parts of these are then left to prove.                              *)
(***************************************************************************)
EXTENDS Fwfs, FiniteSetTheorems, WellFoundedInduction, TLAPS

\* Min of numbers: the least member.
LEMMA NatMin ==
    ASSUME NEW S \in SUBSET Nat, S # {}
    PROVE  Min(S) \in S /\ \A y \in S : Min(S) <= y
<1> DEFINE R == {ss \in Nat \X Nat : ss[1] < ss[2]}
<1>1. IsWellFoundedOn(R, Nat)
    BY NatLessThanWellFounded DEF OpToRel
<1>2. PICK x \in S : \A y \in S : ~ (<<y, x>> \in R)
    <2> HIDE DEF R
    <2> QED BY <1>1, WFMin
<1>3. ASSUME NEW y \in S
      PROVE  x <= y
    <2>1. x \in Nat /\ y \in Nat /\ ~ (<<y, x>> \in R)
        BY <1>2
    <2>2. ~ (y < x)
        BY <2>1
    <2> QED BY <2>1, <2>2
<1> QED BY <1>3 DEF Min

\* Min of two numbers: the lesser one.
LEMMA IntMin2 ==
    ASSUME NEW a \in Int, NEW b \in Int
    PROVE  Min({a, b}) = IF a <= b THEN a ELSE b
<1>1. CASE a <= b
    <2>1. \A x \in {a, b} : (\A y \in {a, b} : x <= y) <=> x = a
        BY <1>1
    <2> QED BY <2>1, <1>1 DEF Min
<1>2. CASE ~(a <= b)
    <2>1. \A x \in {a, b} : (\A y \in {a, b} : x <= y) <=> x = b
        BY <1>2
    <2> QED BY <2>1, <1>2 DEF Min
<1> QED BY <1>1, <1>2
-----------------------------------------------------------------------------
(***************************************************************************)
(* The inductive invariant                                                 *)
(***************************************************************************)
Places == Inside \cup {"idle", "lock", "tell"}
Handle == [mode : {"", "a", "d", "x"}, idx : Nat, size : Nat, offset : Nat]
Descriptor == [by : Threads \cup {"none"}, privdata : Handles \cup {NULL}]

TypeInv ==
    /\ fd_handle \in [Handles -> Handle]
    /\ fwfs_sema \in Threads \cup {"free"}
    /\ iob \in [Files -> Descriptor]
    /\ pc \in [Threads -> Places]
    /\ DOMAIN call = Threads
    /\ fd \in [Threads -> Handles \cup {NULL}]
    /\ damage \in 0..MaxDamage

\* Only the thread that has the semaphore is inside.
SemaInv == \A t \in Threads : fwfs_sema = t <=> pc[t] \in Inside

\* Each thread is where its call has led it.
CallInv(t) ==
    /\ pc[t] = "idle" => "answer" \in DOMAIN call[t]
    /\ pc[t] # "idle" => call[t] \in Calls
    /\ pc[t] \in {"open", "load"} => call[t].op = "open"
    /\ pc[t] \in {"close", "read", "seek", "stat"} => call[t].op = pc[t]
    /\ pc[t] = "tell" => call[t].op = "seek"

\* A call other than open is about a file of the thread, and that file's handle;
\* a seek stays out of the header.
UseInv(t) ==
    (pc[t] # "idle" /\ call[t].op \in {"close", "read", "seek"}) =>
        LET f == call[t].file
            h == iob[f].privdata
        IN  /\ iob[f].by = t
            /\ h # NULL
            /\ pc[t] # "lock" => fd[t] = h
            /\ call[t].op = "seek" => fd_handle[h].mode = "d"
            /\ pc[t] \in {"lock", "seek"} /\ call[t].op = "seek" =>
                  SeekTarget(f, [whence |-> call[t].name, n |-> call[t].n]) \notin -8..-1

\* An open has a descriptor without a handle, and prepares a free handle.
OpenInv(t) ==
    (pc[t] # "idle" /\ call[t].op = "open") =>
        /\ iob[call[t].file] = [by |-> t, privdata |-> NULL]
        /\ pc[t] = "load" =>
              /\ fd[t] \in Handles
              /\ H(t).size = 0
              /\ <<H(t).mode, H(t).idx>> = call[t].name

\* What the handle of an open file says.
Good(h) ==
    /\ h.mode \in {"a", "d"}
    /\ h.idx \in DOMAIN AppSize
    /\ h.size = (IF h.mode = "a" THEN MODCHIP_APPS_ATTR_SIZE ELSE AppSize[h.idx])
    /\ h.offset >= (IF h.mode = "a" THEN MODCHIP_APPS_ATTR_OFFSET
                                    ELSE MODCHIP_APPS_DATA_OFFSET)
    /\ h.offset <= h.size + MODCHIP_APPS_DATA_OFFSET

\* A descriptor is free, or being opened, or has a handle of its own.
FileInv(f) ==
    /\ iob[f].by = "none" => iob[f].privdata = NULL
    /\ iob[f].by # "none" /\ iob[f].privdata = NULL =>
          LET t == iob[f].by
          IN  pc[t] # "idle" /\ call[t].op = "open" /\ call[t].file = f
    /\ iob[f].privdata # NULL =>
          /\ Good(fd_handle[iob[f].privdata])
          /\ \A g \in Files \ {f} : iob[g].privdata # iob[f].privdata

\* A handle in use has a file, or was lost to a damaged answer.
HandleInv(h) ==
    fd_handle[h].size # 0 =>
        \/ \E f \in Files : iob[f].privdata = h
        \/ fd_handle[h].size = Junk /\ damage > 0

Inv ==
    /\ TypeInv
    /\ SemaInv
    /\ \A t \in Threads : CallInv(t) /\ UseInv(t) /\ OpenInv(t)
    /\ \A f \in Files : FileInv(f)
    /\ \A h \in Handles : HandleInv(h)
    /\ HandlesGivenBack

-----------------------------------------------------------------------------
(***************************************************************************)
(* Lemmas about calls and handles                                          *)
(***************************************************************************)
\* What a call has.
LEMMA CallTypes ==
    ASSUME NEW c \in Calls
    PROVE  /\ c.op \in {"open", "close", "read", "seek", "stat"}
           /\ "op" \in DOMAIN c
           /\ c.op # "stat" => c.file \in Files
           /\ c.op \in {"open", "stat"} => c.name \in Names
           /\ c.op = "read" => c.n \in Nat
           /\ c.op = "seek" => c.n \in Int /\ c.name \in {"SET", "CUR", "END"}
<1>1. CASE c \in [op : {"open"}, file : Files, name : Names]
    BY <1>1
<1>2. CASE c \in [op : {"close"}, file : Files]
    BY <1>2
<1>3. CASE c \in [op : {"read"}, file : Files, n : ReadSizes]
    BY <1>3, FwfsAssumption DEF FwfsAssumption
<1>4. ASSUME NEW f \in Files, NEW s \in Seeks,
             c = [op |-> "seek", file |-> f, name |-> s.whence, n |-> s.n]
      PROVE  c.op = "seek" /\ "op" \in DOMAIN c /\ c.file \in Files
             /\ c.n \in Int /\ c.name \in {"SET", "CUR", "END"}
    BY <1>4, FwfsAssumption
<1>5. CASE c \in [op : {"stat"}, name : Names]
    BY <1>5
<1> QED BY <1>1, <1>2, <1>3, <1>4, <1>5 DEF Calls

\* find_free_file_handle finds a handle that is not in use, if there is one.
LEMMA FreeHandle ==
    ASSUME TypeInv
    PROVE  /\ find_free_file_handle \in Handles \cup {NULL}
           /\ find_free_file_handle # NULL =>
                 fd_handle[find_free_file_handle].size = 0
           /\ find_free_file_handle = NULL =>
                 \A h \in Handles : fd_handle[h].size # 0
<1> DEFINE free == {h \in Handles : fd_handle[h].size = 0}
<1>1. find_free_file_handle = IF free = {} THEN NULL ELSE Min(free)
    BY DEF find_free_file_handle
<1>2. free \in SUBSET Nat /\ NULL \notin Handles
    BY FwfsAssumption DEF Handles, NULL
<1>3. free # {} => Min(free) \in free
    <2> HIDE DEF free
    <2> QED BY <1>2, NatMin
<1> QED BY <1>1, <1>2, <1>3

\* get_file_handle_by_idx finds a handle that is in use for this app.
LEMMA HandleByIdx ==
    ASSUME TypeInv, NEW idx
    PROVE  LET h == get_file_handle_by_idx(idx)
           IN  h # NULL =>
                  h \in Handles /\ fd_handle[h].size # 0 /\ fd_handle[h].idx = idx
<1> DEFINE found == {h \in Handles : fd_handle[h].size # 0 /\ fd_handle[h].idx = idx}
<1>1. get_file_handle_by_idx(idx) = IF found = {} THEN NULL ELSE Min(found)
    BY DEF get_file_handle_by_idx
<1>2. found \in SUBSET Nat
    BY FwfsAssumption DEF Handles
<1>3. found # {} => Min(found) \in found
    <2> HIDE DEF found
    <2> QED BY <1>2, NatMin
<1> QED BY <1>1, <1>3

LEMMA HandlesFinite == IsFiniteSet(Handles) /\ Cardinality(Handles) = MaxFiles
BY FS_Interval, FwfsAssumption DEF Handles, FwfsAssumption

\* Handles that are lost grow by one at most, for one damaged answer.
LEMMA LostShrinks ==
    ASSUME TypeInv, HandlesGivenBack, Lost' \subseteq Lost, damage' \in {damage, damage + 1}
    PROVE  HandlesGivenBack'
<1>1. IsFiniteSet(Lost)
    BY HandlesFinite, FS_Subset DEF Lost
<1>2. Cardinality(Lost') <= Cardinality(Lost)
    BY <1>1, FS_Subset
<1>3. Cardinality(Lost) \in Nat /\ Cardinality(Lost') \in Nat /\ damage \in Nat
    BY <1>1, FS_Subset, FS_CardinalityType, FwfsAssumption DEF TypeInv
<1> QED BY <1>2, <1>3 DEF HandlesGivenBack

LEMMA LostGrows ==
    ASSUME TypeInv, HandlesGivenBack, NEW h, Lost' \subseteq Lost \cup {h},
           damage' = damage + 1
    PROVE  HandlesGivenBack'
<1>1. IsFiniteSet(Lost)
    BY HandlesFinite, FS_Subset DEF Lost
<1>2. /\ IsFiniteSet(Lost \cup {h})
      /\ Cardinality(Lost \cup {h}) = IF h \in Lost THEN Cardinality(Lost)
                                      ELSE Cardinality(Lost) + 1
    BY <1>1, FS_AddElement
<1>3. Cardinality(Lost') <= Cardinality(Lost \cup {h}) /\ IsFiniteSet(Lost')
    BY <1>2, FS_Subset
<1>4. Cardinality(Lost) \in Nat /\ Cardinality(Lost') \in Nat /\ damage \in Nat
    BY <1>1, <1>3, FS_CardinalityType, FwfsAssumption DEF TypeInv
<1> QED BY <1>2, <1>3, <1>4 DEF HandlesGivenBack

\* A thread t that changes no more than its own files F and the handles K, which
\* no other file has, leaves everything else in order.
Frame(t, F, K) ==
    /\ F \subseteq Files /\ K \subseteq Handles
    /\ \A f \in F : iob[f].by \in {t, "none"}
    /\ \A f \in Files \ F : iob'[f] = iob[f] /\ iob[f].privdata \notin K
    /\ \A f \in Files \ F : iob[f].by = t =>
          \/ iob[f].privdata # NULL
          \/ call'[t] = call[t] /\ pc'[t] # "idle"
    /\ \A f \in F : /\ iob'[f].privdata \in K \cup {NULL, iob[f].privdata}
                    /\ iob'[f].privdata # iob[f].privdata =>
                          iob[f].privdata \in K \cup {NULL}
    /\ \A h \in Handles \ K : fd_handle'[h] = fd_handle[h]
    /\ \A u \in Threads \ {t} :
          pc'[u] = pc[u] /\ call'[u] = call[u] /\ fd'[u] = fd[u]
    /\ \A u \in Threads \ {t} : pc[u] = "load" => K = {}
    /\ damage' \in {damage, damage + 1}

LEMMA FrameThreads ==
    ASSUME Inv, NEW t \in Threads, NEW F, NEW K, Frame(t, F, K),
           NEW u \in Threads \ {t}
    PROVE  CallInv(u)' /\ UseInv(u)' /\ OpenInv(u)'
<1>1. CallInv(u)'
    BY DEF Inv, Frame, CallInv
<1>2. UseInv(u)'
    <2> SUFFICES ASSUME pc[u] # "idle", call[u].op \in {"close", "read", "seek"}
                 PROVE  UseInv(u)'
        BY DEF Frame, UseInv
    <2> DEFINE f == call[u].file
    <2>1. f \in Files /\ iob[f].by = u /\ iob[f].privdata # NULL
        BY CallTypes DEF Inv, CallInv, UseInv
    <2>2. f \notin F
        BY <2>1, FwfsAssumption DEF Frame, FwfsAssumption
    <2>3. iob'[f] = iob[f] /\ iob[f].privdata \in Handles \ K
        BY <2>1, <2>2 DEF Frame, Inv, TypeInv, Descriptor
    <2>4. fd_handle'[iob[f].privdata] = fd_handle[iob[f].privdata]
        BY <2>3 DEF Frame
    <2> HIDE DEF f
    <2>5. /\ pc'[u] = pc[u] /\ call'[u] = call[u] /\ fd'[u] = fd[u]
          /\ UseInv(u)
        BY DEF Frame, Inv
    <2> QED BY <2>3, <2>4, <2>5 DEF UseInv, SeekTarget, f
<1>3. OpenInv(u)'
    <2> SUFFICES ASSUME pc[u] # "idle", call[u].op = "open"
                 PROVE  OpenInv(u)'
        BY DEF Frame, OpenInv
    <2>1. call[u].file \in Files /\ iob[call[u].file].by = u
        <3>1. call[u] \in Calls /\ iob[call[u].file] = [by |-> u, privdata |-> NULL]
            BY DEF Inv, CallInv, OpenInv
        <3> QED BY <3>1, CallTypes
    <2>2. iob'[call[u].file] = iob[call[u].file]
        BY <2>1, FwfsAssumption DEF Frame, FwfsAssumption
    <2>3. pc[u] = "load" => fd_handle'[fd[u]] = fd_handle[fd[u]]
        BY DEF Frame, Inv, OpenInv
    <2> QED BY <2>2, <2>3 DEF Frame, Inv, OpenInv, H
<1> QED BY <1>1, <1>2, <1>3

LEMMA FrameFiles ==
    ASSUME Inv, NEW t \in Threads, NEW F, NEW K, Frame(t, F, K),
           NEW f \in Files \ F
    PROVE  FileInv(f)'
<1>1. iob'[f] = iob[f] /\ FileInv(f)
    BY DEF Frame, Inv
<1>2. ASSUME iob[f].by # "none", iob[f].privdata = NULL
      PROVE  LET u == iob[f].by
             IN  pc'[u] # "idle" /\ call'[u].op = "open" /\ call'[u].file = f
    <2>1. iob[f].by \in Threads
        BY <1>2 DEF Inv, TypeInv, Descriptor
    <2> QED BY <1>1, <1>2, <2>1 DEF Frame, FileInv
<1>3. ASSUME iob[f].privdata # NULL
      PROVE  /\ Good(fd_handle'[iob[f].privdata])
             /\ \A g \in Files \ {f} : iob'[g].privdata # iob[f].privdata
    <2>1. iob[f].privdata \in Handles \ K
        BY <1>3 DEF Frame, Inv, TypeInv, Descriptor
    <2>2. fd_handle'[iob[f].privdata] = fd_handle[iob[f].privdata]
        BY <2>1 DEF Frame
    <2>3. \A g \in Files \ {f} : iob'[g].privdata # iob[f].privdata
        BY <1>1, <1>3, <2>1 DEF Frame, FileInv
    <2> QED BY <1>1, <1>3, <2>2, <2>3 DEF FileInv
<1> QED BY <1>1, <1>2, <1>3 DEF FileInv, Good

LEMMA FrameHandles ==
    ASSUME Inv, NEW t \in Threads, NEW F, NEW K, Frame(t, F, K),
           NEW h \in Handles \ K
    PROVE  HandleInv(h)' /\ (h \in Lost' => h \in Lost)
<1>1. fd_handle'[h] = fd_handle[h] /\ NULL \notin Handles
    BY DEF Frame, Handles, NULL
<1>2. ASSUME NEW f \in Files, iob[f].privdata = h
      PROVE  iob'[f].privdata = h
    BY <1>1, <1>2 DEF Frame
<1>3. damage > 0 => damage' > 0
    BY FwfsAssumption DEF Frame, Inv, TypeInv
<1>4. HandleInv(h)
    BY DEF Inv
<1> QED BY <1>1, <1>2, <1>3, <1>4 DEF HandleInv, Lost

\* A thread that is not opening a file has a handle for each of its files, and
\* one that uses a file has its handle to itself.
LEMMA NotOpening ==
    ASSUME Inv, NEW t \in Threads, call[t].op # "open", pc[t] # "idle",
           NEW f \in Files, iob[f].by = t
    PROVE  iob[f].privdata # NULL
<1>1. t # "none"
    BY FwfsAssumption
<1> QED BY <1>1 DEF Inv, FileInv

LEMMA Using ==
    ASSUME Inv, NEW t \in Threads, pc[t] \in {"close", "read", "seek", "tell"}
    PROVE  /\ call[t] \in Calls
           /\ call[t].op = (IF pc[t] = "tell" THEN "seek" ELSE pc[t])
           /\ call[t].file \in Files
           /\ iob[call[t].file].by = t
           /\ iob[call[t].file].privdata = fd[t]
           /\ fd[t] \in Handles
           /\ fd_handle[fd[t]] \in Handle
           /\ Good(fd_handle[fd[t]])
           /\ \A g \in Files \ {call[t].file} : iob[g].privdata # fd[t]
<1>1. /\ call[t] \in Calls
      /\ call[t].op = (IF pc[t] = "tell" THEN "seek" ELSE pc[t])
    BY DEF Inv, CallInv
<1>2. call[t].file \in Files
    BY <1>1, CallTypes
<1>3. /\ iob[call[t].file].by = t
      /\ iob[call[t].file].privdata = fd[t]
      /\ fd[t] # NULL
    BY <1>1 DEF Inv, UseInv
<1>4. fd[t] \in Handles /\ fd_handle[fd[t]] \in Handle
    BY <1>3 DEF Inv, TypeInv
<1>5. FileInv(call[t].file)
    BY <1>2 DEF Inv
<1> QED BY <1>1, <1>2, <1>3, <1>4, <1>5 DEF FileInv

\* What the other callers see stays as it is.
Rest(t, F) ==
    /\ \A f \in Files \ F : FileSeen(f)' = FileSeen(f)
    /\ \A u \in Threads \ {t} : CallSeen(u)' = CallSeen(u)

LEMMA FrameSeen ==
    ASSUME Inv, NEW t \in Threads, NEW F, NEW K, Frame(t, F, K)
    PROVE  Rest(t, F)
<1>1. ASSUME NEW f \in Files \ F
      PROVE  FileSeen(f)' = FileSeen(f)
    <2>1. iob'[f] = iob[f]
        BY DEF Frame
    <2>2. ASSUME iob[f].privdata # NULL
          PROVE  fd_handle'[iob[f].privdata] = fd_handle[iob[f].privdata]
        <3>1. iob[f].privdata \in Handles \ K
            BY <2>2 DEF Frame, Inv, TypeInv, Descriptor
        <3> QED BY <3>1 DEF Frame
    <2> QED BY <2>1, <2>2 DEF FileSeen, Position
<1>2. ASSUME NEW u \in Threads \ {t}
      PROVE  CallSeen(u)' = CallSeen(u)
    <2>1. pc'[u] = pc[u] /\ call'[u] = call[u] /\ fd'[u] = fd[u]
        BY DEF Frame
    <2>2. ASSUME pc[u] = "tell"
          PROVE  fd_handle'[fd[u]] = fd_handle[fd[u]]
        <3>1. /\ call[u].file \in Files /\ iob[call[u].file].by = u
              /\ iob[call[u].file].privdata = fd[u] /\ fd[u] \in Handles
            BY <2>2, Using
        <3>2. call[u].file \notin F
            BY <3>1, FwfsAssumption DEF Frame, FwfsAssumption
        <3> QED BY <3>1, <3>2 DEF Frame
    <2> QED BY <2>1, <2>2 DEF CallSeen, Position, H
<1> QED BY <1>1, <1>2 DEF Rest

\* So only the thread itself, its files and its handles are left to look at.
LEMMA FrameInv ==
    ASSUME Inv, NEW t \in Threads, NEW F, NEW K, Frame(t, F, K),
           TypeInv', SemaInv',
           CallInv(t)', UseInv(t)', OpenInv(t)',
           \A f \in F : FileInv(f)',
           \A h \in K : HandleInv(h)',
           \/ \A h \in K : h \in Lost' => h \in Lost
           \/ damage' = damage + 1 /\ \E h \in Handles : K = {h}
    PROVE  Inv' /\ Rest(t, F)
<1>1. \A u \in Threads : CallInv(u)' /\ UseInv(u)' /\ OpenInv(u)'
    BY FrameThreads
<1>2. \A f \in Files : FileInv(f)'
    BY FrameFiles
<1>3. \A h \in Handles \ K : HandleInv(h)' /\ (h \in Lost' => h \in Lost)
    BY FrameHandles
<1>4. HandlesGivenBack'
    <2>1. TypeInv /\ HandlesGivenBack /\ Lost' \subseteq Handles
          /\ damage' \in {damage, damage + 1}
        BY DEF Inv, Lost, Frame
    <2>2. CASE \A h \in K : h \in Lost' => h \in Lost
        BY <1>3, <2>1, <2>2, LostShrinks
    <2>3. ASSUME damage' = damage + 1, NEW h \in Handles, K = {h}
          PROVE  HandlesGivenBack'
        <3>1. Lost' \subseteq Lost \cup {h}
            BY <1>3, <2>1, <2>3
        <3> QED BY <2>1, <2>3, <3>1, LostGrows
    <2> QED BY <2>2, <2>3
<1> QED BY <1>1, <1>2, <1>3, <1>4, FrameSeen DEF Inv

\* The semaphore keeps the others out.
LEMMA Alone ==
    ASSUME Inv, NEW t \in Threads, pc[t] \in Inside, NEW u \in Threads \ {t}
    PROVE  pc[u] \notin Inside
BY DEF Inv, SemaInv

\* What returning does to a thread, on every path.
LEMMA Returns ==
    ASSUME Inv, NEW t \in Threads, pc[t] \in Inside, NEW v, Return(t, v)
    PROVE  /\ fwfs_sema' \in Threads \cup {"free"}
           /\ pc' \in [Threads -> Places]
           /\ DOMAIN call' = Threads
           /\ fd' \in [Threads -> Handles \cup {NULL}]
           /\ SemaInv'
           /\ CallInv(t)' /\ UseInv(t)' /\ OpenInv(t)'
           /\ \A u \in Threads \ {t} :
                 /\ pc'[u] = pc[u] /\ call'[u] = call[u] /\ fd'[u] = fd[u]
                 /\ pc[u] # "load"
<1>1. /\ fwfs_sema' = "free"
      /\ pc' = [pc EXCEPT ![t] = "idle"]
      /\ call' = [call EXCEPT ![t] = [answer |-> v]]
      /\ fd' = [fd EXCEPT ![t] = NULL]
    BY DEF Return
<1>2. TypeInv /\ "free" \notin Threads
    BY FwfsAssumption DEF Inv, FwfsAssumption
<1>3. /\ fwfs_sema' \in Threads \cup {"free"}
      /\ pc' \in [Threads -> Places]
      /\ DOMAIN call' = Threads
      /\ fd' \in [Threads -> Handles \cup {NULL}]
    BY <1>1, <1>2 DEF TypeInv, Places
<1>4. \A u \in Threads \ {t} :
          /\ pc'[u] = pc[u] /\ call'[u] = call[u] /\ fd'[u] = fd[u]
          /\ pc[u] \notin Inside
    BY <1>1, <1>2, Alone DEF TypeInv
<1>5. pc'[t] = "idle" /\ "answer" \in DOMAIN call'[t]
    BY <1>1, <1>2 DEF TypeInv
<1>6. SemaInv'
    BY <1>1, <1>2, <1>4, <1>5 DEF SemaInv, Inside
<1>7. CallInv(t)' /\ UseInv(t)' /\ OpenInv(t)'
    BY <1>5 DEF CallInv, UseInv, OpenInv
<1> QED BY <1>3, <1>4, <1>6, <1>7 DEF Inside

-----------------------------------------------------------------------------
(***************************************************************************)
(* Every action keeps the invariant                                        *)
(***************************************************************************)
LEMMA InitInv == Init => Inv
<1> SUFFICES ASSUME Init
             PROVE  Inv
    OBVIOUS
<1>1. TypeInv
    <2>1. fd_handle \in [Handles -> Handle]
        BY DEF Init, Handle
    <2>2. iob \in [Files -> Descriptor]
        BY DEF Init, Descriptor, Unused
    <2>3. /\ pc \in [Threads -> Places]
          /\ fd \in [Threads -> Handles \cup {NULL}]
          /\ DOMAIN call = Threads
          /\ fwfs_sema = "free"
        BY DEF Init, Places
    <2>4. damage \in 0..MaxDamage
        <3>1. damage = 0
            BY DEF Init
        <3>2. MaxDamage \in Nat
            BY FwfsAssumption
        <3> QED BY <3>1, <3>2
    <2> QED BY <2>1, <2>2, <2>3, <2>4 DEF TypeInv
<1>2. SemaInv
    BY FwfsAssumption DEF Init, SemaInv, Inside
<1>3. ASSUME NEW t \in Threads
      PROVE  CallInv(t) /\ UseInv(t) /\ OpenInv(t)
    BY DEF Init, CallInv, UseInv, OpenInv, Start
<1>4. ASSUME NEW f \in Files
      PROVE  FileInv(f)
    BY DEF Init, FileInv, Unused
<1>5. ASSUME NEW h \in Handles
      PROVE  HandleInv(h)
    BY DEF Init, HandleInv
<1>6. HandlesGivenBack
    <2>1. Lost = {}
        BY DEF Init, Lost
    <2>2. Cardinality({}) = 0
        BY FS_EmptySet
    <2>3. damage = 0
        BY DEF Init
    <2> QED BY <2>1, <2>2, <2>3 DEF HandlesGivenBack
<1> QED BY <1>1, <1>2, <1>3, <1>4, <1>5, <1>6 DEF Inv

LEMMA CallKeeps ==
    ASSUME Inv, NEW t \in Threads, Call(t)
    PROVE  Inv' /\ Rest(t, {})
<1>1. PICK c \in Calls :
          /\ Calling(t, c, IF c.op = "stat" THEN NULL ELSE c.file)
          /\ call' = [call EXCEPT ![t] = c]
          /\ iob' = IF c.op = "open" THEN [iob EXCEPT ![c.file].by = t] ELSE iob
    BY DEF Call
<1>2. /\ pc[t] = "idle"
      /\ pc' = [pc EXCEPT ![t] = "lock"]
      /\ UNCHANGED <<fd_handle, fwfs_sema, fd, damage>>
      /\ TypeInv
    BY DEF Call, Inv
<1>3. pc'[t] = "lock" /\ call'[t] = c
    BY <1>1, <1>2 DEF TypeInv
<1>4. /\ c.op \in {"open", "close", "read", "seek", "stat"}
      /\ c.op # "stat" => c.file \in Files
    BY CallTypes
<1> DEFINE F == IF c.op = "open" THEN {c.file} ELSE {}
<1>5. c.op = "open" => /\ iob[c.file] = Unused
                       /\ iob'[c.file] = [by |-> t, privdata |-> NULL]
    BY <1>1, <1>2, <1>4 DEF Calling, Unused, TypeInv, Descriptor
<1>6. TypeInv'
    <2>1. iob' \in [Files -> Descriptor]
        BY <1>1, <1>2, <1>4 DEF TypeInv, Descriptor
    <2> QED BY <1>1, <1>2, <2>1 DEF TypeInv, Places
<1>7. SemaInv'
    BY <1>2 DEF Inv, SemaInv, TypeInv, Inside
<1>8. \A f \in Files : iob[f].by = t => iob[f].privdata # NULL
    BY <1>2, FwfsAssumption DEF Inv, FileInv, TypeInv, Descriptor
<1>9. CallInv(t)'
    BY <1>3 DEF CallInv
<1>10. UseInv(t)'
    <2> SUFFICES ASSUME c.op \in {"close", "read", "seek"}
                 PROVE  UseInv(t)'
        BY <1>3 DEF UseInv
    <2>1. iob' = iob /\ iob[c.file].by = t /\ c.file \in Files
        BY <1>1, <1>4 DEF Calling
    <2>2. iob[c.file].privdata # NULL
        BY <1>8, <2>1
    <2>3. c.op = "seek" =>
              /\ fd_handle[iob[c.file].privdata].mode = "d"
              /\ SeekTarget(c.file, [whence |-> c.name, n |-> c.n]) \notin -8..-1
        BY <1>1 DEF Calling
    <2> QED BY <1>2, <1>3, <2>1, <2>2, <2>3 DEF UseInv, SeekTarget
<1>11. OpenInv(t)'
    BY <1>3, <1>5 DEF OpenInv
<1>12. \A f \in F : FileInv(f)'
    BY <1>3, <1>4, <1>5, FwfsAssumption DEF FileInv
<1>13. Frame(t, F, {})
    <2>1. F \subseteq Files /\ \A f \in F : iob[f] = Unused
        BY <1>4, <1>5
    <2>2. \A f \in Files \ F : iob'[f] = iob[f]
        BY <1>1, <1>2 DEF TypeInv
    <2>3. \A f \in F : iob'[f].privdata = NULL
        BY <1>5
    <2>4. \A u \in Threads \ {t} :
              pc'[u] = pc[u] /\ call'[u] = call[u] /\ fd'[u] = fd[u]
        BY <1>1, <1>2 DEF TypeInv
    <2> HIDE DEF F
    <2> QED BY <1>2, <1>8, <2>1, <2>2, <2>3, <2>4 DEF Frame, Unused
<1>14. \A f \in F : FileSeen(f)' = FileSeen(f)
    BY <1>5 DEF FileSeen, Unused
<1> HIDE DEF F
<1>15. Inv' /\ Rest(t, F)
    BY <1>6, <1>7, <1>9, <1>10, <1>11, <1>12, <1>13, FrameInv
<1> QED BY <1>14, <1>15 DEF Rest

LEMMA LockKeeps ==
    ASSUME Inv, NEW t \in Threads, Lock(t)
    PROVE  Inv' /\ Rest(t, {})
<1> DEFINE c == call[t]
<1>1. /\ pc[t] = "lock" /\ fwfs_sema = "free"
      /\ fwfs_sema' = t
      /\ pc' = [pc EXCEPT ![t] = c.op]
      /\ fd' = [fd EXCEPT ![t] = IF c.op \in {"close", "read", "seek"}
                                 THEN iob[c.file].privdata ELSE NULL]
      /\ UNCHANGED <<fd_handle, iob, call, damage>>
      /\ TypeInv
    BY DEF Lock, Inv
<1>2. c \in Calls
    BY <1>1 DEF Inv, CallInv
<1>3. /\ c.op \in {"open", "close", "read", "seek", "stat"}
      /\ c.op # "stat" => c.file \in Files
    BY <1>2, CallTypes
<1> HIDE DEF c
<1>4. /\ pc'[t] = c.op /\ call'[t] = c
      /\ c.op \in {"close", "read", "seek"} => fd'[t] = iob[c.file].privdata
    BY <1>1 DEF TypeInv, c
<1>5. TypeInv'
    BY <1>1, <1>3 DEF TypeInv, Places, Inside, Descriptor
<1>6. SemaInv'
    BY <1>1, <1>3, FwfsAssumption DEF Inv, SemaInv, TypeInv, Inside
<1>7. CallInv(t)'
    BY <1>2, <1>3, <1>4 DEF CallInv
<1>8. UseInv(t)'
    BY <1>1, <1>3, <1>4 DEF Inv, UseInv, SeekTarget, c
<1>9. OpenInv(t)'
    BY <1>1, <1>3, <1>4 DEF Inv, OpenInv, c
<1>10. Frame(t, {}, {})
    <2>1. \A f \in Files : iob[f].by = t => iob[f].privdata # NULL \/ pc'[t] # "idle"
        BY <1>3, <1>4
    <2> QED BY <1>1, <2>1 DEF Frame, TypeInv
<1> QED BY <1>5, <1>6, <1>7, <1>8, <1>9, <1>10, FrameInv

\* The handle that an open has found has no file.
LEMMA Unowned ==
    ASSUME Inv, NEW h \in Handles, fd_handle[h].size = 0, NEW f \in Files
    PROVE  iob[f].privdata # h
<1>1. \A a \in DOMAIN AppSize : AppSize[a] # 0
    BY FwfsAssumption
<1> QED BY <1>1 DEF Inv, FileInv, Good, MODCHIP_APPS_ATTR_SIZE, Handles, NULL

LEMMA OpenFindKeeps ==
    ASSUME Inv, NEW t \in Threads, OpenFind(t)
    PROVE  Inv' /\ Rest(t, {})
<1>1. /\ pc[t] = "open" /\ find_free_file_handle # NULL
      /\ pc' = [pc EXCEPT ![t] = "load"]
      /\ UNCHANGED <<fwfs_sema, iob, call, damage>>
      /\ TypeInv
    BY DEF OpenFind, Inv
<1>2. PICK h \in Handles : h = find_free_file_handle
    BY <1>1, FreeHandle
<1>3. PICK c \in Calls : c = call[t] /\ c.op = "open"
    BY <1>1 DEF Inv, CallInv
<1>4. /\ fd_handle[h].size = 0
      /\ fd' = [fd EXCEPT ![t] = h]
      /\ fd_handle' = [fd_handle EXCEPT ![h].mode = c.name[1], ![h].idx = c.name[2]]
    BY <1>1, <1>2, <1>3, FreeHandle DEF OpenFind
<1>5. /\ c.name[1] \in {"d", "a", "x"} /\ c.name[2] \in Nat
      /\ c.name = <<c.name[1], c.name[2]>>
    BY <1>3, CallTypes, FwfsAssumption
<1>6. /\ fd_handle'[h] = [fd_handle[h] EXCEPT !.mode = c.name[1], !.idx = c.name[2]]
      /\ \A k \in Handles \ {h} : fd_handle'[k] = fd_handle[k]
      /\ DOMAIN fd_handle' = Handles
      /\ fd_handle' = [k \in Handles |-> fd_handle'[k]]
    BY <1>1, <1>4 DEF TypeInv
<1>7. /\ fd_handle'[h] \in Handle
      /\ fd_handle'[h].size = 0
      /\ <<fd_handle'[h].mode, fd_handle'[h].idx>> = c.name
    <2>1. fd_handle[h] \in Handle
        BY <1>1 DEF TypeInv
    <2> QED BY <1>4, <1>5, <1>6, <2>1 DEF Handle
<1>8. pc'[t] = "load" /\ fd'[t] = h /\ call'[t] = c
    BY <1>1, <1>3, <1>4 DEF TypeInv
<1>9. TypeInv'
    <2>1. fd_handle' \in [Handles -> Handle]
        BY <1>1, <1>6, <1>7 DEF TypeInv
    <2> QED BY <1>1, <1>4, <2>1 DEF TypeInv, Places, Inside
<1>10. SemaInv'
    BY <1>1 DEF Inv, SemaInv, TypeInv, Inside
<1>11. CallInv(t)' /\ UseInv(t)'
    BY <1>3, <1>8 DEF CallInv, UseInv
<1>12. OpenInv(t)'
    BY <1>1, <1>3, <1>7, <1>8 DEF Inv, OpenInv, H
<1>13. Frame(t, {}, {h})
    <2>1. \A f \in Files : iob[f].privdata # h
        BY <1>4, Unowned
    <2>2. \A u \in Threads \ {t} : pc[u] # "load"
        BY <1>1, Alone DEF Inside
    <2>3. \A u \in Threads \ {t} :
              pc'[u] = pc[u] /\ call'[u] = call[u] /\ fd'[u] = fd[u]
        BY <1>1, <1>4 DEF TypeInv
    <2> QED BY <1>1, <1>6, <1>8, <2>1, <2>2, <2>3 DEF Frame
<1>14. HandleInv(h)' /\ h \notin Lost'
    BY <1>7 DEF HandleInv, Lost
<1> QED BY <1>9, <1>10, <1>11, <1>12, <1>13, <1>14, FrameInv

\* An open that fails gives its descriptor back, and may lose its handle.
LEMMA FailOpenKeeps ==
    ASSUME Inv, NEW t \in Threads, pc[t] \in {"open", "load"}, NEW e, FailOpen(t, e),
           NEW K \in SUBSET Handles,
           \A f \in Files : iob[f].privdata \notin K,
           fd_handle' \in [Handles -> Handle],
           \A h \in Handles \ K : fd_handle'[h] = fd_handle[h],
           damage' \in {damage, damage + 1}, damage' \in 0..MaxDamage,
           \A h \in K : HandleInv(h)',
           \/ K = {}
           \/ damage' = damage + 1 /\ \E h \in Handles : K = {h}
    PROVE  Inv' /\ Rest(t, {})
<1>2. call[t] \in Calls /\ call[t].op = "open"
    BY DEF Inv, CallInv
<1>3. PICK f \in Files : f = call[t].file /\ iob[f] = [by |-> t, privdata |-> NULL]
    BY <1>2, CallTypes DEF Inv, OpenInv
<1>1. /\ Return(t, Failed(e)) /\ pc[t] \in Inside
      /\ iob' = [iob EXCEPT ![f] = Unused]
      /\ TypeInv
    BY <1>3 DEF FailOpen, Inside, Inv
<1>4. \A g \in Files : iob[g].by = t /\ iob[g].privdata = NULL => g = f
    <2>1. t # "none"
        BY FwfsAssumption
    <2> QED BY <1>3, <2>1 DEF Inv, FileInv
<1>5. iob'[f] = Unused /\ \A g \in Files \ {f} : iob'[g] = iob[g]
    BY <1>1, <1>3 DEF TypeInv
<1>6. TypeInv'
    <2>1. iob' \in [Files -> Descriptor]
        BY <1>1 DEF TypeInv, Unused, Descriptor
    <2> QED BY <1>1, <2>1, Returns DEF TypeInv
<1>7. SemaInv' /\ CallInv(t)' /\ UseInv(t)' /\ OpenInv(t)'
    BY <1>1, Returns
<1>8. FileInv(f)'
    BY <1>5 DEF FileInv, Unused
<1>9. Frame(t, {f}, K)
    <2>1. \A u \in Threads \ {t} :
             /\ pc'[u] = pc[u] /\ call'[u] = call[u] /\ fd'[u] = fd[u]
             /\ pc[u] # "load"
        BY <1>1, Returns
    <2> QED BY <1>3, <1>4, <1>5, <2>1 DEF Frame, Unused
<1>10. Inv' /\ Rest(t, {f})
    BY <1>6, <1>7, <1>8, <1>9, FrameInv
<1>11. FileSeen(f)' = FileSeen(f)
    BY <1>3, <1>5 DEF FileSeen, Unused
<1> QED BY <1>10, <1>11 DEF Rest

LEMMA OpenNoneKeeps ==
    ASSUME Inv, NEW t \in Threads, OpenNone(t)
    PROVE  Inv' /\ Rest(t, {})
<1>1. /\ pc[t] = "open"
      /\ FailOpen(t, "EMFILE")
      /\ UNCHANGED <<fd_handle, damage>>
      /\ TypeInv
    BY DEF OpenNone, Inv
<1>2. fd_handle' \in [Handles -> Handle] /\ damage' \in 0..MaxDamage
    BY <1>1 DEF TypeInv
<1> QED
    <2> DEFINE K == {}
    <2>1. K \in SUBSET Handles /\ \A f \in Files : iob[f].privdata \notin K
        OBVIOUS
    <2>2. \A h \in K : HandleInv(h)'
        OBVIOUS
    <2>3. K = {} /\ \A h \in Handles \ K : fd_handle'[h] = fd_handle[h]
        BY <1>1
    <2> HIDE DEF K
    <2> QED BY <1>1, <1>2, <2>1, <2>2, <2>3, FailOpenKeeps

LEMMA OpenLoadFailsKeeps ==
    ASSUME Inv, NEW t \in Threads, OpenLoadFails(t)
    PROVE  Inv' /\ Rest(t, {})
<1>1. PICK e : FailOpen(t, e)
    BY DEF OpenLoadFails
<1>2. pc[t] = "load" /\ TypeInv
    BY DEF OpenLoadFails, Inv
<1>3. MaxDamage \in Nat /\ Junk \in Nat /\ damage \in 0..MaxDamage
    BY <1>2, FwfsAssumption DEF TypeInv
<1>4. \/ UNCHANGED <<fd_handle, damage>>
      \/ /\ damage' = damage + 1 /\ damage' \in 0..MaxDamage
         /\ \/ fd_handle' = [fd_handle EXCEPT ![fd[t]].size = Junk]
            \/ fd_handle' = fd_handle
    BY <1>3 DEF OpenLoadFails, ModchipDamaged
<1>5. PICK k \in Handles : k = fd[t] /\ fd_handle[k].size = 0
    <2>1. call[t].op = "open" /\ OpenInv(t)
        BY <1>2 DEF Inv, CallInv
    <2> QED BY <1>2, <2>1 DEF OpenInv, H
<1>6. \A f \in Files : iob[f].privdata # k
    BY <1>5, Unowned
<1>7. CASE fd_handle' = fd_handle
    <2> DEFINE K == {}
    <2>1. K \in SUBSET Handles /\ \A f \in Files : iob[f].privdata \notin K
        OBVIOUS
    <2>2. \A h \in K : HandleInv(h)'
        OBVIOUS
    <2>3. K = {} /\ \A h \in Handles \ K : fd_handle'[h] = fd_handle[h]
        BY <1>7
    <2>4. /\ fd_handle' \in [Handles -> Handle]
          /\ damage' \in {damage, damage + 1} /\ damage' \in 0..MaxDamage
        BY <1>2, <1>3, <1>4, <1>7 DEF TypeInv
    <2> HIDE DEF K
    <2> QED BY <1>1, <1>2, <2>1, <2>2, <2>3, <2>4, FailOpenKeeps
<1>8. CASE /\ fd_handle' = [fd_handle EXCEPT ![k].size = Junk]
           /\ damage' = damage + 1 /\ damage' \in 0..MaxDamage
    <2>1. fd_handle' \in [Handles -> Handle]
        BY <1>2, <1>3, <1>8 DEF TypeInv, Handle
    <2>2. \A h \in Handles \ {k} : fd_handle'[h] = fd_handle[h]
        BY <1>2, <1>8 DEF TypeInv
    <2>3. HandleInv(k)'
        <3>1. fd_handle'[k].size = Junk
            BY <1>2, <1>8 DEF TypeInv, Handle
        <3>2. damage' > 0
            BY <1>3, <1>8
        <3> QED BY <3>1, <3>2 DEF HandleInv
    <2> DEFINE K == {k}
    <2>4. /\ K \in SUBSET Handles /\ \A f \in Files : iob[f].privdata \notin K
          /\ \A h \in Handles \ K : fd_handle'[h] = fd_handle[h]
          /\ \A h \in K : HandleInv(h)'
          /\ \E h \in Handles : K = {h}
        BY <1>6, <2>2, <2>3
    <2> HIDE DEF K
    <2> QED BY <1>1, <1>2, <1>8, <2>1, <2>4, FailOpenKeeps
<1> QED BY <1>4, <1>5, <1>7, <1>8

LEMMA OpenLoadKeeps ==
    ASSUME Inv, NEW t \in Threads, OpenLoad(t)
    PROVE  Inv' /\ \E f \in Files : f = call[t].file /\ Rest(t, {f})
<1>1. PICK f \in Files : f = call[t].file /\ iob[f] = [by |-> t, privdata |-> NULL]
    <2>1. pc[t] = "load" /\ call[t] \in Calls /\ call[t].op = "open"
        BY DEF OpenLoad, Inv, CallInv
    <2> QED BY <2>1, CallTypes DEF Inv, OpenInv
<1>2. PICK k \in Handles : k = fd[t] /\ fd_handle[k].size = 0
    <2>1. pc[t] = "load" /\ call[t].op = "open" /\ OpenInv(t)
        BY DEF OpenLoad, Inv, CallInv
    <2> QED BY <2>1 DEF OpenInv, H
<1> DEFINE m == fd_handle[k].mode
           a == fd_handle[k].idx
<1>3. /\ Return(t, Done(0)) /\ pc[t] \in Inside
      /\ m \in {"d", "a"} /\ a \in DOMAIN AppSize
      /\ fd_handle' = IF m = "d"
            THEN [fd_handle EXCEPT ![k].size = AppSize[a],
                                   ![k].offset = MODCHIP_APPS_DATA_OFFSET]
            ELSE [fd_handle EXCEPT ![k].size = MODCHIP_APPS_ATTR_SIZE,
                                   ![k].offset = MODCHIP_APPS_ATTR_OFFSET]
      /\ iob' = [iob EXCEPT ![f].privdata = k]
      /\ damage' = damage
      /\ TypeInv
    BY <1>1, <1>2 DEF OpenLoad, ModchipReads, H, Inside, Inv
<1>4. AppSize[a] \in Nat \ {0}
    BY <1>3, FwfsAssumption
<1>5. /\ \A g \in Files \ {f} : iob'[g] = iob[g]
      /\ iob'[f] = [by |-> t, privdata |-> k]
      /\ iob' \in [Files -> Descriptor]
    BY <1>1, <1>3 DEF TypeInv, Descriptor
<1>6. /\ \A h \in Handles \ {k} : fd_handle'[h] = fd_handle[h]
      /\ Good(fd_handle'[k])
      /\ fd_handle' \in [Handles -> Handle]
    <2>1. PICK size \in Nat, offset \in Nat :
             /\ fd_handle' = [fd_handle EXCEPT ![k].size = size, ![k].offset = offset]
             /\ size = (IF m = "a" THEN MODCHIP_APPS_ATTR_SIZE ELSE AppSize[a])
             /\ offset = (IF m = "a" THEN MODCHIP_APPS_ATTR_OFFSET
                                     ELSE MODCHIP_APPS_DATA_OFFSET)
        <3> HIDE DEF m, a
        <3> QED BY <1>3, <1>4 DEF MODCHIP_APPS_DATA_OFFSET,
                   MODCHIP_APPS_ATTR_OFFSET, MODCHIP_APPS_ATTR_SIZE
    <2>2. fd_handle[k] \in Handle
        BY <1>3 DEF TypeInv
    <2>3. /\ \A h \in Handles \ {k} : fd_handle'[h] = fd_handle[h]
          /\ fd_handle'[k] = [fd_handle[k] EXCEPT !.size = size, !.offset = offset]
          /\ fd_handle' = [h \in Handles |-> fd_handle'[h]]
        BY <1>3, <2>1 DEF TypeInv
    <2>4. /\ fd_handle'[k].mode = m /\ fd_handle'[k].idx = a
          /\ fd_handle'[k].size = size /\ fd_handle'[k].offset = offset
          /\ fd_handle'[k] \in Handle
        BY <2>2, <2>3 DEF Handle
    <2>5. Good(fd_handle'[k])
        <3> HIDE DEF m, a
        <3> QED BY <1>3, <1>4, <2>1, <2>4 DEF Good, MODCHIP_APPS_DATA_OFFSET,
                   MODCHIP_APPS_ATTR_OFFSET, MODCHIP_APPS_ATTR_SIZE
    <2> QED BY <1>3, <2>3, <2>4, <2>5 DEF TypeInv
<1> HIDE DEF m, a
<1>7. \A g \in Files : iob[g].privdata # k
    BY <1>2, Unowned
<1>8. TypeInv'
    BY <1>3, <1>5, <1>6, Returns DEF TypeInv
<1>9. SemaInv' /\ CallInv(t)' /\ UseInv(t)' /\ OpenInv(t)'
    BY <1>3, Returns
<1>10. FileInv(f)'
    <2>1. \A g \in Files \ {f} : iob'[g].privdata # k
        BY <1>5, <1>7
    <2>2. t # "none" /\ k # NULL
        BY FwfsAssumption DEF Handles, NULL
    <2> QED BY <1>5, <1>6, <2>1, <2>2 DEF FileInv, Good
<1>11. HandleInv(k)' /\ k \notin Lost'
    BY <1>5 DEF HandleInv, Lost
<1>12. Frame(t, {f}, {k})
    <2>1. \A u \in Threads \ {t} :
             /\ pc'[u] = pc[u] /\ call'[u] = call[u] /\ fd'[u] = fd[u]
             /\ pc[u] # "load"
        BY <1>3, Returns
    <2>2. \A g \in Files \ {f} : iob[g].by = t => iob[g].privdata # NULL
        <3>1. t # "none"
            BY FwfsAssumption
        <3> QED BY <1>1, <3>1 DEF Inv, FileInv
    <2> QED BY <1>1, <1>3, <1>5, <1>6, <1>7, <2>1, <2>2 DEF Frame
<1>13. Inv' /\ Rest(t, {f})
    BY <1>8, <1>9, <1>10, <1>11, <1>12, FrameInv
<1> QED BY <1>1, <1>13

-----------------------------------------------------------------------------
\* Calls that come back and change nothing.
LEMMA QuietKeeps ==
    ASSUME Inv, NEW t \in Threads, pc[t] \in {"read", "stat"}, NEW v, Return(t, v),
           UNCHANGED <<fd_handle, iob, damage>>
    PROVE  Inv' /\ Rest(t, {})
<1>1. pc[t] \in Inside /\ call[t].op # "open" /\ pc[t] # "idle"
    BY DEF Inside, Inv, CallInv
<1>2. TypeInv'
    BY <1>1, Returns DEF Inv, TypeInv
<1>3. SemaInv' /\ CallInv(t)' /\ UseInv(t)' /\ OpenInv(t)'
    BY <1>1, Returns
<1>4. Frame(t, {}, {})
    <2>1. \A u \in Threads \ {t} :
             /\ pc'[u] = pc[u] /\ call'[u] = call[u] /\ fd'[u] = fd[u]
        BY <1>1, Returns
    <2>2. \A g \in Files : iob[g].by = t => iob[g].privdata # NULL
        BY <1>1, NotOpening
    <2> QED BY <2>1, <2>2 DEF Frame
<1> QED BY <1>2, <1>3, <1>4, FrameInv

LEMMA ReadFailsKeeps ==
    ASSUME Inv, NEW t \in Threads, ReadFails(t)
    PROVE  Inv' /\ Rest(t, {})
BY QuietKeeps DEF ReadFails

LEMMA StatKeeps ==
    ASSUME Inv, NEW t \in Threads, Stat(t)
    PROVE  Inv' /\ Rest(t, {})
<1>1. \E v : Return(t, v)
    BY DEF Stat
<1> QED BY <1>1, QuietKeeps DEF Stat

LEMMA CloseKeeps ==
    ASSUME Inv, NEW t \in Threads, Close(t)
    PROVE  Inv' /\ \E f \in Files : f = call[t].file /\ Rest(t, {f})
<1>1. pc[t] = "close" /\ pc[t] \in Inside /\ Return(t, Done(0)) /\ TypeInv
    BY DEF Close, Inside, Inv
<1>2. PICK f \in Files : f = call[t].file
    BY <1>1, Using
<1>3. PICK k \in Handles : k = fd[t]
    BY <1>1, Using
<1>4. /\ iob[f].by = t /\ iob[f].privdata = k
      /\ \A g \in Files \ {f} : iob[g].privdata # k
      /\ call[t].op # "open"
    BY <1>1, <1>2, <1>3, Using
<1>5. /\ fd_handle' = [fd_handle EXCEPT ![k].idx = 0, ![k].size = 0, ![k].offset = 0]
      /\ iob' = [iob EXCEPT ![f] = Unused]
      /\ damage' = damage
    BY <1>2, <1>3 DEF Close
<1>6. /\ \A h \in Handles \ {k} : fd_handle'[h] = fd_handle[h]
      /\ fd_handle'[k].size = 0
      /\ fd_handle' \in [Handles -> Handle]
    BY <1>1, <1>5 DEF TypeInv, Handle
<1>7. /\ \A g \in Files \ {f} : iob'[g] = iob[g]
      /\ iob'[f] = Unused
      /\ iob' \in [Files -> Descriptor]
    BY <1>1, <1>5 DEF TypeInv, Descriptor, Unused
<1>8. TypeInv'
    BY <1>1, <1>5, <1>6, <1>7, Returns DEF TypeInv
<1>9. SemaInv' /\ CallInv(t)' /\ UseInv(t)' /\ OpenInv(t)'
    BY <1>1, Returns
<1>10. FileInv(f)'
    BY <1>7 DEF FileInv, Unused
<1>11. HandleInv(k)' /\ k \notin Lost'
    BY <1>6 DEF HandleInv, Lost
<1>12. Frame(t, {f}, {k})
    <2>1. \A u \in Threads \ {t} :
             /\ pc'[u] = pc[u] /\ call'[u] = call[u] /\ fd'[u] = fd[u]
             /\ pc[u] # "load"
        BY <1>1, Returns
    <2>2. \A g \in Files : iob[g].by = t => iob[g].privdata # NULL
        BY <1>1, <1>4, NotOpening
    <2> QED BY <1>4, <1>5, <1>6, <1>7, <2>1, <2>2 DEF Frame, Unused
<1>13. Inv' /\ Rest(t, {f})
    BY <1>8, <1>9, <1>10, <1>11, <1>12, FrameInv
<1> QED BY <1>2, <1>13

\* Reading and seeking move the position within the file.
LEMMA Moves ==
    ASSUME Inv, NEW t \in Threads, pc[t] \in {"read", "seek"},
           NEW f \in Files, f = call[t].file, NEW k \in Handles, k = fd[t],
           NEW o \in Nat,
           o >= (IF fd_handle[k].mode = "a" THEN MODCHIP_APPS_ATTR_OFFSET
                                            ELSE MODCHIP_APPS_DATA_OFFSET),
           o <= fd_handle[k].size + MODCHIP_APPS_DATA_OFFSET,
           fd_handle' = [fd_handle EXCEPT ![k].offset = o],
           UNCHANGED <<iob, damage>>,
           \A u \in Threads \ {t} :
              pc'[u] = pc[u] /\ call'[u] = call[u] /\ fd'[u] = fd[u]
    PROVE  /\ fd_handle' \in [Handles -> Handle]
           /\ FileInv(f)'
           /\ HandleInv(k)' /\ (k \in Lost' => k \in Lost)
           /\ Frame(t, {f}, {k})
           /\ fd_handle'[k].mode = fd_handle[k].mode
<1>1. /\ iob[f].by = t /\ iob[f].privdata = k
      /\ \A g \in Files \ {f} : iob[g].privdata # k
      /\ call[t].op # "open"
      /\ Good(fd_handle[k])
      /\ fd_handle[k] \in Handle
    BY Using
<1>2. /\ \A h \in Handles \ {k} : fd_handle'[h] = fd_handle[h]
      /\ fd_handle'[k] = [fd_handle[k] EXCEPT !.offset = o]
      /\ fd_handle' = [h \in Handles |-> fd_handle'[h]]
    BY DEF Inv, TypeInv
<1>3. /\ fd_handle'[k] \in Handle
      /\ fd_handle'[k].mode = fd_handle[k].mode
      /\ fd_handle'[k].idx = fd_handle[k].idx
      /\ fd_handle'[k].size = fd_handle[k].size
      /\ fd_handle'[k].offset = o
    BY <1>1, <1>2 DEF Handle
<1>4. fd_handle' \in [Handles -> Handle]
    BY <1>2, <1>3 DEF Inv, TypeInv
<1>5. FileInv(f)'
    <2>1. Good(fd_handle'[k])
        BY <1>1, <1>3 DEF Good
    <2>2. t # "none" /\ k # NULL
        BY FwfsAssumption DEF Handles, NULL
    <2> QED BY <1>1, <2>1, <2>2 DEF FileInv, Good
<1>6. HandleInv(k)' /\ k \notin Lost'
    BY <1>1 DEF HandleInv, Lost
<1>7. Frame(t, {f}, {k})
    <2>1. \A g \in Files : iob[g].by = t => iob[g].privdata # NULL
        BY <1>1, NotOpening
    <2>2. \A u \in Threads \ {t} : pc[u] # "load"
        BY Alone DEF Inside
    <2> QED BY <1>1, <1>2, <2>1, <2>2 DEF Frame
<1> QED BY <1>3, <1>4, <1>5, <1>6, <1>7

LEMMA ReadKeeps ==
    ASSUME Inv, NEW t \in Threads, Read(t)
    PROVE  Inv' /\ \E f \in Files : f = call[t].file /\ Rest(t, {f})
<1>1. pc[t] = "read" /\ pc[t] \in Inside /\ TypeInv
    BY DEF Read, Inside, Inv
<1>2. PICK f \in Files : f = call[t].file
    BY <1>1, Using
<1>3. PICK k \in Handles : k = fd[t]
    BY <1>1, Using
<1>4. PICK h \in Handle : h = fd_handle[k] /\ Good(h)
    BY <1>1, <1>3, Using
<1>5. PICK n \in Nat : n = call[t].n
    BY <1>1, Using, CallTypes
<1> DEFINE end == h.size + MODCHIP_APPS_DATA_OFFSET
           len == IF h.offset >= end THEN 0 ELSE Min({n, end - h.offset})
<1>6. /\ fd_handle' = [fd_handle EXCEPT ![k].offset = @ + len]
      /\ Return(t, Bytes(h, len))
      /\ UNCHANGED <<iob, damage>>
    BY <1>3, <1>4, <1>5 DEF Read, H
<1>7. h.offset \in Nat /\ h.size \in Nat
    BY DEF Handle
<1>8. PICK o \in Nat : /\ o = h.offset + len
                       /\ o >= h.offset
                       /\ o <= end
    <2>1. Min({n, end - h.offset}) = IF n <= end - h.offset THEN n ELSE end - h.offset
        BY <1>7, IntMin2 DEF MODCHIP_APPS_DATA_OFFSET
    <2>2. h.offset <= end
        BY <1>4 DEF Good
    <2> QED BY <1>7, <2>1, <2>2 DEF MODCHIP_APPS_DATA_OFFSET
<1> HIDE DEF len
<1>9. \A u \in Threads \ {t} :
          pc'[u] = pc[u] /\ call'[u] = call[u] /\ fd'[u] = fd[u]
    BY <1>1, <1>6, Returns
<1>10. /\ fd_handle' \in [Handles -> Handle]
       /\ FileInv(f)'
       /\ HandleInv(k)' /\ (k \in Lost' => k \in Lost)
       /\ Frame(t, {f}, {k})
    <2>1. fd_handle' = [fd_handle EXCEPT ![k].offset = o]
        BY <1>1, <1>4, <1>6, <1>8 DEF TypeInv
    <2>2. o >= (IF h.mode = "a" THEN MODCHIP_APPS_ATTR_OFFSET
                                ELSE MODCHIP_APPS_DATA_OFFSET)
        BY <1>4, <1>7, <1>8 DEF Good, MODCHIP_APPS_ATTR_OFFSET, MODCHIP_APPS_DATA_OFFSET
    <2>3. o <= h.size + MODCHIP_APPS_DATA_OFFSET
        BY <1>8
    <2> QED BY <1>1, <1>2, <1>3, <1>4, <1>6, <1>9, <2>1, <2>2, <2>3, Moves
<1>11. TypeInv'
    BY <1>1, <1>6, <1>10, Returns DEF TypeInv
<1>12. SemaInv' /\ CallInv(t)' /\ UseInv(t)' /\ OpenInv(t)'
    BY <1>1, <1>6, Returns
<1>13. Inv' /\ Rest(t, {f})
    BY <1>10, <1>11, <1>12, FrameInv
<1> QED BY <1>2, <1>13

\* A seek comes to somewhere in the file, as the user means it.
LEMMA SeekMoves ==
    ASSUME Inv, NEW t \in Threads, Seek(t), NEW f \in Files, NEW k \in Handles,
           k = fd[t], iob[f].privdata = k, fd_handle[k].mode = "d",
           fd_handle[k] \in Handle, Good(fd_handle[k]),
           call[t].n \in Int, call[t].name \in {"SET", "CUR", "END"},
           SeekTarget(f, [whence |-> call[t].name, n |-> call[t].n]) \notin -8..-1
    PROVE  LET size == fd_handle[k].size
               to == SeekTarget(f, [whence |-> call[t].name, n |-> call[t].n])
               pos == IF to < 0 THEN 0 ELSE IF to > size THEN size ELSE to
               o == pos + MODCHIP_APPS_DATA_OFFSET
           IN  /\ to \in Int
               /\ o \in Nat /\ o >= MODCHIP_APPS_DATA_OFFSET
               /\ o <= size + MODCHIP_APPS_DATA_OFFSET
               /\ fd_handle' = [fd_handle EXCEPT ![k].offset = o]
<1> DEFINE h == fd_handle[k]
           n == call[t].n
           name == call[t].name
           target == SeekTarget(f, [whence |-> name, n |-> n])
           end == h.size + 8
           to  == CASE name = "SET" -> n + 8
                    [] name = "CUR" -> h.offset + n
                    [] name = "END" -> end - n
           pos == IF to < 0 THEN 8 ELSE to
           p == IF target < 0 THEN 0 ELSE IF target > h.size THEN h.size ELSE target
<1>1. fd_handle' = [fd_handle EXCEPT ![k].offset = Min({pos, end})]
    BY DEF Seek, H, MODCHIP_APPS_DATA_OFFSET
<1>2. h.offset \in Nat /\ h.size \in Nat /\ n \in Int
    BY DEF Handle
<1>3. target = CASE name = "SET" -> n
                 [] name = "CUR" -> h.offset - 8 + n
                 [] name = "END" -> h.size - n
    BY DEF SeekTarget, MODCHIP_APPS_DATA_OFFSET
<1>4. name \in {"SET", "CUR", "END"}
    OBVIOUS
<1> HIDE DEF h, n, name, target
<1>5. target \in Int /\ to = target + 8
    BY <1>2, <1>3, <1>4
<1>6. target \notin -8..-1
    BY DEF target, name, n
<1> HIDE DEF to
<1>7. pos \in Int /\ end \in Int
    BY <1>2, <1>5
<1>8. Min({pos, end}) = IF pos <= end THEN pos ELSE end
    BY <1>7, IntMin2
<1>9. Min({pos, end}) = p + 8
    BY <1>2, <1>5, <1>6, <1>8
<1>10. p + 8 \in Nat /\ p + 8 >= 8 /\ p + 8 <= h.size + 8
    BY <1>2, <1>5
<1> HIDE DEF p
<1>11. fd_handle' = [fd_handle EXCEPT ![k].offset = p + 8]
    BY <1>1, <1>9
<1> QED BY <1>5, <1>10, <1>11 DEF p, h, target, name, n, MODCHIP_APPS_DATA_OFFSET

LEMMA SeekKeeps ==
    ASSUME Inv, NEW t \in Threads, Seek(t)
    PROVE  Inv' /\ \E f \in Files : f = call[t].file /\ Rest(t, {f})
<1>1. /\ pc[t] = "seek" /\ pc[t] \in Inside /\ TypeInv
      /\ fwfs_sema' = "free"
      /\ pc' = [pc EXCEPT ![t] = "tell"]
      /\ UNCHANGED <<iob, call, fd, damage>>
    BY DEF Seek, Inside, Inv
<1>2. PICK f \in Files : f = call[t].file
    BY <1>1, Using
<1>3. PICK k \in Handles : k = fd[t]
    BY <1>1, Using
<1>4. /\ call[t] \in Calls /\ call[t].op = "seek"
      /\ call[t].n \in Int /\ call[t].name \in {"SET", "CUR", "END"}
      /\ iob[f].by = t /\ iob[f].privdata = k
      /\ fd_handle[k] \in Handle /\ Good(fd_handle[k]) /\ fd_handle[k].mode = "d"
      /\ SeekTarget(f, [whence |-> call[t].name, n |-> call[t].n]) \notin -8..-1
    <2>1. call[t] \in Calls /\ call[t].op = "seek"
        BY <1>1, Using
    <2>2. UseInv(t)
        BY DEF Inv
    <2> QED BY <1>1, <1>2, <1>3, <2>1, <2>2, Using, CallTypes DEF UseInv
<1>5. PICK o \in Nat :
         /\ o >= MODCHIP_APPS_DATA_OFFSET
         /\ o <= fd_handle[k].size + MODCHIP_APPS_DATA_OFFSET
         /\ fd_handle' = [fd_handle EXCEPT ![k].offset = o]
    <2> DEFINE to == SeekTarget(f, [whence |-> call[t].name, n |-> call[t].n])
               size == fd_handle[k].size
               pos == IF to < 0 THEN 0 ELSE IF to > size THEN size ELSE to
               o == pos + MODCHIP_APPS_DATA_OFFSET
    <2>1. /\ o \in Nat /\ o >= MODCHIP_APPS_DATA_OFFSET
          /\ o <= size + MODCHIP_APPS_DATA_OFFSET
          /\ fd_handle' = [fd_handle EXCEPT ![k].offset = o]
        BY <1>3, <1>4, SeekMoves
    <2> HIDE DEF o
    <2> QED BY <2>1
<1>6. \A u \in Threads \ {t} :
          pc'[u] = pc[u] /\ call'[u] = call[u] /\ fd'[u] = fd[u]
    BY <1>1 DEF TypeInv
<1>7. /\ fd_handle' \in [Handles -> Handle]
      /\ FileInv(f)'
      /\ HandleInv(k)' /\ (k \in Lost' => k \in Lost)
      /\ Frame(t, {f}, {k})
      /\ fd_handle'[k].mode = fd_handle[k].mode
    BY <1>1, <1>2, <1>3, <1>4, <1>5, <1>6, Moves
<1>8. TypeInv'
    BY <1>1, <1>7 DEF TypeInv, Places
<1>9. SemaInv'
    <2>1. "free" \notin Threads
        BY FwfsAssumption
    <2> QED BY <1>1, <2>1 DEF Inv, SemaInv, TypeInv, Inside
<1>10. pc'[t] = "tell" /\ call'[t] = call[t] /\ fd'[t] = fd[t] /\ iob'[f] = iob[f]
    BY <1>1 DEF TypeInv
<1>11. CallInv(t)' /\ UseInv(t)' /\ OpenInv(t)'
    <2>1. k # NULL
        BY FwfsAssumption DEF Handles, NULL
    <2> QED BY <1>2, <1>3, <1>4, <1>7, <1>10, <2>1 DEF CallInv, UseInv, OpenInv
<1>12. Inv' /\ Rest(t, {f})
    BY <1>7, <1>8, <1>9, <1>11, FrameInv
<1> QED BY <1>2, <1>12

LEMMA TellKeeps ==
    ASSUME Inv, NEW t \in Threads, Tell(t)
    PROVE  Inv' /\ Rest(t, {})
<1>1. /\ pc[t] = "tell" /\ TypeInv
      /\ call' = [call EXCEPT ![t] =
                    [answer |-> Done(H(t).offset - MODCHIP_APPS_DATA_OFFSET)]]
      /\ fd' = [fd EXCEPT ![t] = NULL]
      /\ pc' = [pc EXCEPT ![t] = "idle"]
      /\ UNCHANGED <<fd_handle, fwfs_sema, iob, damage>>
    BY DEF Tell, Inv
<1>2. TypeInv'
    BY <1>1 DEF TypeInv, Places
<1>3. SemaInv'
    BY <1>1 DEF Inv, SemaInv, TypeInv, Inside
<1>4. pc'[t] = "idle" /\ "answer" \in DOMAIN call'[t]
    BY <1>1 DEF TypeInv
<1>5. CallInv(t)' /\ UseInv(t)' /\ OpenInv(t)'
    BY <1>4 DEF CallInv, UseInv, OpenInv
<1>6. Frame(t, {}, {})
    <2>1. \A g \in Files : iob[g].by = t => iob[g].privdata # NULL
        BY <1>1, Using, NotOpening
    <2> QED BY <1>1, <2>1 DEF Frame, TypeInv
<1> QED BY <1>2, <1>3, <1>5, <1>6, FrameInv

-----------------------------------------------------------------------------
(***************************************************************************)
(* The theorems about Fwfs                                                 *)
(***************************************************************************)
LEMMA StepKeeps ==
    ASSUME Inv, NEW t \in Threads, Call(t) \/ Lock(t) \/ Step(t)
    PROVE  Inv'
BY CallKeeps, LockKeeps, OpenFindKeeps, OpenNoneKeeps, OpenLoadKeeps,
   OpenLoadFailsKeeps, CloseKeeps, ReadKeeps, ReadFailsKeeps, SeekKeeps, TellKeeps,
   StatKeeps, Zenon DEF Step

LEMMA StutterKeeps ==
    ASSUME Inv, UNCHANGED vars
    PROVE  Inv'
<1>1. UNCHANGED <<fd_handle, fwfs_sema, iob, pc, call, fd, damage>>
    BY DEF vars
<1>2. TypeInv' /\ SemaInv'
    BY <1>1 DEF Inv, TypeInv, SemaInv
<1>3. \A t \in Threads : CallInv(t)' /\ UseInv(t)' /\ OpenInv(t)'
    BY <1>1 DEF Inv, CallInv, UseInv, OpenInv, SeekTarget, H
<1>4. (\A f \in Files : FileInv(f)') /\ (\A h \in Handles : HandleInv(h)')
    BY <1>1 DEF Inv, FileInv, Good, HandleInv
<1>5. HandlesGivenBack'
    BY <1>1 DEF Inv, HandlesGivenBack, Lost
<1> QED BY <1>2, <1>3, <1>4, <1>5 DEF Inv

\* The invariant holds in every behaviour: handles, descriptors and calls fit each
\* other at every step of open, close, read, seek and getstat (fwfs.c:119-390).
THEOREM Invariant == Spec => []Inv
<1>1. Inv /\ [Next]_vars => Inv'
    BY StepKeeps, StutterKeeps DEF Next
<1> QED BY InitInv, <1>1, PTL DEF Spec

LEMMA InvTypeOK == Inv => TypeOK
<1> SUFFICES ASSUME Inv
             PROVE  TypeOK
    OBVIOUS
<1>1. \A h \in Handles : fd_handle[h] \in Handle
    BY DEF Inv, TypeInv
<1>2. \A f \in Files : iob[f] \in Descriptor
    BY DEF Inv, TypeInv
<1> QED BY <1>1, <1>2 DEF Inv, TypeInv, SemaInv, Handle, Descriptor, TypeOK

\* Types, and the semaphore: a thread that has passed fs_lock has it, and one that
\* has come back has given it back, whatever path it took (fwfs.c:119-390).
THEOREM TypeCorrect == Spec => []TypeOK
BY Invariant, InvTypeOK, PTL

\* Each handle in use is that of exactly one file, whose length it has, or was
\* lost to a damaged answer, for any number of threads, files and handles.
THEOREM EveryHandleAccounted == Spec => []HandlesAccounted
<1>1. Inv => HandlesAccounted
    BY DEF Inv, FileInv, Good, HandlesAccounted, HandlesOwned
<1> QED BY Invariant, <1>1, PTL
=============================================================================
