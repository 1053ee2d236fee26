-------------------------- MODULE FwfsService_proofs --------------------------
(***************************************************************************)
(* The file system of the modchip does what FileService promises: each     *)
(* step of Fwfs is a step of FileService or changes nothing that a caller  *)
(* sees.  The invariant of Fwfs_proofs says which handle is whose; what an *)
(* action leaves alone is in its lemma there (Rest).                       *)
(***************************************************************************)
EXTENDS Fwfs_proofs

-----------------------------------------------------------------------------
(***************************************************************************)
(* What the callers see, before a step and after it                        *)
(***************************************************************************)
\* Only what the step is about is seen to change.
LEMMA SeenMoves ==
    ASSUME NEW t \in Threads, NEW f \in Files, Rest(t, {f}),
           NEW file, FileSeen(f)' = file, NEW c, CallSeen(t)' = c
    PROVE  /\ FilesSeen' = [FilesSeen EXCEPT ![f] = file]
           /\ CallsSeen' = [CallsSeen EXCEPT ![t] = c]
<1>1. \A g \in Files : FilesSeen'[g] = IF g = f THEN file ELSE FileSeen(g)
    BY DEF FilesSeen, Rest
<1>2. \A u \in Threads : CallsSeen'[u] = IF u = t THEN c ELSE CallSeen(u)
    BY DEF CallsSeen, Rest
<1>3. /\ FilesSeen' = [g \in Files |-> FilesSeen'[g]]
      /\ CallsSeen' = [u \in Threads |-> CallsSeen'[u]]
    BY DEF FilesSeen, CallsSeen
<1> QED BY <1>1, <1>2, <1>3 DEF FilesSeen, CallsSeen

LEMMA SeenRests ==
    ASSUME NEW t \in Threads, Rest(t, {}), NEW c, CallSeen(t)' = c
    PROVE  /\ FilesSeen' = FilesSeen
           /\ CallsSeen' = [CallsSeen EXCEPT ![t] = c]
<1>1. \A g \in Files : FilesSeen'[g] = FileSeen(g)
    BY DEF FilesSeen, Rest
<1>2. \A u \in Threads : CallsSeen'[u] = IF u = t THEN c ELSE CallSeen(u)
    BY DEF CallsSeen, Rest
<1>3. /\ FilesSeen' = [g \in Files |-> FilesSeen'[g]]
      /\ CallsSeen' = [u \in Threads |-> CallsSeen'[u]]
    BY DEF FilesSeen, CallsSeen
<1> QED BY <1>1, <1>2, <1>3 DEF FilesSeen, CallsSeen

\* A call is seen until it is answered.
LEMMA Answered ==
    ASSUME Inv, NEW t \in Threads, NEW v, Return(t, v)
    PROVE  CallSeen(t)' = [answer |-> v]
<1>1. pc'[t] = "idle" /\ call'[t] = [answer |-> v]
    BY DEF Return, Inv, TypeInv
<1> QED BY <1>1 DEF CallSeen

LEMMA Asked ==
    ASSUME Inv, NEW t \in Threads, pc[t] \in Inside
    PROVE  /\ CallsSeen[t] = call[t] /\ call[t] \in Calls
           /\ call[t].op = (IF pc[t] = "load" THEN "open" ELSE pc[t])
           /\ "op" \in DOMAIN call[t]
<1>1. call[t] \in Calls /\ call[t].op = (IF pc[t] = "load" THEN "open" ELSE pc[t])
    BY DEF Inv, CallInv, Inside
<1>2. CallsSeen[t] = call[t]
    BY DEF CallsSeen, CallSeen, Inside
<1> QED BY <1>1, <1>2, CallTypes

\* A file is open when it has a handle.
LEMMA OpenSeen ==
    ASSUME NEW f \in Files
    PROVE  /\ (FilesSeen[f] # Service!Closed) <=> iob[f].privdata # NULL
           /\ iob[f].privdata # NULL =>
                 LET h == fd_handle[iob[f].privdata]
                 IN  FilesSeen[f] = [by |-> iob[f].by, name |-> <<h.mode, h.idx>>,
                                     pos |-> Position(h)]
<1>1. FilesSeen[f] = FileSeen(f)
    BY DEF FilesSeen
<1>2. CASE iob[f].privdata = NULL
    BY <1>1, <1>2 DEF FileSeen, Service!Closed
<1>3. CASE iob[f].privdata # NULL
    <2>1. FilesSeen[f] = [by |-> iob[f].by,
                          name |-> <<fd_handle[iob[f].privdata].mode,
                                     fd_handle[iob[f].privdata].idx>>,
                          pos |-> Position(fd_handle[iob[f].privdata])]
        BY <1>1, <1>3 DEF FileSeen
    <2>2. "name" \in DOMAIN FilesSeen[f]
        BY <2>1
    <2>3. "name" \notin DOMAIN Service!Closed
        BY DEF Service!Closed
    <2>4. FilesSeen[f] # Service!Closed
        BY <2>2, <2>3
    <2> QED BY <1>3, <2>1, <2>4
<1> QED BY <1>2, <1>3

\* When no handle is free, so many files are open, or handles were lost.
LEMMA NoneFree ==
    ASSUME Inv, \A h \in Handles : fd_handle[h].size # 0
    PROVE  Cardinality({f \in Files : FilesSeen[f] # Service!Closed}) + damage >= MaxFiles
<1> DEFINE S == {f \in Files : iob[f].privdata # NULL}
           O == {h \in Handles : \E f \in Files : iob[f].privdata = h}
           own == [f \in S |-> iob[f].privdata]
<1>1. {f \in Files : FilesSeen[f] # Service!Closed} = S
    BY OpenSeen
<1>2. IsFiniteSet(Handles) /\ Cardinality(Handles) = MaxFiles
    BY HandlesFinite
<1>3. IsFiniteSet(O) /\ IsFiniteSet(Lost)
    BY <1>2, FS_Subset DEF Lost
<1>4. own \in Injection(S, O) /\ own \in Surjection(S, O)
    <2>1. \A f \in S : own[f] = iob[f].privdata /\ own[f] \in O
        BY DEF Inv, TypeInv, Descriptor
    <2>2. \A f, g \in S : own[f] = own[g] => f = g
        BY <2>1 DEF Inv, FileInv
    <2>3. \A h \in O : \E f \in S : own[f] = h
        BY DEF NULL, Handles
    <2>4. own \in [S -> O]
        BY <2>1
    <2> HIDE DEF own, S, O
    <2> QED BY <2>2, <2>3, <2>4 DEF Injection, Surjection, IsInjective
<1>5. Handles \subseteq O \cup Lost
    BY DEF Lost
<1> HIDE DEF S, O, own
<1>6. IsFiniteSet(S) /\ Cardinality(O) <= Cardinality(S)
    BY <1>3, <1>4, FS_Injection, FS_Surjection
<1>7. /\ IsFiniteSet(O \cup Lost)
      /\ Cardinality(O \cup Lost)
            = Cardinality(O) + Cardinality(Lost) - Cardinality(O \cap Lost)
    BY <1>3, FS_Union
<1>8. Cardinality(Handles) <= Cardinality(O \cup Lost)
    BY <1>5, <1>7, FS_Subset
<1>9. IsFiniteSet(O \cap Lost)
    BY <1>3, FS_Subset
<1>10. /\ Cardinality(S) \in Nat /\ Cardinality(O) \in Nat
       /\ Cardinality(Lost) \in Nat /\ Cardinality(O \cap Lost) \in Nat
       /\ MaxFiles \in Nat /\ damage \in Nat
    <2>1. MaxFiles \in Nat /\ damage \in Nat
        BY FwfsAssumption DEF Inv, TypeInv
    <2> QED BY <1>3, <1>6, <1>9, <2>1, FS_CardinalityType
<1>11. Cardinality(Lost) <= damage
    BY DEF Inv, HandlesGivenBack
<1>12. Cardinality(S) + damage >= MaxFiles
    BY <1>2, <1>6, <1>7, <1>8, <1>10, <1>11
<1> QED BY <1>1, <1>12

-----------------------------------------------------------------------------
(***************************************************************************)
(* Steps that the callers do not see                                       *)
(***************************************************************************)
LEMMA Unseen ==
    ASSUME NEW t \in Threads, Rest(t, {}), CallSeen(t)' = CallSeen(t), damage' = damage
    PROVE  UNCHANGED <<FilesSeen, CallsSeen, damage>>
<1>1. CallsSeen[t] = CallSeen(t) /\ CallsSeen = [u \in Threads |-> CallsSeen[u]]
    BY DEF CallsSeen
<1>2. /\ FilesSeen' = FilesSeen
      /\ CallsSeen' = [CallsSeen EXCEPT ![t] = CallsSeen[t]]
    BY <1>1, SeenRests
<1> QED BY <1>1, <1>2

LEMMA LockUnseen ==
    ASSUME Inv, NEW t \in Threads, Lock(t)
    PROVE  UNCHANGED <<FilesSeen, CallsSeen, damage>>
<1>1. call[t] \in Calls /\ pc[t] = "lock" /\ damage' = damage
    BY DEF Lock, Inv, CallInv
<1>2. pc'[t] = call[t].op /\ call'[t] = call[t] /\ call[t].op # "tell"
    BY <1>1, CallTypes DEF Lock, Inv, TypeInv
<1> QED BY <1>1, <1>2, LockKeeps, Unseen DEF CallSeen

LEMMA OpenFindUnseen ==
    ASSUME Inv, NEW t \in Threads, OpenFind(t)
    PROVE  UNCHANGED <<FilesSeen, CallsSeen, damage>>
<1>1. pc[t] = "open" /\ pc'[t] = "load" /\ call'[t] = call[t] /\ damage' = damage
    BY DEF OpenFind, Inv, TypeInv
<1> QED BY <1>1, OpenFindKeeps, Unseen DEF CallSeen

\* A seek was answered when it was done.
LEMMA TellUnseen ==
    ASSUME Inv, NEW t \in Threads, Tell(t)
    PROVE  UNCHANGED <<FilesSeen, CallsSeen, damage>>
<1>1. /\ pc[t] = "tell" /\ pc'[t] = "idle" /\ damage' = damage
      /\ call'[t] = [answer |-> Done(H(t).offset - MODCHIP_APPS_DATA_OFFSET)]
    BY DEF Tell, Inv, TypeInv
<1>2. H(t).mode = "d"
    <2>1. call[t].op = "seek" /\ UseInv(t)
        BY <1>1, Using DEF Inv
    <2> QED BY <1>1, <2>1 DEF UseInv, H
<1>3. Position(H(t)) = H(t).offset - MODCHIP_APPS_DATA_OFFSET
    BY <1>2 DEF Position
<1> QED BY <1>1, <1>3, TellKeeps, Unseen DEF CallSeen

-----------------------------------------------------------------------------
(***************************************************************************)
(* Steps that they see                                                     *)
(***************************************************************************)
LEMMA CallAsks ==
    ASSUME Inv, NEW t \in Threads, Call(t)
    PROVE  \E c \in Calls : Service!Ask(t, c)
<1>1. PICK c \in Calls : call' = [call EXCEPT ![t] = c]
    BY DEF Call
<1>2. pc[t] = "idle" /\ pc'[t] = "lock" /\ call'[t] = c /\ damage' = damage
    BY <1>1 DEF Call, Inv, TypeInv
<1>3. CallsSeen[t] = call[t] /\ "answer" \in DOMAIN call[t]
    BY <1>2 DEF CallsSeen, CallSeen, Inv, CallInv
<1>4. CallSeen(t)' = c
    BY <1>2 DEF CallSeen
<1>5. FilesSeen' = FilesSeen /\ CallsSeen' = [CallsSeen EXCEPT ![t] = c]
    BY <1>4, CallKeeps, SeenRests
<1> QED BY <1>2, <1>3, <1>5 DEF Service!Ask

\* A call that fails, or is refused, answers and leaves the files alone.
LEMMA AnswerSeen ==
    ASSUME Inv, NEW t \in Threads, Rest(t, {}), NEW v, Return(t, v)
    PROVE  FilesSeen' = FilesSeen /\ Service!Answer(t, v)
<1>1. CallSeen(t)' = [answer |-> v]
    BY Answered
<1> QED BY <1>1, SeenRests DEF Service!Answer

LEMMA FailureFails ==
    ASSUME Inv, NEW t \in Threads, pc[t] \in Inside, Rest(t, {}),
           NEW e \in {"EIO", "ENOSYS"}, Return(t, Failed(e)),
           damage' \in {damage, damage + 1}
    PROVE  Service!Fail(t)
<1>1. "op" \in DOMAIN CallsSeen[t]
    BY Asked
<1>2. FilesSeen' = FilesSeen /\ Service!Answer(t, Failed(e))
    BY AnswerSeen
<1>3. Failed(e) = Service!Failed(e)
    BY DEF Failed, Service!Failed
<1> QED BY <1>1, <1>2, <1>3 DEF Service!Fail

LEMMA OpenNoneRefuses ==
    ASSUME Inv, NEW t \in Threads, OpenNone(t)
    PROVE  Service!TooMany(t)
<1>1. /\ pc[t] = "open" /\ pc[t] \in Inside /\ damage' = damage
      /\ find_free_file_handle = NULL
      /\ Return(t, Failed("EMFILE"))
    BY DEF OpenNone, FailOpen, Inside
<1>2. Service!Asks(t, "open")
    BY <1>1, Asked DEF Service!Asks
<1>3. Cardinality({f \in Files : FilesSeen[f] # Service!Closed}) + damage >= MaxFiles
    BY <1>1, FreeHandle, NoneFree DEF Inv
<1>4. FilesSeen' = FilesSeen /\ Service!Answer(t, Failed("EMFILE"))
    BY <1>1, OpenNoneKeeps, AnswerSeen
<1>5. Failed("EMFILE") = Service!Failed("EMFILE")
    BY DEF Failed, Service!Failed
<1>6. \A S : Service!Cardinality(S) = Cardinality(S)
    BY DEF Service!Cardinality, Cardinality
<1> QED BY <1>1, <1>2, <1>3, <1>4, <1>5, <1>6 DEF Service!TooMany

LEMMA OpenLoadFailsFails ==
    ASSUME Inv, NEW t \in Threads, OpenLoadFails(t)
    PROVE  Service!Fail(t)
<1>1. pc[t] \in Inside
    BY DEF OpenLoadFails, Inside
<1>2. \E e \in {"EIO", "ENOSYS"} : Return(t, Failed(e))
    BY DEF OpenLoadFails, FailOpen
<1>3. damage' \in {damage, damage + 1}
    BY DEF OpenLoadFails, ModchipDamaged
<1> QED BY <1>1, <1>2, <1>3, OpenLoadFailsKeeps, FailureFails

LEMMA ReadFailsFails ==
    ASSUME Inv, NEW t \in Threads, ReadFails(t)
    PROVE  Service!Fail(t)
<1>1. pc[t] \in Inside /\ Return(t, Failed("EIO")) /\ damage' = damage
    BY DEF ReadFails, Inside
<1> QED BY <1>1, ReadFailsKeeps, FailureFails

-----------------------------------------------------------------------------
LEMMA OpenLoadOpens ==
    ASSUME Inv, NEW t \in Threads, OpenLoad(t)
    PROVE  Service!Open(t)
<1>1. PICK f \in Files : f = call[t].file /\ Rest(t, {f})
    BY OpenLoadKeeps
<1>2. /\ pc[t] = "load" /\ pc[t] \in Inside /\ damage' = damage
      /\ Return(t, Done(0)) /\ TypeInv
    BY DEF OpenLoad, Inside, Inv
<1>3. call[t].op = "open" /\ OpenInv(t)
    BY <1>2, Asked DEF Inv
<1>4. PICK k \in Handles : k = fd[t]
    BY <1>2, <1>3 DEF OpenInv
<1>5. /\ iob[f] = [by |-> t, privdata |-> NULL]
      /\ call[t].name = <<fd_handle[k].mode, fd_handle[k].idx>>
    BY <1>1, <1>2, <1>3, <1>4 DEF OpenInv, H
<1>6. FilesSeen[f] = Service!Closed
    <2>1. iob[f].privdata = NULL
        BY <1>5
    <2> QED BY <2>1, OpenSeen, Zenon
<1>7. call[t].name[2] \in DOMAIN AppSize
    BY <1>4, <1>5 DEF OpenLoad, H, ModchipReads
<1>8. FileSeen(f)' = [by |-> t, name |-> call[t].name, pos |-> 0]
    <2>1. iob'[f] = [by |-> t, privdata |-> k] /\ k # NULL
        BY <1>1, <1>2, <1>4, <1>5, FwfsAssumption
        DEF OpenLoad, TypeInv, Descriptor, Handles, NULL
    <2>2. fd_handle[k] \in Handle /\ fd_handle[k].mode \in {"a", "d"}
        BY <1>2, <1>4 DEF TypeInv, OpenLoad, H
    <2>3. /\ fd_handle'[k].mode = fd_handle[k].mode
          /\ fd_handle'[k].idx = fd_handle[k].idx
          /\ fd_handle'[k].offset = (IF fd_handle[k].mode = "a"
                                     THEN MODCHIP_APPS_ATTR_OFFSET
                                     ELSE MODCHIP_APPS_DATA_OFFSET)
        BY <1>2, <1>4, <2>2 DEF OpenLoad, TypeInv, Handle, H
    <2>4. Position(fd_handle'[k]) = 0
        BY <2>2, <2>3 DEF Position, MODCHIP_APPS_ATTR_OFFSET, MODCHIP_APPS_DATA_OFFSET
    <2> QED BY <1>5, <2>1, <2>3, <2>4 DEF FileSeen, Position
<1>9. CallSeen(t)' = [answer |-> Done(0)]
    BY <1>2, Answered
<1>10. /\ FilesSeen' = [FilesSeen EXCEPT ![f] =
                          [by |-> t, name |-> call[t].name, pos |-> 0]]
       /\ CallsSeen' = [CallsSeen EXCEPT ![t] = [answer |-> Done(0)]]
    BY <1>1, <1>8, <1>9, SeenMoves
<1>11. CallsSeen[t] = call[t] /\ "op" \in DOMAIN call[t]
    BY <1>2, Asked
<1> QED BY <1>1, <1>2, <1>3, <1>6, <1>7, <1>10, <1>11
    DEF Service!Open, Service!Asks, Service!Answer, Service!Done, Done

LEMMA CloseCloses ==
    ASSUME Inv, NEW t \in Threads, Close(t)
    PROVE  Service!Close(t)
<1>1. PICK f \in Files : f = call[t].file /\ Rest(t, {f})
    BY CloseKeeps
<1>2. /\ pc[t] = "close" /\ pc[t] \in Inside /\ damage' = damage
      /\ Return(t, Done(0)) /\ TypeInv
      /\ iob' = [iob EXCEPT ![f] = Unused]
    BY <1>1 DEF Close, Inside, Inv
<1>3. /\ CallsSeen[t] = call[t] /\ "op" \in DOMAIN call[t] /\ call[t].op = "close"
    BY <1>2, Asked
<1>4. FilesSeen[f].by = t
    <2>1. iob[f].by = t /\ iob[f].privdata # NULL
        BY <1>1, <1>2, <1>3, Using DEF Handles, NULL
    <2>2. FilesSeen[f] = FileSeen(f)
        BY DEF FilesSeen
    <2> QED BY <2>1, <2>2 DEF FileSeen
<1>5. FileSeen(f)' = Service!Closed
    BY <1>2 DEF TypeInv, FileSeen, Unused, Service!Closed
<1>6. CallSeen(t)' = [answer |-> Done(0)]
    BY <1>2, Answered
<1>7. /\ FilesSeen' = [FilesSeen EXCEPT ![f] = Service!Closed]
      /\ CallsSeen' = [CallsSeen EXCEPT ![t] = [answer |-> Done(0)]]
    BY <1>1, <1>5, <1>6, SeenMoves
<1> QED BY <1>1, <1>2, <1>3, <1>4, <1>7
    DEF Service!Close, Service!Asks, Service!Answer, Service!Done, Done

-----------------------------------------------------------------------------
\* The handle's size and offset say how much of the file is left.
LEMMA LeftSeen ==
    ASSUME NEW h \in Handle, Good(h)
    PROVE  /\ Position(h) \in Nat
           /\ Service!Length(<<h.mode, h.idx>>) - Position(h)
                 = (h.size + MODCHIP_APPS_DATA_OFFSET) - h.offset
           /\ h.mode = "d" => /\ Service!Length(<<h.mode, h.idx>>) = h.size
                              /\ Position(h) = h.offset - MODCHIP_APPS_DATA_OFFSET
<1>1. h.mode \in {"a", "d"} /\ h.offset \in Nat /\ h.size \in Nat
    BY DEF Good, Handle
<1>2. Service!Length(<<h.mode, h.idx>>)
        = IF h.mode = "a" THEN 2 * MODCHIP_APPS_ATTR_SIZE ELSE AppSize[h.idx]
    BY DEF Service!Length
<1>3. Position(h) = h.offset - (IF h.mode = "a" THEN 4 ELSE 8)
    BY DEF Position, MODCHIP_APPS_ATTR_OFFSET, MODCHIP_APPS_DATA_OFFSET
<1>4. /\ h.size = (IF h.mode = "a" THEN 4 ELSE AppSize[h.idx])
      /\ h.offset >= (IF h.mode = "a" THEN 4 ELSE 8)
    BY DEF Good, MODCHIP_APPS_ATTR_SIZE, MODCHIP_APPS_ATTR_OFFSET,
           MODCHIP_APPS_DATA_OFFSET
<1> QED BY <1>1, <1>2, <1>3, <1>4 DEF MODCHIP_APPS_ATTR_SIZE, MODCHIP_APPS_DATA_OFFSET

\* A file that is used, as its caller sees it.
LEMMA UsedSeen ==
    ASSUME Inv, NEW t \in Threads, pc[t] \in {"read", "seek"},
           NEW f \in Files, f = call[t].file, NEW k \in Handles, k = fd[t]
    PROVE  /\ iob[f].by = t /\ iob[f].privdata = k
           /\ fd_handle[k] \in Handle /\ Good(fd_handle[k])
           /\ FilesSeen[f] = [by |-> t,
                              name |-> <<fd_handle[k].mode, fd_handle[k].idx>>,
                              pos |-> Position(fd_handle[k])]
           /\ CallsSeen[t] = call[t] /\ call[t] \in Calls /\ call[t].op = pc[t]
           /\ "op" \in DOMAIN call[t]
<1>1. /\ iob[f].by = t /\ iob[f].privdata = k /\ k # NULL
      /\ fd_handle[k] \in Handle /\ Good(fd_handle[k])
    BY Using DEF Handles, NULL
<1>2. FilesSeen[f] = FileSeen(f)
    BY DEF FilesSeen
<1> QED BY <1>1, <1>2, Asked DEF FileSeen, Inside

\* Moving the offset of its handle moves the position in the file.
LEMMA MovedSeen ==
    ASSUME Inv, NEW t \in Threads, pc[t] \in {"read", "seek"},
           NEW f \in Files, f = call[t].file, NEW k \in Handles, k = fd[t],
           NEW o \in Nat, fd_handle' = [fd_handle EXCEPT ![k].offset = o], iob' = iob
    PROVE  FileSeen(f)' = [by |-> t, name |-> FilesSeen[f].name,
                           pos |-> Position(fd_handle[k]) + (o - fd_handle[k].offset)]
<1> DEFINE p == Position(fd_handle[k]) + (o - fd_handle[k].offset)
<1>1. /\ iob[f].by = t /\ iob[f].privdata = k /\ k # NULL
      /\ fd_handle[k] \in Handle /\ Good(fd_handle[k])
      /\ FilesSeen[f] = [by |-> t,
                         name |-> <<fd_handle[k].mode, fd_handle[k].idx>>,
                         pos |-> Position(fd_handle[k])]
    BY UsedSeen DEF Handles, NULL
<1>2. /\ fd_handle'[k].mode = fd_handle[k].mode
      /\ fd_handle'[k].idx = fd_handle[k].idx
      /\ fd_handle'[k].offset = o
    BY <1>1 DEF Inv, TypeInv, Handle
<1>3. Position(fd_handle'[k]) = p
    <2> DEFINE a == IF fd_handle[k].mode = "a" THEN MODCHIP_APPS_ATTR_OFFSET
                                               ELSE MODCHIP_APPS_DATA_OFFSET
    <2>1. Position(fd_handle[k]) = fd_handle[k].offset - a
        BY DEF Position
    <2>2. Position(fd_handle'[k]) = o - a
        BY <1>2 DEF Position
    <2>3. fd_handle[k].offset \in Nat /\ a \in Nat
        BY <1>1 DEF Handle, MODCHIP_APPS_ATTR_OFFSET, MODCHIP_APPS_DATA_OFFSET
    <2> HIDE DEF a
    <2> QED BY <2>1, <2>2, <2>3
<1>4. FileSeen(f)' = [by |-> t, name |-> <<fd_handle[k].mode, fd_handle[k].idx>>,
                      pos |-> p]
    BY <1>1, <1>2, <1>3 DEF FileSeen, Position
<1> QED BY <1>1, <1>4

LEMMA ReadReads ==
    ASSUME Inv, NEW t \in Threads, Read(t)
    PROVE  Service!Read(t)
<1>1. PICK f \in Files : f = call[t].file /\ Rest(t, {f})
    BY ReadKeeps
<1>2. pc[t] = "read" /\ pc[t] \in Inside /\ damage' = damage /\ iob' = iob /\ TypeInv
    BY DEF Read, Inside, Inv
<1>3. PICK k \in Handles : k = fd[t]
    BY <1>2, Using
<1>4. /\ fd_handle[k] \in Handle /\ Good(fd_handle[k])
      /\ FilesSeen[f] = [by |-> t,
                         name |-> <<fd_handle[k].mode, fd_handle[k].idx>>,
                         pos |-> Position(fd_handle[k])]
      /\ CallsSeen[t] = call[t] /\ call[t] \in Calls /\ call[t].op = "read"
      /\ "op" \in DOMAIN call[t]
    BY <1>1, <1>2, <1>3, UsedSeen
<1>5. PICK h \in Handle : h = fd_handle[k] /\ Good(h)
    BY <1>4
<1>6. PICK n \in Nat : n = call[t].n
    BY <1>4, CallTypes
<1> DEFINE end == h.size + MODCHIP_APPS_DATA_OFFSET
<1>7. h.offset \in Nat /\ end \in Nat /\ h.offset <= end
    <2>1. h.offset \in Nat /\ h.size \in Nat
        BY DEF Handle
    <2>2. h.offset <= end
        BY <1>5 DEF Good
    <2> QED BY <2>1, <2>2 DEF MODCHIP_APPS_DATA_OFFSET
<1>8. PICK len \in Nat :
         /\ len = (IF h.offset >= end THEN 0 ELSE Min({n, end - h.offset}))
         /\ len = (IF n < end - h.offset THEN n ELSE end - h.offset)
    <2>1. Min({n, end - h.offset}) = IF n <= end - h.offset THEN n ELSE end - h.offset
        BY <1>7, IntMin2
    <2> QED BY <1>7, <2>1
<1>9. /\ fd_handle' = [fd_handle EXCEPT ![k].offset = @ + len]
      /\ Return(t, Bytes(h, len))
    BY <1>3, <1>5, <1>6, <1>8 DEF Read, H
<1>10. PICK o \in Nat : o = h.offset + len
    BY <1>7
<1>11. fd_handle' = [fd_handle EXCEPT ![k].offset = o]
    BY <1>2, <1>5, <1>9, <1>10 DEF TypeInv
<1>12. Position(h) \in Nat
    BY <1>5, LeftSeen
<1>13. PICK p \in Nat : p = Position(h) + len
    BY <1>12
<1>14. FileSeen(f)' = [FilesSeen[f] EXCEPT !.pos = p]
    <2>1. p = Position(fd_handle[k]) + (o - fd_handle[k].offset)
        BY <1>5, <1>7, <1>10, <1>12, <1>13
    <2>2. pc[t] \in {"read", "seek"}
        BY <1>2
    <2>3. f = call[t].file /\ k = fd[t]
        BY <1>1, <1>3
    <2>4. fd_handle' = [fd_handle EXCEPT ![k].offset = o] /\ iob' = iob
        BY <1>2, <1>11
    <2>5. FileSeen(f)' = [by |-> t, name |-> FilesSeen[f].name,
                          pos |-> Position(fd_handle[k]) + (o - fd_handle[k].offset)]
        BY <2>2, <2>3, <2>4, MovedSeen
    <2> QED BY <1>4, <2>1, <2>5
<1>15. CallSeen(t)' = [answer |-> Bytes(h, len)]
    BY <1>9, Answered
<1>16. /\ FilesSeen' = [FilesSeen EXCEPT ![f] = [FilesSeen[f] EXCEPT !.pos = p]]
       /\ CallsSeen' = [CallsSeen EXCEPT ![t] = [answer |-> Bytes(h, len)]]
    BY <1>1, <1>14, <1>15, SeenMoves
<1>17. Service!Length(FilesSeen[f].name) - FilesSeen[f].pos = end - h.offset
    <2>1. FilesSeen[f].name = <<h.mode, h.idx>> /\ FilesSeen[f].pos = Position(h)
        BY <1>4, <1>5
    <2>2. Service!Length(<<h.mode, h.idx>>) - Position(h) = end - h.offset
        BY <1>5, LeftSeen
    <2> QED BY <2>1, <2>2
<1> HIDE DEF end
<1>18. Bytes(h, len) = <<"read", FilesSeen[f].name, FilesSeen[f].pos, len>>
    BY <1>4, <1>5 DEF Bytes
<1>19. FilesSeen' = [FilesSeen EXCEPT ![f].pos = @ + len]
    <2>1. p = FilesSeen[f].pos + len
        BY <1>4, <1>5, <1>13
    <2> QED BY <1>16, <2>1 DEF FilesSeen
<1>20. FilesSeen[f].by = t
    BY <1>4
<1>21. Service!Asks(t, "read")
    BY <1>4 DEF Service!Asks
<1>22. Service!Answer(t, <<"read", FilesSeen[f].name, FilesSeen[f].pos, len>>)
    BY <1>16, <1>18 DEF Service!Answer
<1>23. len = IF CallsSeen[t].n < Service!Length(FilesSeen[f].name) - FilesSeen[f].pos
             THEN CallsSeen[t].n
             ELSE Service!Length(FilesSeen[f].name) - FilesSeen[f].pos
    BY <1>4, <1>6, <1>8, <1>17
<1>24. f = CallsSeen[t].file /\ damage' = damage
    BY <1>1, <1>2, <1>4
<1> QED BY <1>19, <1>20, <1>21, <1>22, <1>23, <1>24, Zenon DEF Service!Read

LEMMA SeekSeeks ==
    ASSUME Inv, NEW t \in Threads, Seek(t)
    PROVE  Service!Seek(t)
<1>1. PICK f \in Files : f = call[t].file /\ Rest(t, {f})
    BY SeekKeeps
<1>2. /\ pc[t] = "seek" /\ damage' = damage /\ iob' = iob /\ TypeInv
      /\ pc'[t] = "tell" /\ fd'[t] = fd[t]
    BY DEF Seek, Inv, TypeInv
<1>3. PICK k \in Handles : k = fd[t]
    BY <1>2, Using
<1>4. /\ fd_handle[k] \in Handle /\ Good(fd_handle[k]) /\ iob[f].privdata = k
      /\ FilesSeen[f] = [by |-> t,
                         name |-> <<fd_handle[k].mode, fd_handle[k].idx>>,
                         pos |-> Position(fd_handle[k])]
      /\ CallsSeen[t] = call[t] /\ call[t] \in Calls /\ call[t].op = "seek"
      /\ "op" \in DOMAIN call[t]
    BY <1>1, <1>2, <1>3, UsedSeen
<1>5. PICK h \in Handle : h = fd_handle[k] /\ Good(h)
    BY <1>4
<1>6. PICK n \in Int : n = call[t].n
    BY <1>4, CallTypes
<1>7. PICK whence \in {"SET", "CUR", "END"} : whence = call[t].name
    BY <1>4, CallTypes
<1>8. /\ h.mode = "d"
      /\ SeekTarget(f, [whence |-> whence, n |-> n]) \notin -8..-1
    <2>1. UseInv(t)
        BY DEF Inv
    <2> QED BY <1>1, <1>2, <1>4, <1>5, <1>6, <1>7, <2>1 DEF UseInv
<1>9. Service!Length(FilesSeen[f].name) = h.size
    <2>1. FilesSeen[f].name = <<h.mode, h.idx>>
        BY <1>4, <1>5
    <2>2. Service!Length(<<h.mode, h.idx>>) = h.size
        BY <1>5, <1>8, LeftSeen
    <2> QED BY <2>1, <2>2
<1>10. FilesSeen[f].pos = h.offset - MODCHIP_APPS_DATA_OFFSET /\ FilesSeen[f].by = t
    <2>1. FilesSeen[f].pos = Position(h) /\ FilesSeen[f].by = t
        BY <1>4, <1>5
    <2> QED BY <2>1, <1>8 DEF Position
<1> DEFINE target == CASE whence = "SET" -> n
                       [] whence = "CUR" -> FilesSeen[f].pos + n
                       [] whence = "END" -> Service!Length(FilesSeen[f].name) - n
           within == IF target < 0 THEN 0
                     ELSE IF target > Service!Length(FilesSeen[f].name)
                          THEN Service!Length(FilesSeen[f].name) ELSE target
<1>11. SeekTarget(f, [whence |-> whence, n |-> n]) = target
    BY <1>4, <1>5, <1>9, <1>10 DEF SeekTarget
<1>12. PICK p \in Int, o \in Nat :
          /\ p = within /\ o = p + MODCHIP_APPS_DATA_OFFSET
          /\ fd_handle' = [fd_handle EXCEPT ![k].offset = o]
    <2> DEFINE to == SeekTarget(f, [whence |-> call[t].name, n |-> call[t].n])
               size == fd_handle[k].size
               pos == IF to < 0 THEN 0 ELSE IF to > size THEN size ELSE to
    <2>1. /\ to \in Int
          /\ pos + MODCHIP_APPS_DATA_OFFSET \in Nat
          /\ fd_handle' = [fd_handle EXCEPT ![k].offset = pos + MODCHIP_APPS_DATA_OFFSET]
        BY <1>3, <1>4, <1>5, <1>6, <1>7, <1>8, SeekMoves
    <2>2. to = target /\ size = Service!Length(FilesSeen[f].name) /\ size \in Nat
        BY <1>5, <1>6, <1>7, <1>9, <1>11 DEF Handle
    <2> HIDE DEF to, size, target
    <2>3. pos = within /\ pos \in Int
        BY <2>1, <2>2
    <2> HIDE DEF pos, within
    <2> QED BY <2>1, <2>3
<1> HIDE DEF target, within
<1>13. FileSeen(f)' = [by |-> t, name |-> FilesSeen[f].name, pos |-> p]
    <2>1. h.offset \in Nat
        BY DEF Handle
    <2>2. Position(fd_handle[k]) + (o - fd_handle[k].offset) = p
        BY <1>4, <1>5, <1>10, <1>12, <2>1 DEF MODCHIP_APPS_DATA_OFFSET
    <2>3. FileSeen(f)' = [by |-> t, name |-> FilesSeen[f].name,
                          pos |-> Position(fd_handle[k]) + (o - fd_handle[k].offset)]
        BY <1>1, <1>2, <1>3, <1>12, MovedSeen
    <2> QED BY <2>2, <2>3
<1>14. CallSeen(t)' = [answer |-> Done(p)]
    <2>1. fd_handle'[k].mode = "d" /\ fd_handle'[k].offset = o
        BY <1>2, <1>4, <1>5, <1>8, <1>12 DEF TypeInv, Handle
    <2>2. Position(fd_handle'[k]) = p
        BY <1>12, <2>1 DEF Position, MODCHIP_APPS_DATA_OFFSET
    <2>3. Position(H(t))' = Position(fd_handle'[k])
        BY <1>2, <1>3 DEF Position, H
    <2> QED BY <1>2, <2>2, <2>3 DEF CallSeen
<1>15. /\ FilesSeen' = [FilesSeen EXCEPT ![f] =
                          [by |-> t, name |-> FilesSeen[f].name, pos |-> p]]
       /\ CallsSeen' = [CallsSeen EXCEPT ![t] = [answer |-> Done(p)]]
    BY <1>1, <1>13, <1>14, SeenMoves
<1>16. FilesSeen' = [FilesSeen EXCEPT ![f].pos = p]
    <2>1. [by |-> t, name |-> FilesSeen[f].name, pos |-> p]
            = [FilesSeen[f] EXCEPT !.pos = p]
        BY <1>4
    <2> QED BY <1>15, <2>1 DEF FilesSeen
<1>17. Service!Answer(t, Service!Done(p))
    BY <1>15 DEF Service!Answer, Service!Done, Done
<1>18. Service!Asks(t, "seek") /\ f = CallsSeen[t].file
    BY <1>1, <1>4 DEF Service!Asks
<1>19. CallsSeen[t].n = n /\ CallsSeen[t].name = whence
    BY <1>4, <1>6, <1>7
<1>20. LET file == CallsSeen[t].file
           size == Service!Length(FilesSeen[file].name)
           to   == CASE CallsSeen[t].name = "SET" -> CallsSeen[t].n
                     [] CallsSeen[t].name = "CUR" -> FilesSeen[file].pos + CallsSeen[t].n
                     [] CallsSeen[t].name = "END" -> size - CallsSeen[t].n
       IN  p = IF to < 0 THEN 0 ELSE IF to > size THEN size ELSE to
    BY <1>12, <1>18, <1>19 DEF within, target
<1> QED BY <1>2, <1>10, <1>16, <1>17, <1>18, <1>20, Zenon DEF Service!Seek

-----------------------------------------------------------------------------
\* A handle that getstat finds is that of a file, or was lost to a damaged answer.
LEMMA StatStats ==
    ASSUME Inv, NEW t \in Threads, Stat(t)
    PROVE  Service!Stat(t) \/ Service!Fail(t)
<1>1. /\ pc[t] = "stat" /\ pc[t] \in Inside /\ damage' = damage
      /\ Rest(t, {})
    BY StatKeeps DEF Stat, Inside
<1>2. PICK a : a = call[t].name[2]
    OBVIOUS
<1>3. /\ CallsSeen[t] = call[t] /\ call[t] \in Calls /\ call[t].op = "stat"
      /\ "op" \in DOMAIN call[t]
    BY <1>1, Asked
<1>4. Service!Asks(t, "stat")
    BY <1>3 DEF Service!Asks
<1>5. CASE Return(t, Failed("EIO"))
    BY <1>1, <1>5, FailureFails
<1>6. CASE ModchipReads(a) /\ Return(t, Done(AppSize[a]))
    <2>1. FilesSeen' = FilesSeen /\ Service!Answer(t, Service!Done(AppSize[a]))
        BY <1>1, <1>6, AnswerSeen DEF Done, Service!Done
    <2> QED BY <1>1, <1>2, <1>3, <1>4, <1>6, <2>1 DEF Service!Stat, ModchipReads
<1>7. ASSUME NEW h \in Handles, fd_handle[h].size # 0, fd_handle[h].idx = a,
             Return(t, Done(fd_handle[h].size))
      PROVE  Service!Stat(t)
    <2>1. FilesSeen' = FilesSeen /\ Service!Answer(t, Service!Done(fd_handle[h].size))
        BY <1>1, <1>7, AnswerSeen DEF Done, Service!Done
    <2>2. CASE fd_handle[h].size = Junk /\ damage > 0
        BY <1>1, <1>4, <2>1, <2>2 DEF Service!Stat
    <2>3. ASSUME NEW f \in Files, iob[f].privdata = h
          PROVE  Service!Stat(t)
        <3>1. Good(fd_handle[h]) /\ iob[f].privdata # NULL
            BY <2>3 DEF Inv, FileInv, Handles, NULL
        <3>2. CASE fd_handle[h].mode = "d"
            <4>1. a \in DOMAIN AppSize /\ fd_handle[h].size = AppSize[a]
                BY <1>7, <3>1, <3>2 DEF Good
            <4> QED BY <1>1, <1>2, <1>3, <1>4, <2>1, <4>1 DEF Service!Stat
        <3>3. CASE fd_handle[h].mode = "a"
            <4>1. fd_handle[h].size = MODCHIP_APPS_ATTR_SIZE
                BY <3>1, <3>3 DEF Good
            <4>2. FilesSeen[f] # Service!Closed
                BY <3>1, OpenSeen, Zenon
            <4>3. FilesSeen[f].name = <<"a", a>>
                <5>1. FilesSeen[f] = FileSeen(f)
                    BY DEF FilesSeen
                <5> QED BY <1>7, <2>3, <3>1, <3>3, <5>1 DEF FileSeen
            <4> QED BY <1>1, <1>2, <1>3, <1>4, <2>1, <4>1, <4>2, <4>3
                DEF Service!Stat
        <3> QED BY <3>1, <3>2, <3>3 DEF Good
    <2> QED BY <1>7, <2>2, <2>3 DEF Inv, HandleInv
<1>8. \/ Return(t, Failed("EIO"))
      \/ ModchipReads(a) /\ Return(t, Done(AppSize[a]))
      \/ \E h \in Handles : /\ fd_handle[h].size # 0 /\ fd_handle[h].idx = a
                            /\ Return(t, Done(fd_handle[h].size))
    <2>1. LET h == get_file_handle_by_idx(a)
          IN  h # NULL =>
                 h \in Handles /\ fd_handle[h].size # 0 /\ fd_handle[h].idx = a
        BY HandleByIdx DEF Inv
    <2> QED BY <1>2, <2>1 DEF Stat
<1> QED BY <1>5, <1>6, <1>7, <1>8

-----------------------------------------------------------------------------
(***************************************************************************)
(* The theorem                                                             *)
(***************************************************************************)
LEMMA InitServes == Init => Service!Init
<1> SUFFICES ASSUME Init
             PROVE  Service!Init
    OBVIOUS
<1>1. FilesSeen = [f \in Files |-> Service!Closed]
    BY DEF Init, FilesSeen, FileSeen, Unused, Service!Closed
<1>2. CallsSeen = [t \in Threads |-> Service!Start]
    BY DEF Init, CallsSeen, CallSeen, Start, Service!Start, Done, Service!Done
<1> QED BY <1>1, <1>2 DEF Init, Service!Init

LEMMA StepServes ==
    ASSUME Inv, NEW t \in Threads, Call(t) \/ Lock(t) \/ Step(t)
    PROVE  Service!Next \/ UNCHANGED <<FilesSeen, CallsSeen, damage>>
<1>1. CASE Call(t)
    BY <1>1, CallAsks, Zenon DEF Service!Next
<1>2. CASE Lock(t) \/ OpenFind(t) \/ Tell(t)
    BY <1>2, LockUnseen, OpenFindUnseen, TellUnseen, Zenon
<1>3. CASE OpenNone(t) \/ OpenLoad(t) \/ OpenLoadFails(t) \/ Close(t) \/ Read(t)
           \/ ReadFails(t) \/ Seek(t) \/ Stat(t)
    BY <1>3, OpenNoneRefuses, OpenLoadOpens, OpenLoadFailsFails, CloseCloses,
       ReadReads, ReadFailsFails, SeekSeeks, StatStats, Zenon DEF Service!Next
<1> QED BY <1>1, <1>2, <1>3, Zenon DEF Step

LEMMA StutterServes ==
    ASSUME UNCHANGED vars
    PROVE  UNCHANGED <<FilesSeen, CallsSeen, damage>>
<1>1. UNCHANGED <<fd_handle, fwfs_sema, iob, pc, call, fd, damage>>
    BY DEF vars
<1>2. \A f \in Files : FileSeen(f)' = FileSeen(f)
    BY <1>1 DEF FileSeen, Position
<1>3. \A t \in Threads : CallSeen(t)' = CallSeen(t)
    BY <1>1 DEF CallSeen, Position, H
<1> QED BY <1>1, <1>2, <1>3 DEF FilesSeen, CallsSeen

\* Whatever the threads of the IOP do at the same time, and whatever answers of the
\* modchip are lost, every call is answered as FileService says: as if it were made
\* alone, with the bytes that come next, and refused for want of handles only when
\* that many files are open or handles were lost to damaged answers.
THEOREM ImplementsService == Spec => ServesFiles
<1>1. Inv /\ [Next]_vars => [Service!Next]_<<FilesSeen, CallsSeen, damage>>
    BY StepServes, StutterServes DEF Next
<1> QED BY InitServes, Invariant, <1>1, PTL DEF Spec, ServesFiles, Service!Spec
=============================================================================
