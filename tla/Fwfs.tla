-------------------------------- MODULE Fwfs --------------------------------
(***************************************************************************)
(* The file system of the modchip on the IOP (fruitchip-fwfs/src/fwfs.c):  *)
(* the apps partition as files "fwfs:d<idx>" and the attributes of apps as *)
(* "fwfs:a<idx>".                                                          *)
(*                                                                         *)
(* Threads of the IOP share MaxFiles file handles and one modchip; a       *)
(* semaphore guards both.  A handle with a size other than 0 is in use:    *)
(* there is no other mark.  fwfs_open lets the modchip write the size of   *)
(* an app straight into the handle.                                        *)
(*                                                                         *)
(* What the ioman library does is modelled as far as fwfs relies on it: a  *)
(* descriptor is taken before fwfs_open is called, freed if that fails and *)
(* after fwfs_close.  A descriptor is used by the thread that opened it.   *)
(***************************************************************************)
EXTENDS Integers, FiniteSets, FiniteSetsExt, TLC

CONSTANTS
    Threads, Files,
    AppSize,    \* length of each app, by its index
    MaxFiles,   \* MAX_FILES
    Names,      \* names that are opened: <<mode, index>>
    ReadSizes,  \* sizes that are read
    Seeks,      \* [whence, n]
    Junk,       \* the size that a damaged answer leaves behind
    MaxDamage   \* bound on the damaged answers of a behaviour

\* The partition is built from files that are not empty.  "x" stands for any mode
\* that fwfs_open does not know.
ASSUME FwfsAssumption ==
    /\ MaxFiles \in Nat \ {0}
    /\ \A app \in DOMAIN AppSize : AppSize[app] \in Nat \ {0}
    /\ Junk \in Nat \ {0}
    /\ Names \subseteq {"d", "a", "x"} \X Nat
    /\ ReadSizes \subseteq Nat
    /\ Seeks \subseteq [whence : {"SET", "CUR", "END"}, n : Int]
    /\ MaxDamage \in Nat
    /\ {"free", "none"} \cap Threads = {}

MODCHIP_APPS_ATTR_OFFSET == 4
MODCHIP_APPS_ATTR_SIZE   == 4
MODCHIP_APPS_DATA_OFFSET == 8

VARIABLES
    fd_handle,  \* the handles: [mode, idx, size, offset]
    fwfs_sema,  \* the thread that has the semaphore, or "free"
    iob,        \* descriptors of ioman: [by, privdata]
    pc,         \* what each thread is at
    call,       \* the call it has made, or the answer to its last one
    fd,         \* handle that the call is about
    damage      \* damaged answers so far (history and bound)

vars == <<fd_handle, fwfs_sema, iob, pc, call, fd, damage>>

Handles == 1..MaxFiles
NULL    == 0
Unused  == [by |-> "none", privdata |-> NULL]
Done(n) == <<"done", n>>
Failed(e) == <<"failed", e>>
Start   == [answer |-> Done(0)]

\* Position in what a name stands for, from the offset in the app's entry.
Position(h) == h.offset - (IF h.mode = "a" THEN MODCHIP_APPS_ATTR_OFFSET
                                           ELSE MODCHIP_APPS_DATA_OFFSET)

find_free_file_handle ==
    LET free == {h \in Handles : fd_handle[h].size = 0}
    IN  IF free = {} THEN NULL ELSE Min(free)

get_file_handle_by_idx(idx) ==
    LET found == {h \in Handles : fd_handle[h].size # 0 /\ fd_handle[h].idx = idx}
    IN  IF found = {} THEN NULL ELSE Min(found)

-----------------------------------------------------------------------------
(***************************************************************************)
(* ioman: a thread calls                                                   *)
(***************************************************************************)
\* The user seeks from the first byte to the last.  (From 1 to 8 bytes before
\* the first one, lseek would come to the header of the app.)
SeekTarget(f, s) ==
    LET h == fd_handle[iob[f].privdata]
    IN  CASE s.whence = "SET" -> s.n
          [] s.whence = "CUR" -> h.offset - MODCHIP_APPS_DATA_OFFSET + s.n
          [] s.whence = "END" -> h.size - s.n

Calling(t, c, f) ==
    CASE c.op = "open" -> iob[f] = Unused
      [] c.op \in {"close", "read"} -> iob[f].by = t
      [] c.op = "seek" ->
            /\ iob[f].by = t
            /\ fd_handle[iob[f].privdata].mode = "d"
            /\ SeekTarget(f, [whence |-> c.name, n |-> c.n]) \notin -8..-1
      [] c.op = "stat" -> TRUE

Calls ==
    [op : {"open"}, file : Files, name : Names]
        \cup [op : {"close"}, file : Files]
        \cup [op : {"read"}, file : Files, n : ReadSizes]
        \cup {[op |-> "seek", file |-> f, name |-> s.whence, n |-> s.n] :
                 f \in Files, s \in Seeks}
        \cup [op : {"stat"}, name : Names]

Call(t) ==
    /\ pc[t] = "idle"
    /\ \E c \in Calls :
          /\ Calling(t, c, IF c.op = "stat" THEN NULL ELSE c.file)
          /\ call' = [call EXCEPT ![t] = c]
          /\ iob' = IF c.op = "open" THEN [iob EXCEPT ![c.file].by = t] ELSE iob
    /\ pc' = [pc EXCEPT ![t] = "lock"]
    /\ UNCHANGED <<fd_handle, fwfs_sema, fd, damage>>

-----------------------------------------------------------------------------
(***************************************************************************)
(* Steps                                                                   *)
(***************************************************************************)
\* fs_lock.  The descriptor's handle is the same before and after it.
\* Mutant: no semaphore is waited for.
LockFree(t) ==
    /\ pc[t] = "lock"
    /\ fwfs_sema' = t
    /\ pc' = [pc EXCEPT ![t] = call[t].op]
    /\ fd' = [fd EXCEPT ![t] =
                IF call[t].op \in {"close", "read", "seek"}
                THEN iob[call[t].file].privdata ELSE NULL]
    /\ UNCHANGED <<fd_handle, iob, call, damage>>

Lock(t) ==
    /\ pc[t] = "lock"
    /\ fwfs_sema = "free"
    /\ fwfs_sema' = t
    /\ pc' = [pc EXCEPT ![t] = call[t].op]
    /\ fd' = [fd EXCEPT ![t] =
                IF call[t].op \in {"close", "read", "seek"}
                THEN iob[call[t].file].privdata ELSE NULL]
    /\ UNCHANGED <<fd_handle, iob, call, damage>>

\* fs_unlock and return.
Return(t, value) ==
    /\ fwfs_sema' = "free"
    /\ pc' = [pc EXCEPT ![t] = "idle"]
    /\ call' = [call EXCEPT ![t] = [answer |-> value]]
    /\ fd' = [fd EXCEPT ![t] = NULL]

\* The descriptor of a call of open that fails goes back to ioman.
FailOpen(t, e) ==
    /\ Return(t, Failed(e))
    /\ iob' = [iob EXCEPT ![call[t].file] = Unused]

\* modchip_apps_read_with_retry: the modchip has the app and its answer is
\* read, or nothing is read, or what is read is damaged.
ModchipReads(idx) == idx \in DOMAIN AppSize
ModchipDamaged == damage < MaxDamage /\ damage' = damage + 1

H(t) == fd_handle[fd[t]]

\* fwfs_open
OpenFind(t) ==
    /\ pc[t] = "open"
    /\ find_free_file_handle # NULL
    /\ fd' = [fd EXCEPT ![t] = find_free_file_handle]
    /\ fd_handle' = [fd_handle EXCEPT ![find_free_file_handle].mode = call[t].name[1],
                                      ![find_free_file_handle].idx = call[t].name[2]]
    /\ pc' = [pc EXCEPT ![t] = "load"]
    /\ UNCHANGED <<fwfs_sema, iob, call, damage>>

\* Mutant: a handle is waited for, with the semaphore.
OpenWaits(t) ==
    /\ pc[t] = "open"
    /\ find_free_file_handle = NULL
    /\ UNCHANGED vars

OpenNone(t) ==
    /\ pc[t] = "open"
    /\ find_free_file_handle = NULL
    /\ FailOpen(t, "EMFILE")
    /\ UNCHANGED <<fd_handle, damage>>

OpenLoad(t) ==
    /\ pc[t] = "load"
    /\ H(t).mode \in {"d", "a"}
    /\ ModchipReads(H(t).idx)
    /\ fd_handle' = IF H(t).mode = "d"
          THEN [fd_handle EXCEPT ![fd[t]].size = AppSize[H(t).idx],
                                 ![fd[t]].offset = MODCHIP_APPS_DATA_OFFSET]
          ELSE [fd_handle EXCEPT ![fd[t]].size = MODCHIP_APPS_ATTR_SIZE,
                                 ![fd[t]].offset = MODCHIP_APPS_ATTR_OFFSET]
    /\ iob' = [iob EXCEPT ![call[t].file].privdata = fd[t]]
    /\ Return(t, Done(0))
    /\ UNCHANGED damage

OpenLoadFails(t) ==
    /\ pc[t] = "load"
    /\ \/ /\ H(t).mode \in {"d", "a"}
          /\ FailOpen(t, "EIO")
          /\ \/ UNCHANGED <<fd_handle, damage>>
             \/ /\ ModchipDamaged
                /\ fd_handle' = IF H(t).mode = "d"
                      THEN [fd_handle EXCEPT ![fd[t]].size = Junk] ELSE fd_handle
       \/ /\ H(t).mode \notin {"d", "a"}
          /\ FailOpen(t, "ENOSYS")
          /\ UNCHANGED <<fd_handle, damage>>

\* Mutant: the size is not cleared.
CloseSized(t) ==
    /\ pc[t] = "close"
    /\ fd_handle' = [fd_handle EXCEPT ![fd[t]].idx = 0, ![fd[t]].offset = 0]
    /\ iob' = [iob EXCEPT ![call[t].file] = Unused]
    /\ Return(t, Done(0))
    /\ UNCHANGED damage

\* fwfs_close; then ioman frees the descriptor.
Close(t) ==
    /\ pc[t] = "close"
    /\ fd_handle' = [fd_handle EXCEPT ![fd[t]].idx = 0, ![fd[t]].size = 0,
                                      ![fd[t]].offset = 0]
    /\ iob' = [iob EXCEPT ![call[t].file] = Unused]
    /\ Return(t, Done(0))
    /\ UNCHANGED damage

\* fwfs_read: nothing behind the end, else what is left at most.
Bytes(h, len) == <<"read", <<h.mode, h.idx>>, Position(h), len>>

\* Mutant: what is left is taken for the whole file.
ReadBehind(t) ==
    /\ pc[t] = "read"
    /\ LET end == H(t).size + MODCHIP_APPS_DATA_OFFSET
           len == IF H(t).offset >= end THEN 0 ELSE Min({call[t].n, H(t).size})
       IN  /\ len > 0 => ModchipReads(H(t).idx)
           /\ fd_handle' = [fd_handle EXCEPT ![fd[t]].offset = @ + len]
           /\ Return(t, Bytes(H(t), len))
    /\ UNCHANGED <<iob, damage>>

Read(t) ==
    /\ pc[t] = "read"
    /\ LET end == H(t).size + MODCHIP_APPS_DATA_OFFSET
           len == IF H(t).offset >= end THEN 0
                  ELSE Min({call[t].n, end - H(t).offset})
       IN  /\ len > 0 => ModchipReads(H(t).idx)
           /\ fd_handle' = [fd_handle EXCEPT ![fd[t]].offset = @ + len]
           /\ Return(t, Bytes(H(t), len))
    /\ UNCHANGED <<iob, damage>>

ReadFails(t) ==
    /\ pc[t] = "read"
    /\ H(t).offset < H(t).size + MODCHIP_APPS_DATA_OFFSET
    /\ Return(t, Failed("EIO"))
    /\ UNCHANGED <<fd_handle, iob, damage>>

\* fwfs_lseek; the position that is returned is read after fs_unlock.
Seek(t) ==
    /\ pc[t] = "seek"
    /\ LET end == H(t).size + MODCHIP_APPS_DATA_OFFSET
           to  == CASE call[t].name = "SET" -> call[t].n + MODCHIP_APPS_DATA_OFFSET
                    [] call[t].name = "CUR" -> H(t).offset + call[t].n
                    [] call[t].name = "END" -> end - call[t].n
           pos == IF to < 0 THEN MODCHIP_APPS_DATA_OFFSET ELSE to
       IN  fd_handle' = [fd_handle EXCEPT ![fd[t]].offset = Min({pos, end})]
    /\ fwfs_sema' = "free"
    /\ pc' = [pc EXCEPT ![t] = "tell"]
    /\ UNCHANGED <<iob, call, fd, damage>>

Tell(t) ==
    /\ pc[t] = "tell"
    /\ call' = [call EXCEPT ![t] =
                  [answer |-> Done(H(t).offset - MODCHIP_APPS_DATA_OFFSET)]]
    /\ fd' = [fd EXCEPT ![t] = NULL]
    /\ pc' = [pc EXCEPT ![t] = "idle"]
    /\ UNCHANGED <<fd_handle, fwfs_sema, iob, damage>>

\* fwfs_getstat: the size in a handle for this app, or the modchip's answer.
Stat(t) ==
    /\ pc[t] = "stat"
    /\ LET idx == call[t].name[2]
           h   == get_file_handle_by_idx(idx)
       IN  \/ h # NULL /\ Return(t, Done(fd_handle[h].size))
           \/ h = NULL /\ ModchipReads(idx) /\ Return(t, Done(AppSize[idx]))
           \/ h = NULL /\ Return(t, Failed("EIO"))
    /\ UNCHANGED <<fd_handle, iob, damage>>

-----------------------------------------------------------------------------
\* fwfs_init
Init ==
    /\ fd_handle = [h \in Handles |-> [mode |-> "", idx |-> 0, size |-> 0, offset |-> 0]]
    /\ fwfs_sema = "free"
    /\ iob = [f \in Files |-> Unused]
    /\ pc = [t \in Threads |-> "idle"]
    /\ call = [t \in Threads |-> Start]
    /\ fd = [t \in Threads |-> NULL]
    /\ damage = 0

Step(t) ==
    \/ OpenFind(t) \/ OpenNone(t) \/ OpenLoad(t) \/ OpenLoadFails(t)
    \/ Close(t) \/ Read(t) \/ ReadFails(t) \/ Seek(t) \/ Tell(t) \/ Stat(t)

Next == \E t \in Threads : Call(t) \/ Lock(t) \/ Step(t)

Spec == Init /\ [][Next]_vars

\* A thread that has the semaphore goes on; the ones that wait for it are
\* queued by the kernel of the IOP.
FairSpec == Spec /\ \A t \in Threads : WF_vars(Step(t)) /\ SF_vars(Lock(t))

-----------------------------------------------------------------------------
(***************************************************************************)
(* Properties                                                              *)
(***************************************************************************)
Inside == {"open", "load", "close", "read", "seek", "stat"}

\* Types; a thread that has passed fs_lock has the semaphore, and one that has
\* come back from its call has given it back, whatever path it took.
TypeOK ==
    /\ \A h \in Handles :
          /\ fd_handle[h].mode \in {"", "a", "d", "x"}
          /\ {fd_handle[h].size, fd_handle[h].offset} \subseteq Nat
    /\ fwfs_sema \in Threads \cup {"free"}
    /\ \A t \in Threads : fwfs_sema = t <=> pc[t] \in Inside
    /\ \A f \in Files : /\ iob[f].by \in Threads \cup {"none"}
                        /\ iob[f].privdata \in Handles \cup {NULL}
    /\ fd \in [Threads -> Handles \cup {NULL}]
    /\ damage \in 0..MaxDamage

\* No two descriptors have the same handle, and the handle of an open file says
\* how long that file is: no open, close or lost answer of another thread has
\* taken or changed it (find_free_file_handle, fwfs_close).
HandlesOwned ==
    \A f \in Files : iob[f].privdata # NULL =>
        /\ \A g \in Files \ {f} : iob[g].privdata # iob[f].privdata
        /\ LET h == fd_handle[iob[f].privdata]
           IN  h.size = IF h.mode = "a" THEN MODCHIP_APPS_ATTR_SIZE
                                        ELSE AppSize[h.idx]

\* A handle that is in use and belongs to no file has been lost by fwfs_open to
\* a damaged answer: nothing else can use handles up.
Lost == {h \in Handles : fd_handle[h].size # 0
                            /\ \A f \in Files : iob[f].privdata # h}
HandlesGivenBack == Cardinality(Lost) <= damage

\* Each handle that is in use is that of exactly one file, or has been lost to
\* a damaged answer.
HandlesAccounted == HandlesOwned /\ HandlesGivenBack

\* A file and a call as the callers see them: a seek is answered when it has been
\* done, although its answer is read later.
FileSeen(f) ==
    IF iob[f].privdata = NULL THEN [by |-> "none"]
    ELSE LET h == fd_handle[iob[f].privdata]
         IN  [by |-> iob[f].by, name |-> <<h.mode, h.idx>>, pos |-> Position(h)]

CallSeen(t) ==
    IF pc[t] = "tell" THEN [answer |-> Done(Position(H(t)))] ELSE call[t]

FilesSeen == [f \in Files |-> FileSeen(f)]
CallsSeen == [t \in Threads |-> CallSeen(t)]

\* The file system is what FileService promises.
Service == INSTANCE FileService WITH
    AttrSize <- MODCHIP_APPS_ATTR_SIZE, files <- FilesSeen, io <- CallsSeen

ServesFiles == Service!Spec

\* Every call comes back.
CallsReturn == \A t \in Threads : (pc[t] # "idle") ~> (pc[t] = "idle")
=============================================================================
