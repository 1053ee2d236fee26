----------------------------- MODULE FileService -----------------------------
(***************************************************************************)
(* What the file system of the modchip (fwfs) promises its callers on the  *)
(* IOP: every call is answered as if it were made alone, a file is read    *)
(* from its first byte to its last in the pieces that are asked for, files *)
(* that are open do not disturb each other, and they run out only when     *)
(* enough of them are open.  Reading may fail, the answer of the modchip   *)
(* being lost or damaged; the price of a damaged one is a handle.          *)
(***************************************************************************)
EXTENDS Integers, FiniteSets

CONSTANTS
    Threads,    \* callers
    Files,      \* file descriptors
    AppSize,    \* length of each app, by its index
    AttrSize,   \* length of an attribute
    MaxFiles,   \* files that can be open at a time
    Junk,       \* a length that was damaged
    Calls       \* what can be asked: [op, name, file, n]

VARIABLES
    files,   \* the name of each open file, and how far it has been read
    io,      \* each thread's call, or the answer to its last one
    damage   \* answers of the modchip that were damaged

Closed   == [by |-> "none"]
Done(n)  == <<"done", n>>
Failed(e) == <<"failed", e>>
Start    == [answer |-> Done(0)]

\* Behind an attribute comes the beginning of the app, up to the same length.
Length(name) == IF name[1] = "a" THEN 2 * AttrSize ELSE AppSize[name[2]]

Init ==
    /\ files = [f \in Files |-> Closed]
    /\ io = [t \in Threads |-> Start]
    /\ damage = 0

Ask(t, call) ==
    /\ "answer" \in DOMAIN io[t]
    /\ io' = [io EXCEPT ![t] = call]
    /\ UNCHANGED <<files, damage>>

Asks(t, op) == "op" \in DOMAIN io[t] /\ io[t].op = op
Answer(t, r) == io' = [io EXCEPT ![t] = [answer |-> r]]

\* Of a damaged answer, the length may be remembered: at most one handle each.
Fail(t) ==
    /\ "op" \in DOMAIN io[t]
    /\ \E e \in {"EIO", "ENOSYS"} : Answer(t, Failed(e))
    /\ damage' \in {damage, damage + 1}
    /\ UNCHANGED files

TooMany(t) ==
    /\ Asks(t, "open")
    /\ Cardinality({f \in Files : files[f] # Closed}) + damage >= MaxFiles
    /\ Answer(t, Failed("EMFILE"))
    /\ UNCHANGED <<files, damage>>

Open(t) ==
    /\ Asks(t, "open")
    /\ files[io[t].file] = Closed
    /\ io[t].name[2] \in DOMAIN AppSize
    /\ files' = [files EXCEPT ![io[t].file] =
                    [by |-> t, name |-> io[t].name, pos |-> 0]]
    /\ Answer(t, Done(0))
    /\ UNCHANGED damage

Close(t) ==
    /\ Asks(t, "close")
    /\ files[io[t].file].by = t
    /\ files' = [files EXCEPT ![io[t].file] = Closed]
    /\ Answer(t, Done(0))
    /\ UNCHANGED damage

\* The next n bytes, or what there is left.
Read(t) ==
    /\ Asks(t, "read")
    /\ LET f    == io[t].file
           left == Length(files[f].name) - files[f].pos
           len  == IF io[t].n < left THEN io[t].n ELSE left
       IN  /\ files[f].by = t
           /\ Answer(t, <<"read", files[f].name, files[f].pos, len>>)
           /\ files' = [files EXCEPT ![f].pos = @ + len]
    /\ UNCHANGED damage

\* To n bytes behind the first byte or the current one, or before the last, but
\* not out of the file; the answer is where that is.
Seek(t) ==
    /\ Asks(t, "seek")
    /\ LET f    == io[t].file
           size == Length(files[f].name)
           to   == CASE io[t].name = "SET" -> io[t].n
                     [] io[t].name = "CUR" -> files[f].pos + io[t].n
                     [] io[t].name = "END" -> size - io[t].n
           pos  == IF to < 0 THEN 0 ELSE IF to > size THEN size ELSE to
       IN  /\ files[f].by = t
           /\ files' = [files EXCEPT ![f].pos = pos]
           /\ Answer(t, Done(pos))
    /\ UNCHANGED damage

\* The length of an app, except that the length of its attribute is taken for
\* it while that is open, and anything may be once an answer was damaged.
Stat(t) ==
    /\ Asks(t, "stat")
    /\ LET app == io[t].name[2]
       IN  \/ app \in DOMAIN AppSize /\ Answer(t, Done(AppSize[app]))
           \/ /\ \E f \in Files : files[f] # Closed /\ files[f].name = <<"a", app>>
              /\ Answer(t, Done(AttrSize))
           \/ damage > 0 /\ Answer(t, Done(Junk))
    /\ UNCHANGED <<files, damage>>

Next ==
    \E t \in Threads :
        \/ \E call \in Calls : Ask(t, call)
        \/ Fail(t) \/ TooMany(t) \/ Open(t) \/ Close(t) \/ Read(t) \/ Seek(t)
        \/ Stat(t)

Spec == Init /\ [][Next]_<<files, io, damage>>
=============================================================================
