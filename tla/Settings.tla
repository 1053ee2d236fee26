------------------------------ MODULE Settings ------------------------------
(***************************************************************************)
(* The settings of the modchip (fruitchip-fw/src/settings.c), kept by      *)
(* WearLeveling: a version magic and a few fields, set one at a time by    *)
(* the KV_SET command and read back with KV_GET.                           *)
(*                                                                         *)
(* The RAM copy settings_t equals the wear leveling cache from the end of  *)
(* settings_init on (each setter updates both before it returns), so cache *)
(* stands for both.                                                        *)
(***************************************************************************)
EXTENDS WearLeveling

CONSTANTS
    Fields,     \* menu_autoboot, menu_autoboot_delay_sec, ...
    First,      \* First[f], Last[f]: addresses of the bytes of a field
    Last,
    Values,     \* Values[f]: values the menu sets field f to
    MagicLen,   \* bytes of version_magic, at address 0
    Defaults,   \* the bytes settings_reset writes: magic and defaults
    ResetTears  \* can the chip restart while settings_reset writes the
                \* defaults, with the magic already in flash?

Field(f) == First[f]..Last[f]
Magic    == 0..(MagicLen - 1)
Of(f, bytes) == [a \in Field(f) |-> bytes[a]]

\* The magic ends in a byte that is not 0, and the fields lie behind it.
ASSUME SettingsAssumption ==
    /\ MagicLen \in 1..Size
    /\ Defaults \in Bytes
    /\ Defaults[MagicLen - 1] # 0
    /\ First \in [Fields -> MagicLen..(Size - 1)]
    /\ Last \in [Fields -> MagicLen..(Size - 1)]
    /\ \A f \in Fields : First[f] <= Last[f]
    /\ \A f \in Fields : Values[f] \subseteq [Field(f) -> Byte]
    /\ \A f, g \in Fields : f # g => Field(f) \cap Field(g) = {}
    /\ ResetTears \in BOOLEAN

\* A field of more than one byte is the delay, and AUTOBOOT_DELAY_MAX is 90:
\* its high byte is always 0.
ASSUME HighBytesAssumption ==
    \A f \in Fields : \A a \in Field(f) \ {First[f]} :
        /\ Defaults[a] = 0
        /\ \A v \in Values[f] : v[a] = 0

VARIABLE op    \* the call that runs: settings_init, settings_reset, a setter

vars == <<data, hash, log, cache, waddr, pc, pos, stop, op>>

Consolidating == {"erase_data", "erase_log", "program"}

TypeOK ==
    /\ WearLevelingType
    /\ pc \in {"off", "check", "append", "idle"} \cup Consolidating
    /\ op \in {"init", "reset", "set"}

MagicOk(bytes) == \A a \in Magic : bytes[a] = Defaults[a]

-----------------------------------------------------------------------------
\* A chip whose settings partition was never written.
Init ==
    /\ data = Zeros
    /\ hash = NoHash
    /\ log = [i \in Slots |-> Empty]
    /\ cache = Zeros
    /\ waddr = 0
    /\ pc = "off"
    /\ pos = 0
    /\ stop = 0
    /\ op = "init"

\* What follows a wear leveling call: settings_init goes on to look at the
\* magic, settings_reset and the setters are done.
Return == IF op = "init" THEN "check" ELSE "idle"

\* settings_init: wear_leveling_init.  None of its ways to fail exists on this
\* driver, whose operations all succeed.
Boot ==
    /\ pc = "off"
    /\ op' = "init"
    /\ InitCache("check")

\* settings_init: wear_leveling_read, and the magic is right.
Accept ==
    /\ pc = "check"
    /\ MagicOk(cache)
    /\ pc' = "idle"
    /\ UNCHANGED <<flash, cache, waddr, pos, stop, op>>

\* settings_init: settings_reset writes everything, the magic first.
Reset ==
    /\ pc = "check"
    /\ ~MagicOk(cache)
    /\ op' = "reset"
    /\ WriteBytes(0, Size - 1, Defaults)

\* A setter, called by KV_SET: nothing to do when the value is the same.
Set(f, v) ==
    /\ pc = "idle"
    /\ Of(f, cache) # v
    /\ op' = "set"
    /\ WriteBytes(First[f], Last[f], v)

\* The steps of the wear leveling library that are under way.
WearLevel ==
    /\ Append(Return) \/ EraseData \/ EraseLog \/ ProgramBatch \/ ProgramHash(Return)
    /\ UNCHANGED op

\* The log has the magic of settings_reset and not yet all of the defaults.
ResetTorn == /\ op = "reset"
             /\ pc \in {"append", "erase_data", "erase_log"}
             /\ pos >= MagicLen

\* Power is lost, or the watchdog reboots the chip.
Restart ==
    /\ pc # "off"
    /\ ResetTears \/ ~ResetTorn
    /\ pc' = "off"
    /\ op' = "init"
    /\ cache' = Zeros
    /\ waddr' = 0
    /\ pos' = 0
    /\ stop' = 0
    /\ UNCHANGED flash

Next ==
    \/ Boot
    \/ Accept
    \/ Reset
    \/ \E f \in Fields : \E v \in Values[f] : Set(f, v)
    \/ WearLevel
    \/ Restart

Spec == Init /\ [][Next]_vars

-----------------------------------------------------------------------------
\* "this log is played back on startup such that any subsequent reads are
\* capable of returning the latest data" (wear_leveling.c): when KV_SET has
\* answered, a restart at any time finds what KV_GET returns now.
Durable == pc = "idle" => Recovered = cache

\* write_address is where playback would put it: a log word is programmed
\* once between two erases, and never behind the partition (the apps are
\* there).
AppendFits == pc = "append" => waddr < LogSize /\ log[waddr] = Empty

\* "this is just after an erase, so we can write directly without reading"
\* (write_consolidated): the copy and its hash are programmed into erased
\* flash, whatever interrupted an earlier consolidation.
ProgramErased ==
    pc = "program" => /\ hash = NoHash
                      /\ \A a \in Addr : a >= pos => data[a] = 0
                      /\ \A i \in Slots : log[i] = Empty

\* The library never programs flash that is in use or not its own, at any word
\* of a write or a consolidation that an earlier one may have been cut before.
WritesErased == AppendFits /\ ProgramErased

\* "During this operation, there is the potential for data loss": a restart in
\* a consolidation finds all settings as they were, or no valid magic, and
\* then settings_init resets them all.  It never finds a mixture.
LossIsTotal ==
    (pc \in Consolidating /\ op # "reset" /\ MagicOk(Recovered))
        => Recovered = cache

\* The playback loop of the code computes the last write to each address.
PlaybackIsLastWrite == PlaybackLoop[LogSize] = Recovered

\* The settings as a restart finds them: those in flash, or, while the flash
\* is on its way to what the cache says, those in the cache.
Kept == IF pc \in Consolidating \cup {"check"} \/ op = "reset" THEN cache
                                                               ELSE Recovered
Stored == [f \in Fields |-> Of(f, IF MagicOk(Kept) THEN Kept ELSE Defaults)]

Store == INSTANCE SettingsStore
            WITH stored <- Stored,
                 Defaults <- [f \in Fields |-> Of(f, Defaults)]

\* The settings implement SettingsStore.
SettingsAtomic == Store!Spec
=============================================================================
