-------------------------------- MODULE Menu --------------------------------
(***************************************************************************)
(* The menu that runs on the console (fruitchip-menu): the stack of scenes *)
(* and their handlers, the boot list with the item of a USB drive, the     *)
(* autoboot countdown, the settings, and the scenes of an update.          *)
(*                                                                         *)
(* The main loop calls the handlers of the top scene in three phases; two  *)
(* interrupts change the same state between them: the alarm of the         *)
(* countdown and the event of a drive, which masswatch on the IOP sends.   *)
(* Drawing is left out, but not what paint handlers do besides it.         *)
(*                                                                         *)
(* Uploading itself is FwUpdate; commands to the modchip succeed or fail.  *)
(***************************************************************************)
EXTENDS UpdateFile, Integers, FiniteSets, SequencesExt

CONSTANTS
    AppAttr,        \* attributes of the apps in the apps partition, by index
    DelayMin, DelayMax, StepSmall, StepBig, DefaultDelay,
    WordSize,       \* 2^32: delays are u32
    PartitionSize,  \* of "FW", "FW_UPDATE" and "APPS"
    BoardPins,      \* PIN_CONFIG of the firmware that runs
    Users           \* bounds: the settings somebody has stored, the drives
                    \* and how often they are changed, the buttons and how
                    \* many presses, and the number of commands that fail

ASSUME MenuAssumption ==
    /\ AppAttr \in Seq(SUBSET {"DISABLE", "OSDSYS"})
    /\ {DelayMin, DelayMax, StepSmall, StepBig, WordSize} \subseteq Nat \ {0}
    /\ DelayMin < DelayMax /\ DelayMax + StepBig < WordSize
    /\ StepSmall <= StepBig
    /\ DefaultDelay \in DelayMin..DelayMax
    /\ PartitionSize \in [{"FW", "FW_UPDATE", "APPS"} -> Nat]
    /\ BoardPins \in [PinGroups -> SUBSET Nat]

Delays == DelayMin..DelayMax

\* scene_state.item_idx_osdsys_* in the order they are pushed
OptionItems == <<"skip_intro", "boot_browser", "skip_mc_update",
                 "skip_hdd_update">>

\* What the menu and the modchip keep: any index of an item, a delay in range.
Settings == [on : BOOLEAN, delay : Delays, item : Nat,
             options : SUBSET Range(OptionItems)]

\* A drive: whether it has RESCUE.ELF, and the files of an update by their type
Drives ==
    [rescue : BOOLEAN,
     files  : [{} -> UpdateFiles] \cup [{"fw"} -> UpdateFiles]
              \cup [{"apps"} -> UpdateFiles] \cup [{"fw", "apps"} -> UpdateFiles]]

ASSUME UsersAssumption ==
    Users \subseteq [stored : SUBSET Settings, drives : SUBSET Drives,
                    changes : Nat, faults : Nat, presses : Nat,
                    buttons : SUBSET STRING]

VARIABLES
    \* superscene.scenes, the texts of message.c, hilite_idx of every list
    scenes, messages, hilites,
    \* boot_list.items, boot_list_attr, rescue_item_idx
    items, attrs, rescue_item_idx,
    mass_event_received, repaint,
    phase,          \* of the main loop
    autoboot,       \* autoboot, autoboot_item_idx, autoboot_delay_sec
    countdown,      \* autoboot_countdown and its _sec and _alarm
    osdsys, opened, \* options now, and when their scene was opened
    unasked,        \* history: the menu has not asked for the options yet
    adjusting,      \* adjusting_autoboot_delay, needs_saving.autoboot_delay
    update_type,
    upload,         \* what scene_switch_to_update_writing was given
    stored, hook,   \* modchip: settings, disable_next_osdsys_hook
    running,        \* what the console runs
    drive, events,  \* drive that is plugged in, events on their way to the EE
    user,           \* what is left of the bounds
    \* History: an input has reached the boot list; a launch has come back;
    \* an event found nobody or was erased; settings whose last command failed
    touched, returned, missed, lost,
    presses         \* bound: changes of the buttons that are left

ui      == <<scenes, messages, hilites>>
list    == <<items, attrs, rescue_item_idx>>
options == <<osdsys, opened, unasked>>
update  == <<update_type, upload>>
chip    == <<stored, hook, lost>>
launch  == <<running, returned>>
inputs  == <<touched, presses>>
outside == <<drive, events, missed, mass_event_received>>
vars    == <<ui, list, options, update, chip, launch, outside, repaint, phase,
             autoboot, countdown, adjusting, user, inputs>>

-----------------------------------------------------------------------------
OSDSYS == <<"osdsys", 0>>
RESCUE == <<"rescue", 0>>
MENU   == <<"menu", 0>>
App(i) == <<"app", i>>

NumApps == Len(AppAttr)

NoDrive == [rescue |-> FALSE, files |-> <<>>]

\* Settings the menu reads and writes.
Keys == {"on", "delay", "item", "options"}

SettingsItems == <<"Autoboot", "Autoboot delay", "About">>
AboutItems    == <<"menu", "fw", "bootloader", "Update firmware", "Update apps">>
FoundItems    == <<"No", "Yes">>

ListScenes == {"boot_list", "boot_options", "settings", "about", "found"}

\* list_len
list_len(scene) ==
    CASE scene = "boot_list"    -> Len(items)
      [] scene = "boot_options" -> Len(OptionItems)
      [] scene = "settings"     -> Len(SettingsItems)
      [] scene = "about"        -> Len(AboutItems)
      [] scene = "found"        -> Len(FoundItems)

Top     == Last(scenes)
Covered == Front(scenes)   \* superscene_pop_scene

\* What a word can hold after a transfer that went wrong: an index of no item.
Garbled == 99

\* n commands or file operations fail.
Faults(n) ==
    /\ n <= user.faults
    /\ user' = [user EXCEPT !.faults = @ - n]

Texts == {"apps", "autoboot item", "settings", "fw version",
          "bootloader version", "update file", "write", "reboot"}

\* scene_switch_to_message on top of a stack
Message(stack, text) ==
    /\ scenes' = Append(stack, "message")
    /\ messages' = Append(messages, text)

\* modchip_settings_set, once: an answer that is lost leaves open whether the
\* value has been stored.
SettingStored(key, value) ==
    /\ stored' = [stored EXCEPT ![key] = value]
    /\ lost' = lost \ {key}
    /\ UNCHANGED user

SettingFailed(key, value) ==
    /\ Faults(1)
    /\ stored' \in {stored, [stored EXCEPT ![key] = value]}
    /\ lost' = lost \cup {key}

\* settings_set, then a message over the stack if it has failed
SaveOrTell(key, value, stack, text) ==
    \/ SettingStored(key, value) /\ UNCHANGED <<scenes, messages>>
    \/ SettingFailed(key, value) /\ Message(stack, text)

-----------------------------------------------------------------------------
(***************************************************************************)
(* Launching                                                               *)
(***************************************************************************)
\* Mutant: the first of the apps is taken for the rescue item.
FirstAppIsRescue(i) ==
    IF i = 0 THEN OSDSYS ELSE IF i = NumApps THEN RESCUE ELSE App(i)

\* boot_hilited_item decides by index alone.
ItemAt(i) ==
    IF i = 0 THEN OSDSYS ELSE IF i = rescue_item_idx THEN RESCUE ELSE App(i)

\* LoadELFFromFile finds something to load.
Exists(item) ==
    \/ item = OSDSYS
    \/ item = RESCUE /\ drive.rescue
    \/ item[1] = "app" /\ item[2] <= NumApps

\* Mutant: the hook is disabled for whatever is launched.
AsksAlways(i) == TRUE

\* Mutant: it never is.
AsksNever(i) == FALSE

\* DISABLE_NEXT_OSDSYS_HOOK is sent for OSDSYS and for apps with the
\* attribute; boot_rescue_elf does not look at its own.
Asks(i) ==
    LET item == ItemAt(i)
    IN  item = OSDSYS \/ (item[1] = "app" /\ "DISABLE" \in attrs[i + 1])

\* boot_osdsys, boot_fwfs, boot_rescue_elf: LoadELFFromFile comes back only if
\* it fails.
BootHilitedItem ==
    LET i == hilites["boot_list"]
    IN  \E commandFails \in (IF Asks(i) THEN BOOLEAN ELSE {FALSE}) :
        \E loadFails \in BOOLEAN :
            /\ Faults((IF commandFails THEN 1 ELSE 0)
                      + (IF loadFails THEN 1 ELSE 0))
            /\ hook' \in IF commandFails THEN {hook, TRUE}
                         ELSE {hook \/ Asks(i)}
            /\ IF Exists(ItemAt(i)) /\ ~loadFails
               THEN running' = ItemAt(i) /\ UNCHANGED returned
               ELSE returned' = TRUE /\ UNCHANGED running

-----------------------------------------------------------------------------
(***************************************************************************)
(* The boot list                                                           *)
(***************************************************************************)
\* app_read_attributes of an app: -ENOENT and -EIO are not negative as u32, so
\* they are kept as attributes (apps.c:97), -2 as OSDSYS, -5 as both.
AttrRead(i, ok) ==
    IF ok THEN {AppAttr[i]} ELSE {{"OSDSYS"}, {"OSDSYS", "DISABLE"}}

\* apps_list_populate has read the index: bad apps' attributes are not read.
ListPopulated(bad, itemFails) ==
    /\ items' = <<OSDSYS>> \o [i \in 1..NumApps |-> App(i)]
    /\ \E a \in [1..NumApps -> SUBSET {"DISABLE", "OSDSYS"}] :
          /\ \A i \in 1..NumApps : a[i] \in AttrRead(i, i \notin bad)
          /\ attrs' = <<{"DISABLE", "OSDSYS"}>> \o a
    /\ \E item \in IF itemFails THEN {autoboot.item, Garbled} ELSE {stored.item} :
          autoboot' = [autoboot EXCEPT !.item = item]
    /\ lost' = IF itemFails THEN lost \cup {"item"} ELSE lost
    /\ hilites' = [hilites EXCEPT !["boot_list"] =
                     IF ~itemFails /\ stored.item <= NumApps
                     THEN stored.item ELSE 0]

\* Mutant: the countdown is started without a look at the setting.
StartAlways(on) == TRUE

\* Nothing but the setting starts the countdown.
Starts(on) == on

\* scene_switch_to_boot_list on top of what is left of the stack
SwitchToBootList(stack) ==
    /\ \/ \E bad \in SUBSET (1..NumApps), itemFails \in BOOLEAN :
             /\ Faults(Cardinality(bad) + (IF itemFails THEN 1 ELSE 0))
             /\ ListPopulated(bad, itemFails)
             /\ scenes' = Append(stack, "boot_list")
             /\ countdown' = IF Starts(autoboot.on)
                             THEN [active |-> TRUE, sec |-> autoboot.delay,
                                   armed |-> TRUE]
                             ELSE countdown
             /\ UNCHANGED messages
       \/ /\ Faults(1)
          /\ items' = <<OSDSYS>>
          /\ attrs' = <<{"DISABLE", "OSDSYS"}>>
          /\ Message(Append(stack, "boot_list"), "apps")
          /\ hilites' = [hilites EXCEPT !["boot_list"] = 0]
          /\ lost' = lost \cup {"item"}
          /\ UNCHANGED <<countdown, autoboot>>
    /\ repaint' = TRUE
    /\ UNCHANGED <<rescue_item_idx, stored, hook, launch, options, update,
                   adjusting>>

\* autoboot_read_settings: a setting that cannot be read is off, or 5 seconds.
ReadSettings ==
    /\ phase = "main"
    /\ phase' = "start"
    /\ \E fails \in SUBSET {"on", "delay"} :
          /\ Faults(Cardinality(fails))
          /\ lost' = lost \cup fails
          /\ autoboot' = [autoboot EXCEPT
                !.on = stored.on /\ "on" \notin fails,
                !.delay = IF "delay" \in fails THEN DefaultDelay
                          ELSE stored.delay]
    /\ UNCHANGED <<ui, list, options, update, stored, hook, launch, outside,
                   repaint, countdown, adjusting, inputs>>

\* The first scene: the initialization screen if no pad is ready.
Start ==
    /\ phase = "start"
    /\ phase' = "tick"
    /\ \/ SwitchToBootList(<<>>)
       \/ /\ scenes' = <<"init">>
          /\ repaint' = TRUE
          /\ UNCHANGED <<messages, hilites, list, autoboot, chip, launch,
                         countdown, options, update, adjusting, user>>
    /\ UNCHANGED <<outside, inputs>>

\* scene_tick_handler_boot_list begins: RESCUE.ELF is looked for.
RefreshOpen ==
    /\ phase = "tick"
    /\ Top = "boot_list"
    /\ mass_event_received
    /\ phase' = IF drive.rescue THEN "add" ELSE "remove"
    /\ missed' = FALSE
    /\ UNCHANGED <<ui, list, options, update, chip, launch, drive, events,
                   mass_event_received, repaint, autoboot, countdown,
                   adjusting, user, inputs>>

\* Mutant: the attributes of a removed item stay.
RemoveItemOnly(idx) ==
    /\ items' = RemoveAt(items, idx + 1)
    /\ UNCHANGED attrs
    /\ hilites' = [hilites EXCEPT !["boot_list"] =
                     IF @ >= Len(items) - 1 THEN Len(items) - 2 ELSE @]

\* apps_list_remove_item; list_remove_item moves the hilite back into the list.
RemoveItem(idx) ==
    /\ items' = RemoveAt(items, idx + 1)
    /\ attrs' = RemoveAt(attrs, idx + 1)
    /\ hilites' = [hilites EXCEPT !["boot_list"] =
                     IF @ >= Len(items) - 1 THEN Len(items) - 2 ELSE @]

\* Mutant: mass_event_received is cleared without the item being added.
AddNothing == UNCHANGED <<items, attrs, rescue_item_idx, hilites>>

\* The file was there: an item is added, also if there is one.
AddItem ==
    /\ items' = Append(items, RESCUE)
    /\ attrs' = Append(attrs, {"DISABLE"})
    /\ rescue_item_idx' = Len(items)
    /\ UNCHANGED hilites

\* add_or_remove_rescue_elf goes on; an event that came after the open is
\* erased here.
RefreshFinish ==
    /\ \/ phase = "add" /\ AddItem
       \/ /\ phase = "remove"
          /\ rescue_item_idx # 0
          /\ RemoveItem(rescue_item_idx)
          /\ rescue_item_idx' = 0
       \/ phase = "remove" /\ rescue_item_idx = 0 /\ UNCHANGED <<list, hilites>>
    /\ mass_event_received' = FALSE
    /\ repaint' = TRUE
    /\ phase' = "input"
    /\ UNCHANGED <<scenes, messages, options, update, chip, launch, drive,
                   events, missed, autoboot, countdown, adjusting, user,
                   inputs>>

-----------------------------------------------------------------------------
(***************************************************************************)
(* Input handlers.  What they have in common (the phase, and the end of    *)
(* the countdown on the boot list) is in Input.                            *)
(***************************************************************************)
\* Mutant: UP does not wrap around.
MovedDownOnly(i, len, b) ==
    IF b = "UP" THEN i - 1 ELSE (IF i + 1 > len - 1 THEN 0 ELSE i + 1)

\* list_handle_input, and the same code in scene_input_handler_boot_list
Moved(i, len, b) ==
    IF b = "UP" THEN (IF i = 0 THEN len - 1 ELSE i - 1)
                ELSE (IF i + 1 > len - 1 THEN 0 ELSE i + 1)

Navigate(b) ==
    /\ b \in {"UP", "DOWN"}
    /\ Top \in ListScenes
    /\ ~(Top = "settings" /\ adjusting.on)
    /\ hilites' = [hilites EXCEPT ![Top] = Moved(@, list_len(Top), b)]
    /\ repaint' = TRUE
    /\ UNCHANGED <<scenes, messages, list, options, update, chip, launch,
                   autoboot, adjusting, user>>

BootListCross(b) ==
    /\ Top = "boot_list"
    /\ b = "CROSS"
    /\ BootHilitedItem
    /\ repaint' = TRUE
    /\ UNCHANGED <<ui, list, options, update, stored, lost, autoboot,
                   adjusting>>

\* set_autoboot_item_idx, if is_hilite_autobootable
BootListSquare(b) ==
    LET i == hilites["boot_list"]
    IN  /\ Top = "boot_list"
        /\ b = "SQUARE"
        /\ i # autoboot.item
        /\ ~(rescue_item_idx # 0 /\ i = rescue_item_idx)
        /\ SaveOrTell("item", i, scenes, "autoboot item")
        /\ autoboot' = IF scenes' = scenes THEN [autoboot EXCEPT !.item = i]
                       ELSE autoboot
        /\ repaint' = TRUE
        /\ UNCHANGED <<hilites, list, options, update, hook, launch, adjusting>>

\* scene_switch_to_options, if apps_attr_is_configurable
BootListTriangle(b) ==
    /\ Top = "boot_list"
    /\ b = "TRIANGLE"
    /\ "OSDSYS" \in attrs[hilites["boot_list"] + 1]
    /\ \/ /\ osdsys' = stored.options
          /\ lost' = lost \ {"options"}
          /\ UNCHANGED user
       \/ /\ Faults(1)
          /\ lost' = lost \cup {"options"}
          /\ osdsys' \in {osdsys, Range(OptionItems)}
    /\ opened' = osdsys'
    /\ unasked' = FALSE
    /\ scenes' = Append(scenes, "boot_options")
    /\ hilites' = [hilites EXCEPT !["boot_options"] = 0]
    /\ repaint' = TRUE
    /\ UNCHANGED <<messages, list, update, stored, hook, launch, autoboot,
                   adjusting>>

\* scene_switch_to_settings
BootListStart(b) ==
    /\ Top = "boot_list"
    /\ b = "START"
    /\ scenes' = Append(scenes, "settings")
    /\ repaint' = TRUE
    /\ UNCHANGED <<messages, hilites, list, options, update, chip, launch,
                   autoboot, adjusting, user>>

\* handle_toggle_option: the opening is skipped by booting into the browser
\* or by the option, not by both.
Toggled(o) ==
    IF o \in osdsys THEN osdsys \ {o}
    ELSE IF o = "skip_intro" THEN (osdsys \cup {o}) \ {"boot_browser"}
    ELSE IF o = "boot_browser" THEN (osdsys \cup {o}) \ {"skip_intro"}
    ELSE osdsys \cup {o}

OptionsCross(b) ==
    /\ Top = "boot_options"
    /\ b = "CROSS"
    /\ osdsys' = Toggled(OptionItems[hilites["boot_options"] + 1])
    /\ repaint' = TRUE
    /\ UNCHANGED <<ui, list, opened, unasked, update, chip, launch, autoboot,
                   adjusting, user>>

\* Mutant: pop_scene writes what the options were when the scene was opened.
ToSaveOpened == opened

\* What pop_scene of boot_options.c writes.
ToSave == osdsys

\* pop_scene of boot_options.c: nobody is told if the options are not saved.
OptionsCircle(b) ==
    /\ Top = "boot_options"
    /\ b = "CIRCLE"
    /\ \/ opened = osdsys /\ UNCHANGED <<stored, lost, user>>
       \/ opened # osdsys /\ SettingStored("options", ToSave)
       \/ opened # osdsys /\ SettingFailed("options", ToSave)
    /\ opened' = {}
    /\ scenes' = Covered
    /\ hilites' = [hilites EXCEPT !["boot_options"] = 0]
    /\ repaint' = TRUE
    /\ UNCHANGED <<messages, list, osdsys, unasked, update, hook, launch,
                   autoboot, adjusting>>

Clamp(n) == IF n > DelayMax THEN DelayMax ELSE IF n < DelayMin THEN DelayMin ELSE n

\* Mutant: what has wrapped below zero is not brought back into the range.
LessUnclamped(d, step) ==
    LET n == (d + WordSize - step) % WordSize
    IN  IF n < DelayMin THEN DelayMax ELSE n

\* -1 and -10: zero and what has wrapped below it become the longest delay.
Less(d, step) ==
    LET n == (d + WordSize - step) % WordSize
    IN  Clamp(IF n < DelayMin THEN DelayMax ELSE n)

\* +1 and +10
More(d, step) ==
    LET n == (d + step) % WordSize
    IN  IF n > DelayMax THEN DelayMin ELSE n

\* The four arrows while adjusting_autoboot_delay.
SettingsAdjust(b) ==
    /\ Top = "settings"
    /\ adjusting.on
    /\ b \in {"UP", "DOWN", "RIGHT", "LEFT"}
    /\ autoboot' = [autoboot EXCEPT !.delay =
          CASE b = "UP"    -> More(@, StepSmall)
            [] b = "RIGHT" -> More(@, StepBig)
            [] b = "DOWN"  -> Less(@, StepSmall)
            [] b = "LEFT"  -> Less(@, StepBig)]
    /\ adjusting' = [on |-> TRUE, dirty |-> TRUE]
    /\ repaint' = TRUE
    /\ UNCHANGED <<ui, list, options, update, chip, launch, user>>

\* CIRCLE ends the adjustment and saves it, or leaves the scene.
SettingsCircle(b) ==
    /\ Top = "settings"
    /\ b = "CIRCLE"
    /\ IF adjusting.on
       THEN /\ IF adjusting.dirty
               THEN SaveOrTell("delay", autoboot.delay, scenes, "settings")
               ELSE UNCHANGED <<scenes, messages, stored, lost, user>>
            /\ UNCHANGED hilites
       ELSE /\ scenes' = Covered
            /\ hilites' = [hilites EXCEPT !["settings"] = 0]
            /\ UNCHANGED <<messages, stored, lost, user>>
    /\ adjusting' = [on |-> FALSE, dirty |-> FALSE]
    /\ repaint' = TRUE
    /\ UNCHANGED <<list, options, update, hook, launch, autoboot>>

\* CROSS on the first item: autoboot is turned on or off and saved at once.
SettingsToggle(b) ==
    /\ Top = "settings"
    /\ ~adjusting.on
    /\ b = "CROSS"
    /\ SettingsItems[hilites["settings"] + 1] = "Autoboot"
    /\ autoboot' = [autoboot EXCEPT !.on = ~@]
    /\ SaveOrTell("on", ~autoboot.on, scenes, "settings")
    /\ repaint' = TRUE
    /\ UNCHANGED <<hilites, list, options, update, hook, launch, adjusting>>

\* CROSS on the second item
SettingsStartAdjusting(b) ==
    /\ Top = "settings"
    /\ ~adjusting.on
    /\ b = "CROSS"
    /\ SettingsItems[hilites["settings"] + 1] = "Autoboot delay"
    /\ adjusting' = [adjusting EXCEPT !.on = TRUE]
    /\ repaint' = TRUE
    /\ UNCHANGED <<ui, list, options, update, chip, launch, autoboot, user>>

\* scene_switch_to_settings_about: a message for each version that cannot be
\* read comes on top.
SwitchToAbout(stack) ==
    \E texts \in {<<>>, <<"fw version">>, <<"bootloader version">>,
                  <<"fw version", "bootloader version">>} :
        /\ Faults(Len(texts))
        /\ scenes' = stack \o <<"about">> \o [i \in DOMAIN texts |-> "message"]
        /\ messages' = messages \o texts

SettingsAbout(b) ==
    /\ Top = "settings"
    /\ ~adjusting.on
    /\ b = "CROSS"
    /\ SettingsItems[hilites["settings"] + 1] = "About"
    /\ SwitchToAbout(scenes)
    /\ repaint' = TRUE
    /\ UNCHANGED <<hilites, list, options, update, chip, launch, autoboot,
                   adjusting>>

AboutCircle(b) ==
    /\ Top = "about"
    /\ b = "CIRCLE"
    /\ scenes' = Covered
    /\ hilites' = [hilites EXCEPT !["about"] = 0]
    /\ repaint' = TRUE
    /\ UNCHANGED <<messages, list, options, update, chip, launch, autoboot,
                   adjusting, user>>

AboutCross(b) ==
    /\ Top = "about"
    /\ b = "CROSS"
    /\ \/ /\ AboutItems[hilites["about"] + 1] = "Update firmware"
          /\ update_type' = "fw"
       \/ /\ AboutItems[hilites["about"] + 1] = "Update apps"
          /\ update_type' = "apps"
    /\ scenes' = Append(scenes, "scanning")
    /\ repaint' = TRUE
    /\ UNCHANGED <<messages, hilites, list, options, upload, chip, launch,
                   autoboot, adjusting, user>>

\* not_found.c: return, or scan again
NotFoundInput(b) ==
    /\ Top = "not_found"
    /\ \/ b = "CIRCLE" /\ scenes' = Covered
       \/ b = "CROSS" /\ scenes' = Append(Covered, "scanning")
    /\ repaint' = TRUE
    /\ UNCHANGED <<messages, hilites, list, options, update, chip, launch,
                   autoboot, adjusting, user>>

\* found.c: only Yes goes on
FoundInput(b) ==
    /\ Top = "found"
    /\ \/ b = "CIRCLE" /\ scenes' = Covered
       \/ /\ b = "CROSS"
          /\ scenes' = IF FoundItems[hilites["found"] + 1] = "Yes"
                       THEN Append(Covered, "checking")
                       ELSE Covered
    /\ hilites' = [hilites EXCEPT !["found"] = 0]
    /\ repaint' = TRUE
    /\ UNCHANGED <<messages, list, options, update, chip, launch, autoboot,
                   adjusting, user>>

\* Mutant: only the scene itself is popped.
BelowCompleteKeepsAbout == Covered

\* complete.c pops itself and the About scene below.
BelowComplete == Front(Covered)

CompleteCircle(b) ==
    /\ Top = "complete"
    /\ b = "CIRCLE"
    /\ SwitchToAbout(BelowComplete)
    /\ repaint' = TRUE
    /\ UNCHANGED <<hilites, list, options, update, chip, launch, autoboot,
                   adjusting>>

MessageCircle(b) ==
    /\ Top = "message"
    /\ b = "CIRCLE"
    /\ scenes' = Covered
    /\ messages' = Front(messages)
    /\ repaint' = TRUE
    /\ UNCHANGED <<hilites, list, options, update, chip, launch, autoboot,
                   adjusting, user>>

\* A button is released, or the scene has no use for it.
OtherInput(b) ==
    /\ b = "none"
    /\ repaint' = (repaint \/ (Top = "boot_list" /\ countdown.active))
    /\ UNCHANGED <<ui, list, options, update, chip, launch, autoboot,
                   adjusting, user>>

Handle(b) ==
    \/ Navigate(b)
    \/ BootListCross(b)
    \/ BootListSquare(b)
    \/ BootListTriangle(b)
    \/ BootListStart(b)
    \/ OptionsCross(b)
    \/ OptionsCircle(b)
    \/ SettingsAdjust(b)
    \/ SettingsCircle(b)
    \/ SettingsToggle(b)
    \/ SettingsStartAdjusting(b)
    \/ SettingsAbout(b)
    \/ AboutCircle(b)
    \/ AboutCross(b)
    \/ NotFoundInput(b)
    \/ FoundInput(b)
    \/ CompleteCircle(b)
    \/ MessageCircle(b)
    \/ OtherInput(b)

\* Mutant: an input leaves the countdown running.
KeepCountdown == countdown

\* Any change of the buttons ends it, a release as well.
EndCountdown == [countdown EXCEPT !.active = FALSE]

\* input != prevInput: the top scene gets it.
Input(b) ==
    /\ phase = "input"
    /\ phase' = "paint"
    /\ presses > 0
    /\ presses' = presses - 1
    /\ Handle(b)
    /\ IF Top = "boot_list"
       THEN countdown' = EndCountdown /\ touched' = TRUE
       ELSE UNCHANGED <<countdown, touched>>
    /\ UNCHANGED outside

\* The buttons are as they were.
NoInput ==
    /\ phase = "input"
    /\ phase' = "paint"
    /\ UNCHANGED <<ui, list, options, update, chip, launch, outside, repaint,
                   autoboot, countdown, adjusting, user, inputs>>

-----------------------------------------------------------------------------
(***************************************************************************)
(* Ticks of the scenes of an update                                        *)
(***************************************************************************)
\* pop_scene_and_show_message
GiveUp(text) == Message(Covered, text) /\ UNCHANGED hilites

\* update_file_is_present
ScanningTick ==
    /\ Top = "scanning"
    /\ \/ /\ update_type \in DOMAIN drive.files
          /\ scenes' = Append(Covered, "found")
          /\ hilites' = [hilites EXCEPT !["found"] = 0]
       \/ /\ update_type \notin DOMAIN drive.files
          /\ scenes' = Append(Covered, "not_found")
          /\ UNCHANGED hilites
    /\ UNCHANGED <<messages, update, user>>

\* Mutant: an update may be as large as it likes.
FitsAnything(unread) == TRUE

\* modchip_get_partition_size of three partitions.  Only whether the last one
\* has failed is looked at (checking.c:111): a size that was not read is what
\* happens to be in memory, and may let everything pass.
FitsPartitions(unread) ==
    Fits(update_type, UpdateSize(drive.files[update_type]),
         Restrict(PartitionSize, DOMAIN PartitionSize \ unread))

\* The file is read, the sizes and for firmware the pins are asked for, and
\* all of it is in order.  Each failed query counts as a fault.
CheckPassed ==
    /\ update_type \in DOMAIN drive.files
    /\ ReadsWell(drive.files[update_type])
    /\ \E unread \in SUBSET {"FW", "FW_UPDATE"} :
          /\ FitsPartitions(unread)
          /\ Faults(Cardinality(unread))
          /\ upload' = [type |-> update_type,
                        file |-> drive.files[update_type],
                        guessed |-> unread # {}]
    /\ update_type = "fw" => ~PinsDiffer(BoardPins, drive.files["fw"].pins)
    /\ scenes' = Append(Covered, "writing")
    /\ UNCHANGED <<messages, hilites>>

\* Any check that fails ends in a message: the file is gone or cannot be read,
\* something is wrong with it, or the modchip does not answer.
CheckFailed ==
    /\ GiveUp("update file")
    /\ \/ Faults(1)
       \/ update_type \notin DOMAIN drive.files /\ UNCHANGED user
       \/ /\ update_type \in DOMAIN drive.files
          /\ \/ ~ReadsWell(drive.files[update_type])
             \/ ~FitsPartitions({})
             \/ /\ update_type = "fw"
                /\ PinsDiffer(BoardPins, drive.files["fw"].pins)
          /\ UNCHANGED user
    /\ UNCHANGED upload

CheckingTick ==
    /\ Top = "checking"
    /\ CheckPassed \/ CheckFailed
    /\ UNCHANGED update_type

NoUpload == [type |-> "none", file |-> [blocks |-> <<>>], guessed |-> FALSE]

\* The upload, which is FwUpdate: it is done or it has failed.  The buffer is
\* not used again.
WritingTick ==
    /\ Top = "writing"
    /\ upload' = NoUpload
    /\ \/ scenes' = Append(Covered, "rebooting") /\ UNCHANGED <<messages, hilites, user>>
       \/ Faults(1) /\ GiveUp("write")
    /\ UNCHANGED update_type

\* The command fails, or the modchip does not answer within 30 seconds.
RebootingTick ==
    /\ Top = "rebooting"
    /\ \/ scenes' = Append(Covered, "complete") /\ UNCHANGED <<messages, hilites, user>>
       \/ Faults(1) /\ GiveUp("reboot")
    /\ UNCHANGED update

UpdateTick == ScanningTick \/ CheckingTick \/ WritingTick \/ RebootingTick

HasUpdateTick == Top \in {"scanning", "checking", "writing", "rebooting"}

Tick ==
    /\ phase = "tick"
    /\ phase' = "input"
    /\ \/ UpdateTick /\ repaint' = TRUE
       \/ /\ ~HasUpdateTick
          /\ ~(Top = "boot_list" /\ mass_event_received)
          /\ UNCHANGED <<ui, update, user, repaint>>
    /\ UNCHANGED <<list, options, chip, launch, outside, autoboot, countdown,
                   adjusting, inputs>>

-----------------------------------------------------------------------------
(***************************************************************************)
(* Painting                                                                *)
(***************************************************************************)
\* scene_paint_handler_startup: on to the boot list, or paint again
PaintInit ==
    /\ Top = "init"
    /\ \/ SwitchToBootList(Covered)
       \/ /\ repaint' = TRUE
          /\ UNCHANGED <<ui, list, options, update, chip, launch, autoboot,
                         countdown, adjusting, user>>

\* handle_autoboot_countdown launches when no second is left.
PaintBootList ==
    /\ Top = "boot_list"
    /\ countdown.active
    /\ countdown.sec = 0
    /\ BootHilitedItem
    /\ repaint' = FALSE
    /\ UNCHANGED <<ui, list, options, update, stored, lost, autoboot,
                   countdown, adjusting>>

\* The other paint handlers only draw.
PaintOther ==
    /\ Top # "init"
    /\ ~(Top = "boot_list" /\ countdown.active /\ countdown.sec = 0)
    /\ repaint' = FALSE
    /\ UNCHANGED <<ui, list, options, update, chip, launch, autoboot,
                   countdown, adjusting, user>>

Paint ==
    /\ phase = "paint"
    /\ phase' = "tick"
    /\ \/ repaint /\ (PaintInit \/ PaintBootList \/ PaintOther)
       \/ /\ ~repaint
          /\ UNCHANGED <<ui, list, options, update, chip, launch, repaint,
                         autoboot, countdown, adjusting, user>>
    /\ UNCHANGED <<outside, inputs>>

-----------------------------------------------------------------------------
(***************************************************************************)
(* Interrupts, and the world outside                                       *)
(***************************************************************************)
\* Mutant: the alarm is not set again.
RearmNever(sec) == FALSE

\* A next second is wanted.
Rearm(sec) == countdown.active /\ sec # 0

\* update_autoboot_countdown
Alarm ==
    /\ countdown.armed
    /\ LET sec == IF countdown.sec # 0 THEN countdown.sec - 1 ELSE 0
       IN  countdown' = [countdown EXCEPT !.sec = sec, !.armed = Rearm(sec)]
    /\ repaint' = TRUE
    /\ UNCHANGED <<ui, list, options, update, chip, launch, outside, phase,
                   autoboot, adjusting, user, inputs>>

\* masswatch_set_connect_callback has been called.
Registered == scenes # <<>> /\ scenes[1] # "init"

\* The event of masswatch reaches the EE: mass_connected_handler does not look
\* which one it is.  It finds no callback, or add_or_remove_rescue_elf in the
\* middle, which will erase it.
MountEvent ==
    /\ events > 0
    /\ events' = events - 1
    /\ IF Registered
       THEN /\ mass_event_received' = TRUE
            /\ missed' = (missed \/ phase \in {"add", "remove"})
       ELSE missed' = TRUE /\ UNCHANGED mass_event_received
    /\ UNCHANGED <<ui, list, options, update, chip, launch, drive, repaint,
                   phase, autoboot, countdown, adjusting, user, inputs>>

\* A drive is plugged in or pulled out, and bdm_callback sends an event.
ChangeDrive ==
    /\ user.changes > 0
    /\ user' = [user EXCEPT !.changes = @ - 1]
    /\ drive' \in IF drive = NoDrive THEN user.drives ELSE {NoDrive}
    /\ events' = events + 1
    /\ UNCHANGED <<ui, list, options, update, chip, launch, missed,
                   mass_event_received, repaint, phase, autoboot, countdown,
                   adjusting, inputs>>

-----------------------------------------------------------------------------
\* main: memory is zero, since the loader has cleared it and nothing else uses
\* the heap before.  A drive that was there before has been announced to nobody.
Init ==
    /\ scenes = <<>>
    /\ messages = <<>>
    /\ hilites = [s \in ListScenes |-> 0]
    /\ items = <<>>
    /\ attrs = <<>>
    /\ rescue_item_idx = 0
    /\ mass_event_received = FALSE
    /\ repaint = FALSE
    /\ phase = "main"
    /\ autoboot = [on |-> FALSE, item |-> 0, delay |-> DefaultDelay]
    /\ countdown = [active |-> FALSE, sec |-> 0, armed |-> FALSE]
    /\ osdsys = {}
    /\ opened = {}
    /\ unasked = TRUE
    /\ adjusting = [on |-> FALSE, dirty |-> FALSE]
    /\ update_type = "fw"
    /\ upload = NoUpload
    /\ hook = FALSE
    /\ running = MENU
    /\ user \in Users
    /\ presses = user.presses
    /\ stored \in user.stored
    /\ drive \in user.drives \cup {NoDrive}
    /\ events = 0
    /\ touched = FALSE
    /\ returned = FALSE
    /\ missed = (drive # NoDrive)
    /\ lost = {}

Loop ==
    \/ ReadSettings
    \/ Start
    \/ RefreshOpen
    \/ RefreshFinish
    \/ Tick
    \/ \E b \in user.buttons : Input(b)
    \/ NoInput
    \/ Paint

\* Once something is launched, the menu is gone.
Next ==
    /\ running = MENU
    /\ \/ Loop
       \/ Alarm
       \/ MountEvent
       \/ ChangeDrive

Spec == Init /\ [][Next]_vars
-----------------------------------------------------------------------------
(***************************************************************************)
(* Properties                                                              *)
(***************************************************************************)
UpdateScenes == {"scanning", "found", "not_found", "checking", "writing",
                 "rebooting", "complete"}

\* The variables keep within their types; the delay, an u32 that is decremented
\* before it is compared, stays in its range (settings.c:110-164), so the
\* countdown never starts at zero or wraps.
TypeOK ==
    /\ scenes \in Seq(ListScenes \cup UpdateScenes \cup {"init", "message"})
    /\ messages \in Seq(Texts)
    /\ hilites \in [ListScenes -> Nat]
    /\ items \in Seq({OSDSYS, RESCUE} \cup {App(i) : i \in 1..NumApps})
    /\ attrs \in Seq(SUBSET {"DISABLE", "OSDSYS"})
    /\ rescue_item_idx \in Nat
    /\ {mass_event_received, repaint, unasked, hook, touched, returned, missed}
           \subseteq BOOLEAN
    /\ phase \in {"main", "start", "tick", "add", "remove", "input", "paint"}
    /\ autoboot \in [on : BOOLEAN, item : Nat, delay : Nat]
    /\ countdown \in [active : BOOLEAN, sec : Nat, armed : BOOLEAN]
    /\ {osdsys, opened} \subseteq SUBSET Range(OptionItems)
    /\ adjusting \in [on : BOOLEAN, dirty : BOOLEAN]
    /\ update_type \in {"fw", "apps"}
    /\ stored \in Settings
    /\ lost \subseteq Keys
    /\ running \in {MENU, OSDSYS, RESCUE} \cup {App(i) : i \in 1..NumApps}
    /\ events \in Nat
    /\ phase # "main" => autoboot.delay \in Delays
    /\ countdown.sec <= DelayMax
    /\ user.changes \in Nat /\ user.faults \in Nat /\ presses \in Nat

\* The list, its attributes and the hilites fit together through every change
\* of the list (apps.c:120-131, list.c:158-166): each item has attributes of its
\* own, the apps stay where their index in the partition says, and every hilite
\* is an item of its list.
ListConsistent ==
    /\ Len(attrs) = Len(items)
    /\ \A i \in DOMAIN items :
          /\ items[i] = RESCUE => attrs[i] = {"DISABLE"}
          /\ items[i] # RESCUE => items[i] = (IF i = 1 THEN OSDSYS ELSE App(i - 1))
    /\ rescue_item_idx # 0 => items[rescue_item_idx + 1] = RESCUE
    /\ Registered => \A s \in ListScenes : hilites[s] < list_len(s)

UnderMessages ==
    LET settings == <<"boot_list", "settings">>
        about    == Append(settings, "about")
    IN  {<<"init">>, <<"boot_list">>, <<"boot_list", "boot_options">>,
         settings, about} \cup {Append(about, s) : s \in UpdateScenes}

\* Scenes are pushed and popped by hand in a dozen files; whatever happens, the
\* stack is a path from the boot list down to one scene of an update, with the
\* pending messages on top, and no scene is there twice (complete.c:12-14,
\* pop_scene_and_show_message).
StackShape ==
    phase \notin {"main", "start"} =>
        \E path \in UnderMessages :
            scenes = path \o [i \in DOMAIN messages |-> "message"]

\* Once every event has been handled, and none was dropped or erased, there is
\* a rescue item exactly if the drive has RESCUE.ELF (boot_list.c:91-124).
RescueListed ==
    /\ Registered /\ events = 0 /\ ~mass_event_received /\ ~missed
    /\ phase \notin {"add", "remove"}
    => (rescue_item_idx # 0) = drive.rescue

\* The data structures of the menu are in order: its list, its stack of scenes,
\* and the rescue item, which goes with the drive.
MenuInv == TypeOK /\ ListConsistent /\ StackShape /\ RescueListed

\* What the menu shows and acts on.
Shown(key) ==
    CASE key = "on"      -> autoboot.on
      [] key = "delay"   -> autoboot.delay
      [] key = "item"    -> autoboot.item
      [] key = "options" -> osdsys

Edited == (IF adjusting.dirty THEN {"delay"} ELSE {})
          \cup (IF Contains(scenes, "boot_options") THEN {"options"} ELSE {})
          \cup (IF Registered THEN {} ELSE {"item"})

\* A setting is what the modchip has stored, unless it is being edited, the
\* last command about it has failed (settings.c:33-50, boot_options.c:33-47,
\* boot_list.c:167-180), or the menu has never asked for it.  The last is so
\* with the options: main.c:30-41 does not read them, only boot_options.c:140
\* does.  Until their scene is opened none of them is on, whatever is stored,
\* and OSDSYS is launched with none (boot_list.c:39-42, 62-65).
SavedIsShown ==
    phase # "main" =>
        /\ \A key \in Keys \ (lost \cup Edited) :
              (key = "options" /\ unasked) \/ Shown(key) = stored[key]
        /\ unasked => osdsys = {}

\* The countdown runs on an untouched boot list that is alone on the stack: it
\* can launch nothing from below another scene (boot_list.c:184-188, 304-335).
CountdownAlone ==
    countdown.active => scenes = <<"boot_list">> /\ ~touched

\* Every block goes to where its address says, counted from the first one.
InPlace(blocks) ==
    \A i \in DOMAIN blocks :
        blocks[i].addr = (blocks[1].addr + (i - 1) * BlockSize) % AddrSpace

\* The upload has passed the checks.
Checked ==
    LET blocks == upload.file.blocks
        size   == Len(blocks) * BlockSize
    IN  /\ upload.type = update_type
        /\ \A i \in DOMAIN blocks : blocks[i].family \in {"none", "rp2040"}
        /\ (\A i \in DOMAIN blocks : blocks[i].addr # 0) => InPlace(blocks)
        /\ upload.type = "apps" => size <= PartitionSize["APPS"]
        /\ upload.type = "fw" /\ ~upload.guessed =>
              size <= PartitionSize["FW"] /\ size <= PartitionSize["FW_UPDATE"]
        /\ upload.type = "fw" =>
              \/ \E g \in PinGroups : upload.file.pins[g] = {}
              \/ UNION Range(upload.file.pins) = UNION Range(BoardPins)

\* What is about to be written over the firmware or the apps is an image for
\* this chip and board, whole, in place and within its partition, even if the
\* drive was changed in between (checking.c:25-190).  Two holes of the code are
\* stated: a block at address 0 ends the test of the next one, and of the sizes
\* only the last query is looked at.
WritesWhatWasChecked ==
    (scenes # <<>> /\ Top = "writing") => Checked

\* What starts is the item that is hilited on the screen, although items come
\* and go with the drive and boot_hilited_item goes by index alone
\* (boot_list.c:130-146).
Hilited == running' = items[hilites["boot_list"] + 1]

\* A hole of the code: a second event of the same drive adds a second rescue
\* item, and the first is forgotten (boot_list.c:104-108).  Launched, it is
\* taken for the app of its index, which is there if the list of apps could not
\* be read.
TakenForApp ==
    LET i == hilites["boot_list"]
    IN  /\ items[i + 1] = RESCUE /\ i # rescue_item_idx
        /\ \A j \in DOMAIN items : items[j] \in {OSDSYS, RESCUE}
        /\ phase = "input"
        /\ running' = App(i)

\* Without an input only what the user has saved for autoboot starts, and only
\* if autoboot is on; OSDSYS if the saved index is not that of an app or could
\* not be read.  Drives that come and go during the countdown make no difference
\* (apps.c:110-113, boot_list.c:231-251).
AutobootAsSaved ==
    phase = "paint" =>
        /\ ~touched
        /\ stored.on
        /\ running' = IF "item" \notin lost /\ stored.item \in 1..NumApps
                      THEN App(stored.item) ELSE OSDSYS

\* The OSDSYS hook is disabled exactly if what starts asks for that by the
\* attributes the menu has of it (boot_list.c:33-77): else the modchip would
\* miss the next start of OSDSYS, or hook one it should not.  Three cases in
\* which the code does not see to it:
\*   - the command failed each time, which is ignored (boot_list.c:35, 57);
\*   - RESCUE.ELF, which boot_rescue_elf starts without a look at the attribute
\*     it was listed with (boot_list.c:72-77, 105);
\*   - an earlier launch has come back, whose hook stays disabled.
\* Of a step that launches, DISABLE_NEXT_OSDSYS_HOOK is the only command, so it
\* has failed if a fault was used up.
HookAsAsked ==
    LET asks   == /\ running' # RESCUE
                  /\ "DISABLE" \in attrs[hilites["boot_list"] + 1]
        failed == user'.faults # user.faults
    IN  /\ hook' /\ ~asks => returned
        /\ asks /\ ~hook' => failed

\* The menu leaves for what is hilited, or for what is saved if nobody touched
\* it, and with the hook of the modchip as that item asks.
LaunchesAsAsked ==
    [][running' # running =>
          /\ (Hilited /\ AutobootAsSaved) \/ TakenForApp
          /\ HookAsAsked]_vars

\* The main loop goes round (it never blocks on anything but the vsync), the
\* alarm of a timer goes off, and a message of masswatch arrives.  Every step of
\* the loop changes phase, so the first conjunct is WF_vars(Loop), which TLC
\* evaluates faster this way.
FairSpec ==
    /\ Spec
    /\ []<>(running # MENU) \/ []<><<phase' # phase>>_vars
    /\ WF_vars(Alarm)
    /\ WF_vars(MountEvent)

\* A countdown comes to its end: something is launched, the launch fails, or
\* the user stops it (boot_list.c:281-302: the alarm has to be set again each
\* second from its own handler, while the loop may stop the countdown).
CountdownEnds ==
    countdown.active ~> (running # MENU \/ returned \/ ~countdown.active)

\* If the boot list stays on the screen and no event is lost, it comes to show
\* the rescue item exactly if it is there.
ListCatchesUp ==
    <>[](running = MENU /\ scenes = <<"boot_list">> /\ ~missed)
    => <>[]((rescue_item_idx # 0) = drive.rescue)
=============================================================================
