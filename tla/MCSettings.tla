----------------------------- MODULE MCSettings -----------------------------
(***************************************************************************)
(* Two bytes of magic, then menu_autoboot and its padding byte, then the   *)
(* two bytes of menu_autoboot_delay_sec: the kinds of bytes settings_t     *)
(* has, with a log that is shorter than settings_reset needs when it       *)
(* starts behind a few other entries.                                      *)
(***************************************************************************)
EXTENDS Settings

MCFields   == {"autoboot", "delay"}
MCFirst    == [f \in Fields |-> IF f = "autoboot" THEN 2 ELSE 4]
MCLast     == [f \in Fields |-> IF f = "autoboot" THEN 2 ELSE 5]
MCDefaults == [a \in Addr |-> CASE a = 0 -> 2
                                [] a = 1 -> 3
                                [] a = 2 -> 1
                                [] a = 4 -> 2
                                [] OTHER -> 0]
MCValues ==
    [f \in Fields |->
        IF f = "autoboot" THEN {[a \in {2} |-> v] : v \in {0, 1}}
        ELSE {[a \in 4..5 |-> IF a = 4 THEN v ELSE 0] : v \in 1..3}]
=============================================================================
