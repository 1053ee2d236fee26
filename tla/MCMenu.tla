------------------------------- MODULE MCMenu -------------------------------
(***************************************************************************)
(* A small menu: one app, delays of 1 to 3 seconds with a big step of 2,   *)
(* and words of 16, so that a delay can wrap below zero.                   *)
(***************************************************************************)
EXTENDS Menu

MCAppAttr       == <<{"OSDSYS"}>>
MCPartitionSize == [FW |-> 3, FW_UPDATE |-> 2, APPS |-> 3]
MCBoardPins     == [data |-> {1, 2}, ce |-> {3}, oe |-> {4}, rst |-> {5}]

Block(addr) == [magic |-> TRUE, family |-> "rp2040", payload |-> 1, addr |-> addr]
File(addrs) == [blocks |-> [i \in DOMAIN addrs |-> Block(addrs[i])],
                whole  |-> TRUE, pins |-> MCBoardPins]

OtherPins   == [File(<<1>>) EXCEPT !.pins["rst"] = {6}]
UnknownPins == [File(<<1>>) EXCEPT !.pins["rst"] = {}]
OtherFamily == [File(<<1, 2>>) EXCEPT !.blocks[2].family = "other"]

Drive(rescue, files) == [rescue |-> rescue, files |-> files]

\* Files that are in order, out of order, too large for one or both of the
\* partitions, not for this chip and not for this board.
FwFiles   == {File(a) : a \in {<<1, 2>>, <<2, 1>>, <<15, 0>>, <<0, 7>>, <<1, 2, 3>>}}
             \cup {OtherPins, UnknownPins, OtherFamily}
AppsFiles == {File(a) : a \in {<<1, 2, 3>>, <<1, 2, 3, 4>>}}

RescueDrive  == [rescue |-> TRUE, files |-> <<>>]
UpdateDrives == {[rescue |-> FALSE, files |-> [fw |-> f]] : f \in FwFiles}
                \cup {[rescue |-> FALSE, files |-> [apps |-> f]] : f \in AppsFiles}

Stored(on, item) == [on |-> on, delay |-> 2, item |-> item, options |-> {"skip_intro"}]

\* Users of the boot list, of the boot list with a message on it, of the
\* settings, of the options, of the update, and of an update during which the
\* drive is swapped.  Nine presses are what a whole update takes.
MCUsers ==
    {[stored  |-> {Stored(TRUE, 1), Stored(TRUE, 2), Stored(FALSE, 0)},
      drives  |-> {RescueDrive}, changes |-> 3, faults |-> 1, presses |-> 3,
      buttons |-> {"DOWN", "CROSS", "SQUARE"}],
     [stored  |-> {Stored(FALSE, 0)},
      drives  |-> {RescueDrive}, changes |-> 3, faults |-> 1, presses |-> 3,
      buttons |-> {"DOWN", "CROSS", "CIRCLE"}],
     [stored  |-> {Stored(TRUE, 0)},
      drives  |-> {}, changes |-> 0, faults |-> 1, presses |-> 7,
      buttons |-> {"none", "UP", "DOWN", "LEFT", "RIGHT", "CROSS", "CIRCLE", "START"}],
     [stored  |-> {Stored(FALSE, 1)},
      drives  |-> {}, changes |-> 0, faults |-> 1, presses |-> 7,
      buttons |-> {"UP", "DOWN", "CROSS", "CIRCLE", "TRIANGLE"}],
     [stored  |-> {Stored(FALSE, 0)},
      drives  |-> UpdateDrives, changes |-> 0, faults |-> 1, presses |-> 9,
      buttons |-> {"UP", "CROSS", "CIRCLE", "START"}],
     [stored  |-> {Stored(FALSE, 0)},
      drives  |-> {[rescue |-> FALSE, files |-> [apps |-> f]] : f \in AppsFiles},
      changes |-> 2, faults |-> 0, presses |-> 7,
      buttons |-> {"UP", "CROSS", "START"}]}
=============================================================================
