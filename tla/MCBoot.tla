------------------------------- MODULE MCBoot -------------------------------
(***************************************************************************)
(* A menu of two segments with a header in between that is not loaded, and *)
(* all bytes that the read handlers tell apart, and one that they do not.  *)
(* Reset is pressed, twice at most, in the header, before and between the  *)
(* two bytes of the table that are checked, and behind the last of them,   *)
(* while stage 1 is sent.                                                  *)
(***************************************************************************)
EXTENDS Boot

MCSegments   == <<"PT_LOAD", "other", "PT_LOAD">>
MCOtherBytes == {0, 2, 7, 8, 16, 32, 33, 40, 48, 64, 69, 70, 76, 127, 224, 255}
=============================================================================
