---------------------------- MODULE MCFwUpdate ------------------------------
(***************************************************************************)
(* Two images of three and four sectors in partitions of five sectors of   *)
(* two pages (the last sector is the one the firmware refuses to write).   *)
(* They share the boot2 page, as two builds for one board do, and the      *)
(* third sector, so that the comparison of sectors finds equal ones.       *)
(***************************************************************************)
EXTENDS FwUpdate

MCData  == {"boot2", "a", "b", "ab", "erased", "torn"}
MCBoot2 == {"boot2"}

MCImgLen == [i \in Images |-> IF i = "a" THEN 3 ELSE 4]

MCPage(i, s, p) ==
    CASE s = 0 /\ p = 0     -> "boot2"
      [] s = 2              -> "ab"
      [] s >= MCImgLen[i]   -> Erased
      [] OTHER              -> i

MCContent == [i \in Images |-> [s \in Sectors |-> [p \in Pages |->
                 MCPage(i, s, p)]]]
=============================================================================
