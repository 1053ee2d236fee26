---------------------------- MODULE FirmwareStore ---------------------------
(***************************************************************************)
(* What the update path promises: the chip always has an installed         *)
(* firmware in one piece, uploads come and go without touching it, and     *)
(* installing replaces it by what is staged in a single step that nothing  *)
(* can interrupt.                                                          *)
(*                                                                         *)
(* Both variables are sets of images, because nothing stops two images     *)
(* from having the same content: a partition holds all of them or none.    *)
(***************************************************************************)
CONSTANT Images

VARIABLES installed, staged

Init == /\ installed \in (SUBSET Images) \ {{}}
        /\ staged \in SUBSET Images

\* An upload begins, and discards what was staged, or is complete.
Upload == /\ staged' \in SUBSET Images
          /\ UNCHANGED installed

Install == /\ staged # {}
           /\ installed' = staged
           /\ UNCHANGED staged

Next == Upload \/ Install

Spec == Init /\ [][Next]_<<installed, staged>>
=============================================================================
