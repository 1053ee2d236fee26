---------------------------- MODULE SettingsStore ---------------------------
(***************************************************************************)
(* What the settings promise to whoever reads them after a restart: one    *)
(* setting is changed in one step, and what was stored is there, or all    *)
(* settings are the defaults.  Nothing else is ever read.                  *)
(***************************************************************************)
CONSTANTS Fields, Values, Defaults

VARIABLE stored

Init == stored = Defaults

\* Set one field to a value.
Set == \E f \in Fields : \E v \in Values[f] : stored' = [stored EXCEPT ![f] = v]

\* Fall back to the defaults.
Forget == stored' = Defaults

Next == Set \/ Forget

Spec == Init /\ [][Next]_stored
=============================================================================
