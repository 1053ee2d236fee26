-------------------------------- MODULE MCFwfs --------------------------------
(***************************************************************************)
(* Instances of Fwfs for TLC.                                              *)
(***************************************************************************)
EXTENDS Fwfs

\* One app, whose length is no multiple of a read.
MCAppSize == (0 :> 3)

\* Threads and descriptors are only compared.
Symmetric == Permutations(Threads) \cup Permutations(Files)

\* Both modes, an app that does not exist and a mode that does not.
MCNames == {<<"d", 0>>, <<"a", 0>>, <<"d", 1>>, <<"x", 0>>}

\* To the end and to the beginning as apps_read_index does, behind the end and,
\* out of the address space, before the beginning.
MCSeeks == {[whence |-> w, n |-> 0] : w \in {"END", "SET"}}
              \cup {[whence |-> "CUR", n |-> n] : n \in {9, -20}}

MCFewNames == {<<"d", 0>>, <<"a", 0>>}
MCFewSeeks == {[whence |-> "END", n |-> 0], [whence |-> "SET", n |-> 0]}
=============================================================================
