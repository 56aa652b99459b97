------------------------------ MODULE MCSelfUpdate -----------------------------
(* Constants of SelfUpdate for TLC. *)
EXTENDS SelfUpdate, TLC

\* The greater version has the smaller minor part.
MCVersions == {<<1, 9, 0>>, <<2, 0, 0>>}
MCNightlies == {<<1>>, <<2>>}
MCReuploaded == {<<2, 0, 0>>, <<2>>}

MCSymmetry == Permutations(Commands)
=============================================================================
