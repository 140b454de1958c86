--------------------------- MODULE MCRootfsCache ---------------------------
(***************************************************************************)
(* Small instances of RootfsCache for TLC.                                 *)
(***************************************************************************)
EXTENDS RootfsCache, TLC

CONSTANTS v1, v2, d1, d2

OneBinary == {<<v1, d1>>}

(* One binary with an archive and one of the same version without. *)
WithAndWithout == {<<v1, d1>>, <<v1, None>>}

(* A rebuild at the same version with a different rootfs. *)
TwoDigests == {<<v1, d1>>, <<v1, d2>>}

TwoVersions == {<<v1, d1>>, <<v2, d1>>}

AllFaults == Fault

Symmetry == Permutations(Pid) \cup Permutations(Inode)
=============================================================================
