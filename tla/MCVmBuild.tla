----------------------------- MODULE MCVmBuild -----------------------------
(* Small instances of VmBuild for TLC. *)
EXTENDS VmBuild

(* Every build has an output path of its own, or tags that vm_output_path
   maps to one name make them share it. *)
OwnOrShared == {[b \in Build |-> b], [b \in Build |-> "same"]}
=============================================================================
