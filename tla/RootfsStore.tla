---------------------------- MODULE RootfsStore ----------------------------
(***************************************************************************)
(* What the rootfs cache promises about an installed directory, without    *)
(* processes, staging or removal in steps.  slot[v] is what a VM sees when *)
(* it opens <data dir>/openshell-build-image/vm-rootfs/<v>: a set of       *)
(* entries <<part, key>>, empty when the directory is missing.             *)
(*                                                                         *)
(* A tree appears whole, from one archive, in one step and only where      *)
(* there was nothing; after that it can only lose entries.                 *)
(***************************************************************************)
CONSTANTS Version, Digest, Part

VARIABLE slot

Key == Version \X Digest

Whole(k) == Part \X {k}

Init == slot \in [Version -> {{}} \cup {Whole(k) : k \in Key}]

Publish(v) ==
  /\ slot[v] = {}
  /\ \E d \in Digest : slot' = [slot EXCEPT ![v] = Whole(<<v, d>>)]

Lose(v) ==
  \E rest \in SUBSET slot[v] :
    /\ rest # slot[v]
    /\ slot' = [slot EXCEPT ![v] = rest]

Next == \E v \in Version : Publish(v) \/ Lose(v)

Spec == Init /\ [][Next]_slot
=============================================================================
