-------------------------- MODULE RootfsRaceProofs --------------------------
(***************************************************************************)
(* More proofs about RootfsCache, on top of the invariant Inv of           *)
(* RootfsCacheProofs: what builds that run at once leave behind.  Each     *)
(* gets nearer to the end of install; every way out takes the staging      *)
(* directory along; the sweeps leave at most one version; builds that race *)
(* for one version never all lose; builds that do not race boot whole      *)
(* trees and keep them; and who it is that disturbs a VM otherwise.        *)
(***************************************************************************)
EXTENDS RootfsCacheProofs, FiniteSetTheorems

Sweeping == {"sweep", "sweeping", "rm_old"}

(* A build that has renamed its tree into place has no staging directory. *)
Swept == \A p \in Pid : pc[p] \in Sweeping => link[StagingDir(p)] = None

(***************************************************************************)
(* What a step does not touch.                                             *)
(***************************************************************************)

(* No step of one build changes where another is, or what it works on. *)
LEMMA OthersAreLeftAlone ==
  ASSUME Inv, NEW q \in Pid, Step(q) \/ Exit(q) \/ Crash(q), NEW p \in Pid, p # q
  PROVE  /\ pc'[p] = pc[p] /\ bin'[p] = bin[p] /\ open'[p] = open[p]
         /\ todo'[p] = todo[p] /\ victim'[p] = victim[p] /\ root'[p] = root[p]
<1> USE DEF Inv, Types, Goto
<1>1. CASE InstallStep(q)
  BY <1>1 DEF InstallStep, Install, Hit, Recheck, Rehit, Exists, Rename, RenameFault
<1>2. CASE StageStep(q)
  BY <1>2 DEF StageStep, StageBegin, CreateStaging, UnpackPart, UnpackEnd, WriteMarker, StageFault
<1>3. CASE SweepStep(q)
  BY <1>3 DEF SweepStep, SweepBegin, SweepFault, SweepNext, SweepEnd
<1>4. CASE RemoveStep(q)
  BY <1>4 DEF RemoveStep, RmOpen, RmEntry, RmDir, RmFault, RmReturn
<1>5. CASE UseStep(q)
  BY <1>5 DEF UseStep, SelectVm, BuildCheck, Boot
<1>6. CASE Exit(q) \/ Crash(q)
  BY <1>6 DEF Exit, Crash, Leave
<1>7. QED
  BY <1>1, <1>2, <1>3, <1>4, <1>5, <1>6 DEF Step

(* A build runs one binary from its start to its end. *)
LEMMA StepKeepsBin ==
  ASSUME NEW p \in Pid, Step(p)
  PROVE  bin' = bin
  BY DEF Step, InstallStep, Install, Hit, Recheck, Rehit, Exists, Rename, RenameFault,
     StageStep, StageBegin, CreateStaging, UnpackPart, UnpackEnd, WriteMarker, StageFault,
     SweepStep, SweepBegin, SweepFault, SweepNext, SweepEnd,
     RemoveStep, RmOpen, RmEntry, RmDir, RmFault, UseStep, SelectVm, BuildCheck, Boot

(* A build that takes no step stays as it is. *)
LEMMA StaysPut ==
  ASSUME Inv, [Next]_vars, NEW p \in Pid, ~Step(p),
         pc[p] \notin {"idle", "booted", "failed"}, ~Crash(p)
  PROVE  /\ pc'[p] = pc[p] /\ bin'[p] = bin[p] /\ open'[p] = open[p]
         /\ todo'[p] = todo[p] /\ victim'[p] = victim[p]
<1>1. CASE UNCHANGED vars
  BY <1>1 DEF vars
<1>2. CASE \E q \in Pid, b \in Binary : Start(q, b)
  BY <1>2 DEF Start, Goto, Inv, Types
<1>3. CASE \E q \in Pid : q # p /\ (Step(q) \/ Exit(q) \/ Crash(q))
  BY <1>3, OthersAreLeftAlone
<1>4. CASE \E v \in Version : Damage(v)
  BY <1>4 DEF Damage
<1>5. QED
  BY <1>1, <1>2, <1>3, <1>4 DEF Next, Exit

(* Three steps change what a path names: stage makes the staging directory,
   rename moves it, and remove_dir_all removes a directory. *)
LEMMA LinksKept ==
  ASSUME [Next]_vars
  PROVE  \/ link' = link
         \/ \E p \in Pid : CreateStaging(p) \/ Rename(p) \/ RmDir(p)
<1>1. CASE UNCHANGED vars
  BY <1>1 DEF vars
<1>2. ASSUME NEW p \in Pid, NEW b \in Binary, Start(p, b) PROVE link' = link
  BY <1>2 DEF Start
<1>3. ASSUME NEW p \in Pid, InstallStep(p) PROVE link' = link \/ Rename(p)
  BY <1>3 DEF InstallStep, Install, Hit, Recheck, Rehit, Exists, RenameFault
<1>4. ASSUME NEW p \in Pid, StageStep(p) PROVE link' = link \/ CreateStaging(p)
  BY <1>4 DEF StageStep, StageBegin, UnpackPart, UnpackEnd, WriteMarker, StageFault
<1>5. ASSUME NEW p \in Pid, SweepStep(p) PROVE link' = link
  BY <1>5 DEF SweepStep, SweepBegin, SweepFault, SweepNext, SweepEnd
<1>6. ASSUME NEW p \in Pid, RemoveStep(p) PROVE link' = link \/ RmDir(p)
  BY <1>6 DEF RemoveStep, RmOpen, RmEntry, RmFault
<1>7. ASSUME NEW p \in Pid, UseStep(p) PROVE link' = link
  BY <1>7 DEF UseStep, SelectVm, BuildCheck, Boot
<1>8. ASSUME NEW p \in Pid, Exit(p) \/ Crash(p) PROVE link' = link
  BY <1>8 DEF Exit, Crash, Leave
<1>9. ASSUME NEW v \in Version, Damage(v) PROVE link' = link
  BY <1>9 DEF Damage
<1>10. QED
  BY <1>1, <1>2, <1>3, <1>4, <1>5, <1>6, <1>7, <1>8, <1>9 DEF Next, Step

(* Nobody else makes, moves or removes the staging directory of a build. *)
LEMMA OthersKeepStaging ==
  ASSUME Inv, NEW q \in Pid, CreateStaging(q) \/ Rename(q) \/ RmDir(q),
         NEW p \in Pid, p # q, pc[p] \notin {"idle", "install", "failed"}
  PROVE  link'[StagingDir(p)] = link[StagingDir(p)]
<1>1. StagingDir(p) \in Name /\ IsStaging(StagingDir(p)) /\ StagingDir(p)[2] = p
  BY Paths DEF Inv
<1>2. pc[q] \notin {"idle", "install", "failed"}
  BY DEF CreateStaging, Rename, RmDir, Removing
<1>3. /\ StagingDir(q) \in Name /\ StagingDir(q)[2] = q
      /\ Dir(q) \in Name /\ ~IsStaging(Dir(q))
  BY <1>2, Paths DEF Inv
<1>4. CASE CreateStaging(q) \/ Rename(q)
  BY <1>1, <1>3, <1>4 DEF CreateStaging, Rename, Inv, Types
<1>5. CASE RmDir(q)
  <2>1. RmPath(q) \in Name /\ RmPath(q) # StagingDir(p)
    BY <1>1, <1>5, RmPathType DEF RmDir
  <2>2. QED
    BY <1>1, <1>5, <2>1 DEF RmDir, Inv, Types
<1>6. QED
  BY <1>4, <1>5

-----------------------------------------------------------------------------
(***************************************************************************)
(* No loop of install goes on for ever.                                    *)
(***************************************************************************)

(* The places of a build, one by one. *)
LEMMA Places ==
  /\ Place["install"] = 1 /\ Place["hit"] = 2 /\ Place["stage"] = 3 /\ Place["rm_stage"] = 4
  /\ Place["mkdir"] = 5 /\ Place["unpack"] = 6 /\ Place["mark"] = 7 /\ Place["recheck"] = 8
  /\ Place["rehit"] = 9 /\ Place["exists"] = 10 /\ Place["rm_dir"] = 11 /\ Place["rename"] = 12
  /\ Place["sweep"] = 13 /\ Place["sweeping"] = 14 /\ Place["rm_old"] = 14 /\ Place["drop"] = 15
  /\ Place["cleanup"] = 16 /\ Place["returned"] = 17 /\ Place["selected"] = 18
  /\ Place["resolved"] = 19 /\ Place["booted"] = 20 /\ Place["failed"] = 20
  BY DEF Place

(* remove_dir_all opens a directory, takes something out of it, or returns. *)
LEMMA RemovalIsNearer ==
  ASSUME Inv, NEW p \in Pid, RemoveStep(p)
  PROVE  Nearer(p)
<1> USE DEF Inv, Types
<1>1. ASSUME NEW ok \in BOOLEAN, pc[p] \in Removing, RmReturn(p, ok), todo' = todo PROVE Nearer(p)
  BY <1>1, Places DEF RmReturn, Goto, After, Removing, Nearer
<1>2. CASE RmOpen(p)
  <2>1. CASE link[RmPath(p)] = None
    BY <1>1, <1>2, <2>1 DEF RmOpen
  <2>2. CASE link[RmPath(p)] # None
    BY <1>2, <2>2 DEF RmOpen, Nearer
  <2>3. QED
    BY <2>1, <2>2
<1>3. CASE RmEntry(p)
  <2>1. PICK e \in tree[open[p]] : tree' = [tree EXCEPT ![open[p]] = @ \ {e}]
    BY <1>3 DEF RmEntry
  <2>2. open[p] \in Inode
    BY <1>3 DEF RmEntry
  <2>3. Shrinks(tree[open[p]], tree'[open[p]])
    BY <2>1, <2>2 DEF Shrinks
  <2>4. QED
    BY <1>3, <2>3 DEF RmEntry, Nearer
<1>4. CASE RmDir(p) \/ RmFault(p)
  BY <1>1, <1>4 DEF RmDir, RmFault
<1>5. QED
  BY <1>2, <1>3, <1>4 DEF RemoveStep

(* Every step of a build brings it nearer to its end. *)
LEMMA StepIsNearer ==
  ASSUME Inv, NEW p \in Pid, Step(p)
  PROVE  Nearer(p)
<1> USE DEF Inv, Types, Goto
<1>1. CASE InstallStep(p)
  BY <1>1, Places DEF InstallStep, Install, Hit, Recheck, Rehit, Exists, Rename, RenameFault, Nearer
<1>2. CASE StageStep(p)
  <2>1. CASE UnpackPart(p)
    BY <2>1 DEF UnpackPart, Nearer, Shrinks
  <2>2. CASE ~UnpackPart(p)
    BY <1>2, <2>2, Places DEF StageStep, StageBegin, CreateStaging, UnpackEnd, WriteMarker,
       StageFault, Nearer
  <2>3. QED
    BY <2>1, <2>2
<1>3. CASE SweepStep(p)
  <2>1. CASE SweepNext(p)
    <3>1. Shrinks(todo[p], todo'[p])
      BY <2>1 DEF SweepNext, Shrinks
    <3>2. pc[p] = "sweeping" /\ pc'[p] \in {"sweeping", "rm_old"}
      BY <2>1 DEF SweepNext
    <3>3. QED
      BY <3>1, <3>2, Places DEF Nearer
  <2>2. CASE ~SweepNext(p)
    BY <1>3, <2>2, Places DEF SweepStep, SweepBegin, SweepFault, SweepEnd, Nearer
  <2>3. QED
    BY <2>1, <2>2
<1>4. CASE RemoveStep(p)
  BY <1>4, RemovalIsNearer
<1>5. CASE UseStep(p)
  BY <1>5, Places DEF UseStep, SelectVm, BuildCheck, Boot, Nearer
<1>6. QED
  BY <1>1, <1>2, <1>3, <1>4, <1>5 DEF Step

(* Only stage writes to a directory, and to the one of its own build. *)
LEMMA OnlyStageWrites ==
  ASSUME Inv, [Next]_vars, NEW i \in Inode, ~(tree'[i] \subseteq tree[i])
  PROVE  \E q \in Pid : /\ UnpackPart(q) \/ WriteMarker(q)
                        /\ i = link[StagingDir(q)]
<1> USE DEF Inv, Types
<1>1. tree' # tree
  OBVIOUS
<1>2. ASSUME NEW q \in Pid, Step(q) PROVE RmEntry(q) \/ UnpackPart(q) \/ WriteMarker(q)
  BY <1>1, <1>2 DEF Step, InstallStep, Install, Hit, Recheck, Rehit, Exists, Rename, RenameFault,
     StageStep, StageBegin, CreateStaging, UnpackEnd, StageFault,
     SweepStep, SweepBegin, SweepFault, SweepNext, SweepEnd,
     RemoveStep, RmOpen, RmDir, RmFault, UseStep, SelectVm, BuildCheck, Boot
<1>3. ASSUME NEW q \in Pid, RmEntry(q) PROVE FALSE
  BY <1>3 DEF RmEntry
<1>4. ASSUME NEW v \in Version, Damage(v) PROVE FALSE
  BY <1>4 DEF Damage
<1>5. PICK q \in Pid : UnpackPart(q) \/ WriteMarker(q)
  BY <1>1, <1>2, <1>3, <1>4 DEF Next, Start, Exit, Crash, Leave, vars
<1>6. i = link[StagingDir(q)]
  BY <1>5 DEF UnpackPart, WriteMarker
<1>7. QED
  BY <1>5, <1>6

(* Nobody fills the directory that another build is emptying. *)
LEMMA OthersDoNotFill ==
  ASSUME Inv, [Next]_vars, NEW p \in Pid, open[p] # None, ~Step(p)
  PROVE  tree'[open[p]] \subseteq tree[open[p]]
<1>1. pc[p] \in Removing /\ open[p] \in Inode
  BY DEF Inv, Types, RemovesItsOwn
<1>2. SUFFICES ASSUME ~(tree'[open[p]] \subseteq tree[open[p]]) PROVE FALSE
  OBVIOUS
<1>3. PICK q \in Pid : (UnpackPart(q) \/ WriteMarker(q)) /\ open[p] = link[StagingDir(q)]
  BY <1>1, <1>2, OnlyStageWrites
<1>4. q # p
  BY <1>1, <1>3 DEF UnpackPart, WriteMarker, Removing
<1>5. StagingDir(q) \in Name /\ IsStaging(StagingDir(q)) /\ StagingDir(q)[2] = q
  BY <1>3, Paths DEF Inv, UnpackPart, WriteMarker
<1>6. StagingDir(p) \in Name /\ StagingDir(p)[2] = p
  BY <1>1, Paths DEF Inv, Removing
<1>7. pc[p] \in {"rm_stage", "drop", "cleanup"}
  BY <1>1, <1>3, <1>5 DEF Inv, RemovesItsOwn, Removing
<1>8. link[StagingDir(p)] = link[StagingDir(q)]
  BY <1>3, <1>7 DEF Inv, RemovesItsOwn
<1>9. QED
  BY <1>3, <1>4, <1>5, <1>6, <1>8 DEF Inv, OneName

(* What a build has left to unpack is its own affair. *)
LEMMA LeftStays ==
  ASSUME Inv, [Next]_vars, NEW p \in Pid, ~Step(p),
         pc[p] \notin {"idle", "booted", "failed"}, ~Crash(p)
  PROVE  left'[p] = left[p]
<1> USE DEF Inv, Types
<1>1. ASSUME NEW q \in Pid, q # p, Step(q) PROVE left'[p] = left[p]
  BY <1>1 DEF Step, InstallStep, Install, Hit, Recheck, Rehit, Exists, Rename, RenameFault,
     StageStep, StageBegin, CreateStaging, UnpackPart, UnpackEnd, WriteMarker, StageFault,
     SweepStep, SweepBegin, SweepFault, SweepNext, SweepEnd,
     RemoveStep, RmOpen, RmEntry, RmDir, RmFault, UseStep, SelectVm, BuildCheck, Boot
<1>2. ASSUME NEW q \in Pid, q # p, Exit(q) \/ Crash(q) PROVE left'[p] = left[p]
  BY <1>2 DEF Exit, Crash, Leave
<1>3. QED
  BY <1>1, <1>2 DEF Next, Start, Exit, Damage, vars

(* Every step of a build brings it nearer to the end of install, and no other
   build, however many there are and whatever fails, throws it back. *)
THEOREM InstallsMakeProgress == Spec => InstallMakesProgress
<1>1. Inv /\ [Next]_vars =>
        [\A p \in Pid : pc[p] \notin {"idle", "booted", "failed"} =>
           IF Step(p) THEN Nearer(p) ELSE NotThrownBack(p) \/ Crash(p)]_vars
  BY StepIsNearer, StaysPut, LeftStays, OthersDoNotFill DEF NotThrownBack
<1>2. QED
  BY <1>1, Invariance, PTL DEF Spec, InstallMakesProgress

-----------------------------------------------------------------------------
(***************************************************************************)
(* Every way out of install takes the staging directory along.             *)
(***************************************************************************)

(* A build gets to its sweep by its rename, which moves the staging directory
   away, and nobody brings it back. *)
LEMMA SweptInv ==
  ASSUME Inv, Swept, [Next]_vars
  PROVE  Swept'
<1> SUFFICES ASSUME NEW p \in Pid, pc'[p] \in Sweeping
             PROVE  (link[StagingDir(p)] = None)'
  BY DEF Swept
<1> USE DEF Inv, Types, Goto, Sweeping
<1>1. CASE pc[p] \in Sweeping
  <2>1. pc[p] \notin {"idle", "install", "failed"} /\ link[StagingDir(p)] = None
    BY <1>1 DEF Swept
  <2>2. StagingDir(p)' = StagingDir(p)
    <3>1. bin'[p] = bin[p]
      <4>1. ~Crash(p)
        BY <1>1, NoneIsNoValue DEF Crash, Leave
      <4>2. QED
        BY <1>1, <4>1, StaysPut, StepKeepsBin
    <3>2. QED
      BY <3>1 DEF StagingDir
  <2>3. link'[StagingDir(p)] = link[StagingDir(p)]
    <3>1. CASE link' = link
      BY <3>1
    <3>2. CASE \E q \in Pid : q # p /\ (CreateStaging(q) \/ Rename(q) \/ RmDir(q))
      BY <3>2, <2>1, OthersKeepStaging
    <3>3. CASE CreateStaging(p) \/ Rename(p)
      BY <3>3, <1>1 DEF CreateStaging, Rename
    <3>4. CASE RmDir(p)
      <4>1. pc[p] = "rm_old"
        BY <3>4, <1>1 DEF RmDir, Removing
      <4>2. StagingDir(p) \in Name /\ IsStaging(StagingDir(p))
        BY <2>1, Paths
      <4>3. RmPath(p) \in Name /\ ~IsStaging(RmPath(p))
        BY <4>1, RmPathType DEF Removing
      <4>4. QED
        BY <3>4, <4>2, <4>3 DEF RmDir
    <3>5. QED
      BY <3>1, <3>2, <3>3, <3>4, LinksKept
  <2>4. QED
    BY <2>1, <2>2, <2>3
<1>2. CASE pc[p] \notin Sweeping
  <2>1. Rename(p) /\ pc'[p] = "sweep"
    <3>1. ~UNCHANGED vars
      BY <1>2 DEF vars
    <3>2. ~\E q \in Pid, b \in Binary : Start(q, b)
      BY <1>2 DEF Start
    <3>3. ~\E q \in Pid : q # p /\ (Step(q) \/ Exit(q) \/ Crash(q))
      BY <1>2, OthersAreLeftAlone
    <3>4. ~Exit(p) /\ ~Crash(p) /\ ~\E v \in Version : Damage(v)
      BY <1>2 DEF Exit, Crash, Leave, Damage
    <3>5. CASE InstallStep(p)
      BY <3>5, <1>2 DEF InstallStep, Install, Hit, Recheck, Rehit, Exists, Rename, RenameFault
    <3>6. CASE StageStep(p)
      BY <3>6, <1>2 DEF StageStep, StageBegin, CreateStaging, UnpackPart, UnpackEnd, WriteMarker,
         StageFault
    <3>7. CASE SweepStep(p)
      BY <3>7, <1>2 DEF SweepStep, SweepBegin, SweepFault, SweepNext, SweepEnd
    <3>8. CASE RemoveStep(p)
      BY <3>8, <1>2 DEF RemoveStep, RmOpen, RmEntry, RmDir, RmFault, RmReturn, After, Removing
    <3>9. CASE UseStep(p)
      BY <3>9, <1>2 DEF UseStep, SelectVm, BuildCheck, Boot
    <3>10. QED
      BY <3>1, <3>2, <3>3, <3>4, <3>5, <3>6, <3>7, <3>8, <3>9 DEF Next, Step
  <2>2. /\ StagingDir(p) \in Name /\ Dir(p) \in Name
        /\ StagingDir(p)' = StagingDir(p)
    BY <2>1, Paths DEF Rename, StagingDir
  <2>3. QED
    BY <2>1, <2>2 DEF Rename
<1>3. QED
  BY <1>1, <1>2

(* A build gets out of install by the end of its sweep or by a removal of its
   staging directory. *)
LEMMA CleansUp ==
  ASSUME Inv, Swept, [Next]_vars, NEW p \in Pid, LeavesInstall(p)
  PROVE  link'[StagingDir(p)] = None \/ (pc[p] \in {"cleanup", "drop"} /\ RmFault(p))
<1> USE DEF Inv, Types, Goto
<1>1. \/ SweepFault(p) \/ SweepEnd(p)
      \/ pc[p] \in {"cleanup", "drop"} /\ RemoveStep(p)
  <2>1. ~UNCHANGED vars
    BY DEF vars, LeavesInstall
  <2>2. ~\E q \in Pid, b \in Binary : Start(q, b)
    BY DEF Start, LeavesInstall
  <2>3. ~\E q \in Pid : q # p /\ (Step(q) \/ Exit(q) \/ Crash(q))
    BY OthersAreLeftAlone DEF LeavesInstall
  <2>4. ~Exit(p) /\ ~Crash(p) /\ ~\E v \in Version : Damage(v)
    BY DEF Exit, Crash, Leave, Damage, LeavesInstall
  <2>5. ~InstallStep(p)
    BY DEF InstallStep, Install, Hit, Recheck, Rehit, Exists, Rename, RenameFault, LeavesInstall
  <2>6. ~StageStep(p)
    BY DEF StageStep, StageBegin, CreateStaging, UnpackPart, UnpackEnd, WriteMarker, StageFault,
       LeavesInstall
  <2>7. SweepStep(p) => SweepFault(p) \/ SweepEnd(p)
    BY DEF SweepStep, SweepBegin, SweepNext, LeavesInstall
  <2>8. RemoveStep(p) => pc[p] \in {"cleanup", "drop"}
    BY DEF RemoveStep, RmOpen, RmEntry, RmDir, RmFault, RmReturn, After, Removing, LeavesInstall
  <2>9. ~UseStep(p)
    BY DEF UseStep, SelectVm, BuildCheck, Boot, LeavesInstall
  <2>10. QED
    BY <2>1, <2>2, <2>3, <2>4, <2>5, <2>6, <2>7, <2>8, <2>9 DEF Next, Step
<1>2. CASE SweepFault(p) \/ SweepEnd(p)
  BY <1>2 DEF SweepFault, SweepEnd, Swept, Sweeping
<1>3. CASE pc[p] \in {"cleanup", "drop"} /\ RemoveStep(p)
  <2>1. RmPath(p) = StagingDir(p) /\ StagingDir(p) \in Name
    BY <1>3, RmPathType DEF Removing
  <2>2. CASE RmOpen(p)
    BY <2>1, <2>2 DEF RmOpen, LeavesInstall
  <2>3. CASE RmEntry(p)
    BY <2>3, <1>3 DEF RmEntry, LeavesInstall
  <2>4. CASE RmDir(p)
    <3>1. open[p] = link[StagingDir(p)]
      BY <1>3, <2>4 DEF RmDir, RemovesItsOwn
    <3>2. Entries(StagingDir(p)) = {}
      BY <2>4, <3>1 DEF RmDir, Entries
    <3>3. QED
      BY <2>1, <2>4, <3>2 DEF RmDir
  <2>5. QED
    BY <1>3, <2>2, <2>3, <2>4 DEF RemoveStep
<1>4. QED
  BY <1>1, <1>2, <1>3

(* Swept holds in every behaviour of the cache. *)
LEMMA SweptAlways == Spec => []Swept
<1>1. Init => Swept
  BY DEF Init, Quiet, Swept, Sweeping
<1>2. Inv /\ Swept /\ [Next]_vars => Swept'
  BY SweptInv
<1>3. QED
  BY <1>1, <1>2, Invariance, PTL DEF Spec

(* However install ends, with whatever others do meanwhile, the build leaves no
   staging directory behind, unless the removal of that directory itself fails. *)
THEOREM InstallsCleanUp == Spec => InstallCleansUp
<1>1. Inv /\ Swept /\ [Next]_vars =>
        [\A p \in Pid : LeavesInstall(p) =>
           link'[StagingDir(p)] = None \/ (pc[p] \in {"cleanup", "drop"} /\ RmFault(p))]_vars
  BY CleansUp
<1>2. QED
  BY <1>1, Invariance, SweptAlways, PTL DEF Spec, InstallCleansUp

-----------------------------------------------------------------------------
(***************************************************************************)
(* The sweeps leave at most one version.  Two versions are installed at    *)
(* once only while a build of one of them still has the other ahead of     *)
(* its sweep: on its list, or as the directory it is removing, which is    *)
(* then the one installed there now and not one it opened before.          *)
(***************************************************************************)
Covers(p, v, w) ==
  /\ Dir(p) = Final(v)
  /\ \/ pc[p] = "sweep"
     \/ pc[p] \in {"sweeping", "rm_old"} /\ Final(w) \in todo[p]
     \/ pc[p] = "rm_old" /\ victim[p] = Final(w) /\ open[p] \in {None, link[Final(w)]}

Installed == {v \in Version : link[Final(v)] # None}

Covered ==
  \A v, w \in Installed : v # w =>
    \E p \in Pid : Covers(p, v, w) \/ Covers(p, w, v)

(* The removals, the listing and the builds themselves run to their end. *)
SweepsAreReliable == Faults \cap {"remove", "readdir", "crash"} = {}

(* A build that covers two versions goes on to do so, as long as both stay
   installed as they are. *)
LEMMA StillCovers ==
  ASSUME Inv, SweepsAreReliable, NEW p \in Pid, NEW v \in Version, NEW w \in Version,
         v # w, Covers(p, v, w), Step(p),
         link'[Final(w)] = link[Final(w)], link[Final(w)] # None
  PROVE  Covers(p, v, w)'
<1> USE DEF Inv, Types, Goto
<1>1. pc[p] \in {"sweep", "sweeping", "rm_old"} /\ Dir(p) = Final(v)
  BY DEF Covers
<1>2. /\ Final(w) \in Name /\ ~IsStaging(Final(w)) /\ Final(w) # Dir(p)
  BY <1>1, FinalNames
<1>3. SweepStep(p) \/ RemoveStep(p)
  BY <1>1 DEF Step, InstallStep, Install, Hit, Recheck, Rehit, Exists, Rename, RenameFault,
     StageStep, StageBegin, CreateStaging, UnpackPart, UnpackEnd, WriteMarker, StageFault,
     UseStep, SelectVm, BuildCheck, Boot
<1>4. Dir(p)' = Final(v)
  BY <1>1, StepKeepsBin DEF Dir
<1>5. ~SweepFault(p) /\ ~RmFault(p)
  BY DEF SweepFault, RmFault, SweepsAreReliable
<1>6. CASE SweepBegin(p)
  <2>1. pc'[p] = "sweeping" /\ Final(w) \in todo'[p]
    BY <1>2, <1>6 DEF SweepBegin, Sweepable
  <2>2. QED
    BY <1>4, <2>1 DEF Covers, Final
<1>7. CASE SweepNext(p)
  <2>1. pc[p] = "sweeping" /\ Final(w) \in todo[p] /\ open[p] = None
    BY <1>7 DEF SweepNext, Covers, RemovesItsOwn, Removing
  <2>2. PICK n \in todo[p] :
          /\ todo' = [todo EXCEPT ![p] = @ \ {n}]
          /\ IF link[n] # None
               THEN victim' = [victim EXCEPT ![p] = n] /\ Goto(p, "rm_old")
               ELSE UNCHANGED <<victim, pc>>
    BY <1>7 DEF SweepNext
  <2>3. pc'[p] \in {"sweeping", "rm_old"} /\ open'[p] = None
    BY <1>7, <2>1, <2>2 DEF SweepNext
  <2>4. CASE n = Final(w)
    <3>1. pc'[p] = "rm_old" /\ victim'[p] = Final(w)
      BY <2>2, <2>4
    <3>2. QED
      BY <1>4, <2>3, <3>1 DEF Covers, Final
  <2>5. CASE n # Final(w)
    <3>1. Final(w) \in todo'[p]
      BY <2>1, <2>2, <2>5
    <3>2. QED
      BY <1>4, <2>3, <3>1 DEF Covers, Final
  <2>6. QED
    BY <2>4, <2>5
<1>8. CASE SweepEnd(p)
  BY <1>8 DEF SweepEnd, Covers
<1>9. CASE RmOpen(p)
  <2>1. pc[p] = "rm_old" /\ RmPath(p) = victim[p] /\ victim[p] \in Name
    BY <1>1, <1>9 DEF RmOpen, Removing, RmPath, RemovesItsOwn
  <2>2. CASE link[victim[p]] = None
    <3>1. Final(w) \in todo[p]
      BY <2>1, <2>2 DEF Covers
    <3>2. pc'[p] = "sweeping" /\ todo'[p] = todo[p]
      BY <1>9, <2>1, <2>2 DEF RmOpen, RmReturn, After
    <3>3. QED
      BY <1>4, <3>1, <3>2 DEF Covers, Final
  <2>3. CASE link[victim[p]] # None
    <3>1. /\ pc'[p] = "rm_old" /\ todo'[p] = todo[p] /\ victim'[p] = victim[p]
          /\ open'[p] = link[victim[p]]
      BY <1>9, <2>1, <2>3 DEF RmOpen
    <3>2. QED
      BY <1>4, <2>1, <3>1 DEF Covers, Final
  <2>4. QED
    BY <2>2, <2>3
<1>10. CASE RmEntry(p)
  BY <1>4, <1>10 DEF RmEntry, Covers, Final
<1>11. CASE RmDir(p)
  <2>1. pc[p] = "rm_old" /\ RmPath(p) = victim[p] /\ open[p] # None
    BY <1>1, <1>11 DEF RmDir, Removing, RmPath
  <2>2. CASE Final(w) \in todo[p]
    <3>1. pc'[p] = "sweeping" /\ todo'[p] = todo[p]
      BY <1>11, <2>1 DEF RmDir, RmReturn, After
    <3>2. QED
      BY <1>4, <2>2, <3>1 DEF Covers, Final
  <2>3. CASE Final(w) \notin todo[p]
    <3>1. victim[p] = Final(w) /\ open[p] = link[Final(w)]
      BY <2>1, <2>3 DEF Covers
    <3>2. Entries(Final(w)) = {}
      BY <1>11, <3>1 DEF RmDir, Entries
    <3>3. link'[Final(w)] = None
      BY <1>2, <1>11, <2>1, <3>1, <3>2 DEF RmDir
    <3>4. QED
      BY <3>3
  <2>4. QED
    BY <2>2, <2>3
<1>12. QED
  BY <1>3, <1>5, <1>6, <1>7, <1>8, <1>9, <1>10, <1>11 DEF SweepStep, RemoveStep

(* A step that puts nothing new in an installed path keeps every pair of
   versions covered. *)
LEMMA CoverKept ==
  ASSUME Inv, SweepsAreReliable, Covered, [Next]_vars,
         \A v \in Version : link'[Final(v)] \in {None, link[Final(v)]}
  PROVE  Covered'
<1> SUFFICES ASSUME NEW v \in Version, NEW w \in Version, v # w,
                    link'[Final(v)] # None, link'[Final(w)] # None
             PROVE  \E p \in Pid : Covers(p, v, w)' \/ Covers(p, w, v)'
  BY DEF Covered, Installed, Final
<1>1. /\ link'[Final(v)] = link[Final(v)] /\ link[Final(v)] # None
      /\ link'[Final(w)] = link[Final(w)] /\ link[Final(w)] # None
  OBVIOUS
<1>2. PICK p \in Pid : Covers(p, v, w) \/ Covers(p, w, v)
  BY <1>1 DEF Covered, Installed
<1>3. pc[p] \in {"sweep", "sweeping", "rm_old"}
  BY <1>2 DEF Covers
<1>4. CASE Step(p)
  BY <1>1, <1>2, <1>4, StillCovers
<1>5. CASE ~Step(p)
  <2>1. /\ pc'[p] = pc[p] /\ bin'[p] = bin[p] /\ open'[p] = open[p]
        /\ todo'[p] = todo[p] /\ victim'[p] = victim[p]
    BY <1>3, <1>5, StaysPut DEF Crash, SweepsAreReliable
  <2>2. QED
    BY <1>1, <1>2, <2>1 DEF Covers, Dir, Final
<1>6. QED
  BY <1>4, <1>5

(* A build that installs a tree begins its sweep with every other version
   ahead of it. *)
LEMMA RenameCovers ==
  ASSUME Inv, Covered, NEW q \in Pid, Rename(q), Entries(Dir(q)) = {}
  PROVE  Covered'
<1> SUFFICES ASSUME NEW v \in Version, NEW w \in Version, v # w,
                    link'[Final(v)] # None, link'[Final(w)] # None
             PROVE  \E p \in Pid : Covers(p, v, w)' \/ Covers(p, w, v)'
  BY DEF Covered, Installed, Final
<1> USE DEF Inv, Types, Goto
<1>1. /\ pc[q] = "rename" /\ pc'[q] = "sweep" /\ Dir(q)' = Dir(q)
      /\ bin[q] \in Key /\ StagingDir(q) \in Name /\ IsStaging(StagingDir(q))
  BY Paths DEF Rename, Dir
<1>2. CASE Dir(q) = Final(v) \/ Dir(q) = Final(w)
  BY <1>1, <1>2 DEF Covers, Final
<1>3. CASE Dir(q) # Final(v) /\ Dir(q) # Final(w)
  <2>1. link'[Final(v)] = link[Final(v)] /\ link'[Final(w)] = link[Final(w)]
    BY <1>1, <1>3, FinalNames DEF Rename
  <2>2. PICK p \in Pid : Covers(p, v, w) \/ Covers(p, w, v)
    BY <2>1 DEF Covered, Installed
  <2>3. p # q
    BY <1>1, <2>2 DEF Covers
  <2>4. /\ pc'[p] = pc[p] /\ bin'[p] = bin[p] /\ open'[p] = open[p]
        /\ todo'[p] = todo[p] /\ victim'[p] = victim[p]
    BY <2>3 DEF Rename
  <2>5. QED
    BY <2>1, <2>2, <2>4 DEF Covers, Dir, Final
<1>4. QED
  BY <1>2, <1>3

(* Every step keeps every pair of installed versions covered. *)
LEMMA CoveredInv ==
  ASSUME Inv, SweepsAreReliable, Covered, [Next]_vars
  PROVE  Covered'
<1>1. CASE link' = link
  BY <1>1, CoverKept
<1>2. ASSUME NEW q \in Pid, CreateStaging(q) PROVE Covered'
  <2>1. StagingDir(q) \in Name /\ IsStaging(StagingDir(q))
    BY <1>2, Paths DEF CreateStaging, Inv
  <2>2. \A v \in Version : link'[Final(v)] = link[Final(v)]
    BY <1>2, <2>1, FinalNames DEF CreateStaging, Inv, Types
  <2>3. QED
    BY <2>2, CoverKept
<1>3. ASSUME NEW q \in Pid, Rename(q) PROVE Covered'
  BY <1>1, <1>3, RenameCovers DEF Rename
<1>4. ASSUME NEW q \in Pid, RmDir(q) PROVE Covered'
  <2>1. \A v \in Version : link'[Final(v)] \in {None, link[Final(v)]}
    BY <1>4, FinalNames DEF RmDir, Inv, Types
  <2>2. QED
    BY <2>1, CoverKept
<1>5. QED
  BY <1>1, <1>2, <1>3, <1>4, LinksKept

(* With all builds ended nothing is covered, so one version is left at most. *)
LEMMA CoveredMeansOne == Covered => OneVersionInstalled
<1> SUFFICES ASSUME Covered, \A p \in Pid : pc[p] \in {"idle", "booted", "failed"}
             PROVE  Cardinality(Installed) <= 1
  BY DEF OneVersionInstalled, Installed
<1>1. \A v, w \in Installed : v = w
  BY DEF Covered, Covers
<1>2. CASE Installed = {}
  BY <1>2, FS_EmptySet
<1>3. CASE Installed # {}
  <2>1. PICK v \in Installed : TRUE
    BY <1>3
  <2>2. Installed = {v}
    BY <1>1, <2>1
  <2>3. Cardinality({v}) = 1
    BY FS_Singleton
  <2>4. QED
    BY <2>2, <2>3
<1>4. QED
  BY <1>2, <1>3

(* Whatever the versions and the order in which their builds installed, booted
   and swept, once all have ended at most one version is left in the cache;
   calls of stage and rename may fail, but no removal, listing or process. *)
THEOREM SweepsLeaveOneVersion ==
  ASSUME SweepsAreReliable
  PROVE  Spec => []OneVersionInstalled
<1>1. Init => Covered
  BY FinalNames DEF Init, Covered, Installed
<1>2. Inv /\ Covered /\ [Next]_vars => Covered'
  BY CoveredInv
<1>3. QED
  BY <1>1, <1>2, CoveredMeansOne, Invariance, PTL DEF Spec

-----------------------------------------------------------------------------
(***************************************************************************)
(* What can happen to the installed tree of a version.                     *)
(***************************************************************************)
Keeps(v) ==
  /\ link'[Final(v)] = link[Final(v)]
  /\ Entries(Final(v))' = Entries(Final(v))

Installs(p, v) ==
  /\ Rename(p) /\ Dir(p) = Final(v) /\ Entries(Final(v)) = {}
  /\ Entries(Final(v))' = Whole(bin[p])

Dooms(p, v) ==
  /\ pc[p] \in {"rm_dir", "rm_old"}
  /\ open[p] # None /\ open[p] = link[Final(v)]

Deletes(p, v) ==
  /\ RmEntry(p) /\ Dooms(p, v)
  /\ link' = link /\ Entries(Final(v))' \subseteq Entries(Final(v))

Unlinks(p, v) ==
  /\ RmDir(p) /\ RmPath(p) = Final(v)
  /\ Entries(Final(v)) = {} /\ Entries(Final(v))' = {} /\ link'[Final(v)] = None

(* A rename that finds its place empty installs the staged tree. *)
LEMMA RenameInstalls ==
  ASSUME Inv, NEW v \in Version, NEW p \in Pid, Rename(p), Entries(Dir(p)) = {}, Dir(p) = Final(v)
  PROVE  Installs(p, v) /\ pc'[p] = "sweep" /\ bin[p] \in Key
<1> USE DEF Inv, Types
<1>1. /\ StagingDir(p) \in Name /\ IsStaging(StagingDir(p)) /\ bin[p] \in Key
      /\ Dir(p) \in Name /\ ~IsStaging(Dir(p))
      /\ link[StagingDir(p)] # None /\ tree[link[StagingDir(p)]] = Whole(bin[p])
  BY Paths DEF Rename, Staging, Staged
<1>2. StagingDir(p) # Dir(p)
  BY <1>1
<1>3. link'[Final(v)] = link[StagingDir(p)] /\ tree' = tree /\ pc'[p] = "sweep"
  BY <1>1, <1>2 DEF Rename, Goto
<1>4. Entries(Final(v))' = Whole(bin[p])
  BY <1>1, <1>3 DEF Entries
<1>5. QED
  BY <1>1, <1>3, <1>4 DEF Installs

(* A step leaves the installed tree of a version alone, or renames a whole one
   into its empty place, deletes from it, removes it when it is empty, or is
   the user's damage. *)
LEMMA Effects ==
  ASSUME Inv, [Next]_vars, NEW v \in Version
  PROVE  \/ Keeps(v) \/ Damage(v)
         \/ \E p \in Pid : Installs(p, v) \/ Deletes(p, v) \/ Unlinks(p, v)
<1> USE DEF Inv, Types
<1>1. Final(v) \in Name /\ ~IsStaging(Final(v))
  BY FinalNames
<1>2. CASE UNCHANGED <<link, tree>>
  BY <1>2 DEF Keeps, Entries
<1>3. ASSUME NEW p \in Pid, CreateStaging(p) \/ UnpackPart(p) \/ WriteMarker(p) PROVE Keeps(v)
  <2>1. StagingDir(p) \in Name /\ IsStaging(StagingDir(p))
    BY <1>3, Paths DEF CreateStaging, UnpackPart, WriteMarker
  <2>2. link'[Final(v)] = link[Final(v)]
    BY <1>1, <1>3, <2>1 DEF CreateStaging, UnpackPart, WriteMarker
  <2>3. Entries(Final(v))' = Entries(Final(v))
    <3>1. Slot'[v] = Slot[v]
      BY <1>3, StagingKeepsSlot
    <3>2. QED
      BY <3>1 DEF Slot
  <2>4. QED
    BY <2>2, <2>3 DEF Keeps
<1>4. ASSUME NEW p \in Pid, Rename(p) PROVE Keeps(v) \/ Installs(p, v)
  <2>1. /\ StagingDir(p) \in Name /\ IsStaging(StagingDir(p)) /\ Dir(p) \in Name
        /\ link[StagingDir(p)] # None /\ tree[link[StagingDir(p)]] = Whole(bin[p])
    BY <1>4, Paths DEF Rename, Staging, Staged
  <2>2. CASE Entries(Dir(p)) # {}
    BY <1>4, <2>2 DEF Rename, Keeps, Entries
  <2>3. CASE Entries(Dir(p)) = {}
    <3>1. /\ \A n \in Name : n # Dir(p) /\ n # StagingDir(p) => link'[n] = link[n]
          /\ tree' = tree
      BY <1>4, <2>1, <2>3 DEF Rename
    <3>2. CASE Dir(p) = Final(v)
      BY <1>4, <2>3, <3>2, RenameInstalls
    <3>3. CASE Dir(p) # Final(v)
      BY <1>1, <2>1, <3>1, <3>3 DEF Keeps, Entries
    <3>4. QED
      BY <3>2, <3>3
  <2>4. QED
    BY <2>2, <2>3
<1>5. ASSUME NEW p \in Pid, RmEntry(p) PROVE Keeps(v) \/ Deletes(p, v)
  <2>1. PICK x \in tree[open[p]] : tree' = [tree EXCEPT ![open[p]] = @ \ {x}]
    BY <1>5 DEF RmEntry
  <2>2. open[p] \in Inode /\ open[p] # None /\ pc[p] \in Removing /\ link' = link
    BY <1>5 DEF RmEntry
  <2>3. CASE open[p] # link[Final(v)]
    <3>1. link[Final(v)] # None => tree'[link[Final(v)]] = tree[link[Final(v)]]
      BY <1>1, <2>1, <2>2, <2>3
    <3>2. QED
      BY <2>2, <3>1 DEF Keeps, Entries
  <2>4. CASE open[p] = link[Final(v)]
    <3>1. pc[p] \in {"rm_dir", "rm_old"}
      <4>1. CASE pc[p] \in {"rm_stage", "drop", "cleanup"}
        <5>1. StagingDir(p) \in Name /\ IsStaging(StagingDir(p))
          BY <4>1, Paths
        <5>2. open[p] = link[StagingDir(p)]
          BY <2>2, <4>1 DEF RemovesItsOwn
        <5>3. StagingDir(p) # Final(v)
          BY <1>1, <5>1
        <5>4. link[Final(v)] = link[StagingDir(p)] /\ link[Final(v)] # None
          BY <2>2, <2>4, <5>2
        <5>5. \A m, n \in Name : link[m] = link[n] /\ link[m] # None => m = n
          BY DEF OneName
        <5>6. QED
          BY <1>1, <5>1, <5>3, <5>4, <5>5
      <4>2. QED
        BY <2>2, <4>1 DEF Removing
    <3>2. Entries(Final(v))' \subseteq Entries(Final(v))
      BY <2>1, <2>2, <2>4 DEF Entries
    <3>3. QED
      BY <1>5, <2>2, <2>4, <3>1, <3>2 DEF Deletes, Dooms
  <2>5. QED
    BY <2>3, <2>4
<1>6. ASSUME NEW p \in Pid, RmDir(p) PROVE Keeps(v) \/ Unlinks(p, v)
  <2>1. RmPath(p) \in Name /\ tree' = tree
    BY <1>6, RmPathType DEF RmDir
  <2>2. CASE RmPath(p) = Final(v) /\ Entries(Final(v)) = {}
    <3>1. link'[Final(v)] = None
      BY <1>6, <2>1, <2>2 DEF RmDir
    <3>2. QED
      BY <1>6, <2>2, <3>1 DEF Unlinks, Entries
  <2>3. CASE ~(RmPath(p) = Final(v) /\ Entries(Final(v)) = {})
    <3>1. link'[Final(v)] = link[Final(v)]
      BY <1>1, <1>6, <2>1, <2>3 DEF RmDir
    <3>2. QED
      BY <2>1, <3>1 DEF Keeps, Entries
  <2>4. QED
    BY <2>2, <2>3
<1>7. ASSUME NEW w \in Version, Damage(w) PROVE Keeps(v) \/ Damage(v)
  <2>1. CASE w = v
    BY <1>7, <2>1
  <2>2. CASE w # v
    <3>1. /\ Final(w) \in Name /\ Final(w) # Final(v) /\ link' = link
          /\ link[Final(w)] \in Inode /\ link[Final(w)] # None
      BY <1>7, <2>2, FinalNames DEF Damage
    <3>2. link[Final(v)] # link[Final(w)]
      BY <1>1, <3>1 DEF OneName
    <3>3. link[Final(v)] # None => tree'[link[Final(v)]] = tree[link[Final(v)]]
      BY <1>1, <1>7, <3>1, <3>2 DEF Damage
    <3>4. QED
      BY <3>1, <3>3 DEF Keeps, Entries
  <2>3. QED
    BY <2>1, <2>2
<1>8. ASSUME NEW p \in Pid, Step(p)
      PROVE  \/ UNCHANGED <<link, tree>>
             \/ CreateStaging(p) \/ UnpackPart(p) \/ WriteMarker(p)
             \/ Rename(p) \/ RmEntry(p) \/ RmDir(p)
  BY <1>8 DEF Step, InstallStep, Install, Hit, Recheck, Rehit, Exists, RenameFault,
     StageStep, StageBegin, UnpackEnd, StageFault,
     SweepStep, SweepBegin, SweepFault, SweepNext, SweepEnd,
     RemoveStep, RmOpen, RmFault, UseStep, SelectVm, BuildCheck, Boot
<1>9. CASE \E p \in Pid : Step(p)
  BY <1>2, <1>3, <1>4, <1>5, <1>6, <1>8, <1>9
<1>10. CASE UNCHANGED vars \/ (\E p \in Pid, b \in Binary : Start(p, b))
            \/ (\E p \in Pid : Exit(p) \/ Crash(p))
  BY <1>2, <1>10 DEF vars, Start, Exit, Crash, Leave
<1>11. QED
  BY <1>7, <1>9, <1>10 DEF Next

-----------------------------------------------------------------------------
(***************************************************************************)
(* What a removal is for.  One of stage finds its directory, a sweep never *)
(* turns on the tree that the build itself has installed, and the          *)
(* directory that a removal of an installed tree has open can be reached   *)
(* by the path it was called with, if at all.                              *)
(***************************************************************************)
Errand(p) ==
  /\ pc[p] = "rm_stage" => link[StagingDir(p)] # None
  /\ pc[p] \in {"sweeping", "rm_old"} => Dir(p) \notin todo[p]
  /\ pc[p] = "rm_old" => victim[p] # Dir(p)
  /\ pc[p] \in {"rm_dir", "rm_old"} /\ open[p] # None
       => \A n \in Name : link[n] = open[p] => n = RmPath(p)

Errands == \A p \in Pid : Errand(p)

(* An installed directory that is open for removal gets no other name. *)
LEMMA OpenStays ==
  ASSUME Inv, [Next]_vars, NEW p \in Pid, pc[p] \in {"rm_dir", "rm_old"}, open[p] # None,
         NEW n \in Name, link'[n] = open[p]
  PROVE  link[n] = open[p]
<1> USE DEF Inv, Types
<1>1. CASE link' = link
  BY <1>1
<1>2. ASSUME NEW q \in Pid, CreateStaging(q) PROVE link[n] = open[p]
  <2>1. StagingDir(q) \in Name /\ link[StagingDir(q)] = None
    BY <1>2, Paths DEF CreateStaging, Staging
  <2>2. PICK i \in FreeInode : link' = [link EXCEPT ![StagingDir(q)] = i]
    BY <1>2, <2>1 DEF CreateStaging
  <2>3. i # open[p]
    BY <2>2 DEF FreeInode
  <2>4. QED
    BY <2>1, <2>2, <2>3
<1>3. ASSUME NEW q \in Pid, Rename(q) PROVE link[n] = open[p]
  <2>1. StagingDir(q) \in Name /\ IsStaging(StagingDir(q)) /\ Dir(q) \in Name
    BY <1>3, Paths DEF Rename
  <2>2. link[StagingDir(q)] # open[p]
    BY <2>1 DEF RemovesItsOwn
  <2>3. QED
    BY <1>3, <2>1, <2>2 DEF Rename
<1>4. ASSUME NEW q \in Pid, RmDir(q) PROVE link[n] = open[p]
  BY <1>4, RmPathType DEF RmDir
<1>5. QED
  BY <1>1, <1>2, <1>3, <1>4, LinksKept

(* The steps of a build keep its own errand. *)
LEMMA ErrandOfStep ==
  ASSUME Inv, Errands, [Next]_vars, NEW p \in Pid, Step(p)
  PROVE  Errand(p)'
<1> USE DEF Inv, Types, Goto
<1>1. Errand(p) /\ Dir(p)' = Dir(p) /\ StagingDir(p)' = StagingDir(p)
  BY StepKeepsBin DEF Errands, Dir, StagingDir
<1>2. CASE InstallStep(p)
  <2>1. pc'[p] \notin {"rm_stage", "sweeping", "rm_old"}
    BY <1>2 DEF InstallStep, Install, Hit, Recheck, Rehit, Exists, Rename, RenameFault
  <2>2. open'[p] = None
    BY <1>2 DEF InstallStep, Install, Hit, Recheck, Rehit, Exists, Rename, RenameFault,
       RemovesItsOwn, Removing
  <2>3. QED
    BY <2>1, <2>2 DEF Errand
<1>3. CASE StageStep(p)
  <2>1. /\ pc'[p] \notin {"sweeping", "rm_old", "rm_dir"}
        /\ pc'[p] = "rm_stage" => link'[StagingDir(p)] # None
    BY <1>3 DEF StageStep, StageBegin, CreateStaging, UnpackPart, UnpackEnd, WriteMarker, StageFault
  <2>2. QED
    BY <1>1, <2>1 DEF Errand
<1>4. CASE SweepStep(p)
  <2>1. open'[p] = None /\ pc'[p] # "rm_stage"
    BY <1>4 DEF SweepStep, SweepBegin, SweepFault, SweepNext, SweepEnd, RemovesItsOwn, Removing
  <2>2. CASE SweepBegin(p)
    <3>1. pc'[p] = "sweeping" /\ Dir(p) \notin todo'[p]
      BY <2>2 DEF SweepBegin, Sweepable
    <3>2. QED
      BY <1>1, <2>1, <3>1 DEF Errand
  <2>3. CASE SweepNext(p)
    <3>1. pc[p] = "sweeping" /\ Dir(p) \notin todo[p]
      BY <1>1, <2>3 DEF SweepNext, Errand
    <3>2. Dir(p) \notin todo'[p] /\ (pc'[p] = "rm_old" => victim'[p] # Dir(p))
      BY <2>3, <3>1 DEF SweepNext
    <3>3. QED
      BY <1>1, <2>1, <3>2 DEF Errand
  <2>4. CASE SweepFault(p) \/ SweepEnd(p)
    <3>1. pc'[p] = "returned"
      BY <2>4 DEF SweepFault, SweepEnd
    <3>2. QED
      BY <3>1 DEF Errand
  <2>5. QED
    BY <1>4, <2>2, <2>3, <2>4 DEF SweepStep
<1>5. CASE RemoveStep(p)
  <2>1. CASE pc'[p] = pc[p]
    <3>1. /\ victim'[p] = victim[p] /\ todo' = todo /\ link' = link
          /\ open'[p] = open[p] \/ (open'[p] = link[RmPath(p)] /\ link[RmPath(p)] # None)
          /\ pc[p] \in Removing
      BY <1>5, <2>1 DEF RemoveStep, RmOpen, RmEntry, RmDir, RmFault, RmReturn, After, Removing
    <3>2. RmPath(p)' = RmPath(p) /\ RmPath(p) \in Name
      BY <1>1, <2>1, <3>1, RmPathType DEF RmPath
    <3>3. ASSUME pc[p] \in {"rm_dir", "rm_old"}, open'[p] # None,
                 NEW n \in Name, link[n] = open'[p]
          PROVE  n = RmPath(p)
      <4>1. CASE open'[p] = open[p]
        BY <1>1, <3>3, <4>1 DEF Errand
      <4>2. CASE open'[p] = link[RmPath(p)]
        BY <3>2, <3>3, <4>2 DEF OneName
      <4>3. QED
        BY <3>1, <4>1, <4>2
    <3>4. QED
      BY <1>1, <2>1, <3>1, <3>2, <3>3 DEF Errand
  <2>2. CASE pc'[p] # pc[p]
    <3>1. /\ open'[p] = None /\ todo' = todo
          /\ pc'[p] \in {"mkdir", "rename", "cleanup", "sweeping", "returned", "failed"}
          /\ pc'[p] = "sweeping" => pc[p] = "rm_old"
      BY <1>5, <2>2 DEF RemoveStep, RmOpen, RmEntry, RmDir, RmFault, RmReturn, After, Removing
    <3>2. QED
      BY <1>1, <3>1 DEF Errand
  <2>3. QED
    BY <2>1, <2>2
<1>6. CASE UseStep(p)
  <2>1. pc'[p] \in {"selected", "resolved", "booted", "failed"}
    BY <1>6 DEF UseStep, SelectVm, BuildCheck, Boot
  <2>2. QED
    BY <2>1 DEF Errand
<1>7. QED
  BY <1>2, <1>3, <1>4, <1>5, <1>6 DEF Step

(* Every step keeps every errand. *)
LEMMA ErrandsInv ==
  ASSUME Inv, Errands, [Next]_vars
  PROVE  Errands'
<1> SUFFICES ASSUME NEW p \in Pid PROVE Errand(p)'
  BY DEF Errands
<1> USE DEF Inv, Types, Goto
<1>1. CASE Step(p)
  BY <1>1, ErrandOfStep
<1>2. CASE pc'[p] \notin {"rm_stage", "sweeping", "rm_old", "rm_dir"}
  BY <1>2 DEF Errand
<1>3. CASE ~Step(p) /\ pc'[p] \in {"rm_stage", "sweeping", "rm_old", "rm_dir"}
  <2>1. /\ pc[p] \notin {"idle", "booted", "failed"} /\ ~Crash(p)
    <3>1. ~Crash(p) /\ ~Exit(p)
      BY <1>3 DEF Crash, Exit, Leave
    <3>2. CASE UNCHANGED vars
      BY <1>3, <3>1, <3>2 DEF vars
    <3>3. CASE \E q \in Pid, b \in Binary : Start(q, b)
      BY <1>3, <3>1, <3>3 DEF Start
    <3>4. CASE \E q \in Pid : q # p /\ (Step(q) \/ Exit(q) \/ Crash(q))
      BY <1>3, <3>1, <3>4, OthersAreLeftAlone
    <3>5. CASE \E v \in Version : Damage(v)
      BY <1>3, <3>1, <3>5 DEF Damage
    <3>6. QED
      BY <1>3, <3>1, <3>2, <3>3, <3>4, <3>5 DEF Next
  <2>2. /\ pc'[p] = pc[p] /\ bin'[p] = bin[p] /\ open'[p] = open[p]
        /\ todo'[p] = todo[p] /\ victim'[p] = victim[p]
    BY <1>3, <2>1, StaysPut
  <2>3. Dir(p)' = Dir(p) /\ StagingDir(p)' = StagingDir(p) /\ RmPath(p)' = RmPath(p)
    BY <2>2 DEF Dir, StagingDir, RmPath
  <2>4. Errand(p)
    BY DEF Errands
  <2>5. pc[p] = "rm_stage" => link'[StagingDir(p)] # None
    <3>1. CASE link' = link
      BY <2>4, <3>1 DEF Errand
    <3>2. CASE \E q \in Pid : q # p /\ (CreateStaging(q) \/ Rename(q) \/ RmDir(q))
      BY <2>4, <3>2, OthersKeepStaging DEF Errand
    <3>3. CASE CreateStaging(p) \/ Rename(p) \/ RmDir(p)
      BY <1>3, <3>3 DEF Step, StageStep, InstallStep, RemoveStep
    <3>4. QED
      BY <3>1, <3>2, <3>3, LinksKept
  <2>6. ASSUME pc[p] \in {"rm_dir", "rm_old"}, open[p] # None, NEW n \in Name, link'[n] = open[p]
        PROVE  n = RmPath(p)
    BY <2>4, <2>6, OpenStays DEF Errand
  <2>7. QED
    BY <2>2, <2>3, <2>4, <2>5, <2>6 DEF Errand
<1>4. QED
  BY <1>1, <1>2, <1>3

-----------------------------------------------------------------------------
(***************************************************************************)
(* Builds that race for one version never all lose.  The hypotheses are    *)
(* those of a race in which nothing else goes wrong: every binary has an   *)
(* archive, no call fails but the listing of a sweep, whose failure the    *)
(* code ignores, no process dies, and what the user may have deleted from  *)
(* an installed tree is what the checks of install look at.                *)
(***************************************************************************)
OnlyRaces ==
  /\ Pid # {} /\ Binary \subseteq Key
  /\ Faults \subseteq {"readdir"} /\ Damageable \subseteq {"helper", "marker"}

Has(x, n) == \E e \in Entries(n) : e[1] = x

Sound(v) == \E k \in Key : Entries(Final(v)) = Whole(k)

(* A tree that nobody is removing is whole, or lacks something that install
   looks for; and a build that goes on from a marker it has read still finds
   one, so the only thing that can be missing is the helper it looks for next. *)
Intact(v) ==
  link[Final(v)] # None /\ (\A p \in Pid : ~Dooms(p, v)) =>
    /\ Sound(v) \/ ~Has("helper", Final(v)) \/ ~Has("marker", Final(v))
    /\ \A p \in Pid : pc[p] \in {"hit", "rehit"} /\ Dir(p) = Final(v) => Has("marker", Final(v))

(* A whole tree has a marker and a helper, and is not empty. *)
LEMMA WholeHasAll ==
  ASSUME NEW n, NEW k, Entries(n) = Whole(k)
  PROVE  Has("helper", n) /\ Has("marker", n) /\ CheckRootfs(n) /\ Entries(n) # {}
<1>1. <<"helper", k>> \in Entries(n) /\ <<"marker", k>> \in Entries(n)
  BY DEF Whole, Part
<1>2. QED
  BY <1>1 DEF Has, CheckRootfs

(* A removal that works on an installed tree goes on until the tree is gone. *)
LEMMA StaysDoomed ==
  ASSUME Inv, Errands, OnlyRaces, [Next]_vars, NEW v \in Version, NEW p \in Pid, Dooms(p, v),
         link'[Final(v)] = link[Final(v)]
  PROVE  Dooms(p, v)'
<1> USE DEF Inv, Types, Goto
<1>1. /\ pc[p] \in {"rm_dir", "rm_old"} /\ open[p] # None /\ open[p] = link[Final(v)]
      /\ Final(v) \in Name /\ Final(v)' = Final(v) /\ pc[p] \in Removing
  BY FinalNames DEF Dooms, Final, Removing
<1>2. RmPath(p) = Final(v)
  BY <1>1 DEF Errands, Errand
<1>3. ~Crash(p) /\ ~RmFault(p)
  BY DEF Crash, RmFault, OnlyRaces
<1>4. ~RmDir(p)
  <2>1. ASSUME RmDir(p) PROVE FALSE
    <3>1. Entries(Final(v)) = {}
      BY <1>1, <2>1 DEF RmDir, Entries
    <3>2. link'[Final(v)] = None
      BY <1>1, <1>2, <2>1, <3>1 DEF RmDir
    <3>3. QED
      BY <1>1, <3>2
  <2>2. QED
    BY <2>1
<1>5. CASE Step(p)
  <2>1. RmEntry(p)
    BY <1>1, <1>3, <1>4, <1>5 DEF Step, InstallStep, Install, Hit, Recheck, Rehit, Exists, Rename,
       RenameFault, StageStep, StageBegin, CreateStaging, UnpackPart, UnpackEnd, WriteMarker,
       StageFault, SweepStep, SweepBegin, SweepFault, SweepNext, SweepEnd,
       RemoveStep, RmOpen, UseStep, SelectVm, BuildCheck, Boot
  <2>2. QED
    BY <1>1, <2>1 DEF RmEntry, Dooms
<1>6. CASE ~Step(p)
  BY <1>1, <1>3, <1>6, StaysPut DEF Dooms
<1>7. QED
  BY <1>5, <1>6

(* Every step keeps the trees intact. *)
LEMMA IntactInv ==
  ASSUME Inv, Errands, OnlyRaces, [Next]_vars, NEW v \in Version, Intact(v)
  PROVE  Intact(v)'
<1> SUFFICES ASSUME link'[Final(v)] # None, \A p \in Pid : ~Dooms(p, v)'
             PROVE  /\ Sound(v)' \/ ~Has("helper", Final(v))' \/ ~Has("marker", Final(v))'
                    /\ \A p \in Pid : (pc[p] \in {"hit", "rehit"} /\ Dir(p) = Final(v))'
                                        => Has("marker", Final(v))'
  BY DEF Intact, Final
<1> USE DEF Inv, Types, Goto
<1>1. CASE Keeps(v)
  <2>1. /\ Entries(Final(v))' = Entries(Final(v)) /\ link'[Final(v)] = link[Final(v)]
        /\ \A p \in Pid : ~Dooms(p, v)
    BY <1>1, StaysDoomed DEF Keeps
  <2>2. \A x : Has(x, Final(v))' <=> Has(x, Final(v))
    BY <2>1 DEF Has
  <2>3. Sound(v)' <=> Sound(v)
    BY <2>1 DEF Sound, Whole, Key
  <2>4. ASSUME NEW p \in Pid, pc'[p] \in {"hit", "rehit"}, Dir(p)' = Final(v)
        PROVE  Has("marker", Final(v))
    <3>1. CASE Install(p) \/ Recheck(p)
      <4>1. MarkerMatches(Dir(p), bin[p]) /\ Dir(p) = Final(v)
        BY <2>4, <3>1 DEF Install, Recheck, Dir
      <4>2. QED
        BY <4>1 DEF MarkerMatches, Has
    <3>2. CASE ~Install(p) /\ ~Recheck(p)
      <4>1. ~Step(p)
        BY <2>4, <3>2 DEF Step, InstallStep, Hit, Rehit, Exists, Rename, RenameFault, StageStep,
           StageBegin, CreateStaging, UnpackPart, UnpackEnd, WriteMarker, StageFault,
           SweepStep, SweepBegin, SweepFault, SweepNext, SweepEnd, RemoveStep, RmOpen, RmEntry,
           RmDir, RmFault, RmReturn, After, Removing, UseStep, SelectVm, BuildCheck, Boot
      <4>2. pc[p] \in {"hit", "rehit"} /\ bin'[p] = bin[p]
        <5>1. ~Crash(p) /\ ~Exit(p)
          BY <2>4 DEF Crash, Exit, Leave
        <5>2. CASE UNCHANGED vars
          BY <2>4, <5>2 DEF vars
        <5>3. CASE \E q \in Pid, b \in Binary : Start(q, b)
          BY <2>4, <5>3 DEF Start
        <5>4. CASE \E q \in Pid : q # p /\ (Step(q) \/ Exit(q) \/ Crash(q))
          BY <2>4, <5>4, OthersAreLeftAlone
        <5>5. CASE \E w \in Version : Damage(w)
          BY <2>4, <5>5 DEF Damage
        <5>6. QED
          BY <4>1, <5>1, <5>2, <5>3, <5>4, <5>5 DEF Next
      <4>3. Dir(p) = Final(v)
        BY <2>4, <4>2 DEF Dir, Final
      <4>4. QED
        BY <2>1, <4>2, <4>3 DEF Intact
    <3>3. QED
      BY <3>1, <3>2
  <2>5. QED
    BY <2>1, <2>2, <2>3, <2>4 DEF Intact, Final
<1>2. ASSUME NEW p \in Pid, Installs(p, v) PROVE Sound(v)' /\ Has("marker", Final(v))'
  <2>1. bin[p] \in Key
    BY <1>2, Paths DEF Installs, Rename
  <2>2. <<"marker", bin[p]>> \in Entries(Final(v))'
    BY <1>2 DEF Installs, Whole, Part
  <2>3. QED
    BY <1>2, <2>1, <2>2 DEF Installs, Sound, Has, Whole, Final, Key
<1>3. ASSUME NEW p \in Pid, Deletes(p, v) PROVE FALSE
  <2>1. Dooms(p, v)'
    BY <1>3 DEF Deletes, RmEntry, Dooms, Final
  <2>2. QED
    BY <2>1
<1>4. ASSUME NEW p \in Pid, Unlinks(p, v) PROVE FALSE
  BY <1>4 DEF Unlinks
<1>5. ASSUME Damage(v)
      PROVE  /\ ~Has("helper", Final(v))' \/ ~Has("marker", Final(v))'
             /\ \A p \in Pid : pc'[p] = "idle"
  <2>1. PICK x \in Damageable :
          tree' = [tree EXCEPT ![link[Final(v)]] = {e \in @ : e[1] # x}]
    BY <1>5 DEF Damage
  <2>2. link' = link /\ pc' = pc /\ link[Final(v)] \in Inode /\ link[Final(v)] # None
    BY <1>5, FinalNames DEF Damage
  <2>3. \A e \in Entries(Final(v))' : e[1] # x
    BY <2>1, <2>2 DEF Entries, Final
  <2>4. ~Has(x, Final(v))'
    BY <2>3 DEF Has, Final
  <2>5. QED
    BY <1>5, <2>2, <2>4 DEF OnlyRaces, Damage
<1>6. QED
  BY <1>1, <1>2, <1>3, <1>4, <1>5, Effects

Early == {"install", "hit", "stage", "rm_stage", "mkdir", "unpack", "mark", "recheck", "rehit",
          "exists"}

Late == {"sweep", "sweeping", "rm_old", "drop", "returned", "selected", "resolved", "booted"}

(* A build that will have a tree to boot from unless another build gets in
   first: it has yet to look, or its rename will succeed, or it is removing
   what is there, or the tree it goes on with is whole. *)
Hope(p, v) ==
  \/ pc[p] \in Early
  \/ pc[p] = "rename" /\ Entries(Final(v)) = {}
  \/ pc[p] = "rm_dir" /\ link[Final(v)] # None /\ open[p] \in {None, link[Final(v)]}
  \/ pc[p] \in Late /\ Sound(v)

AllRace(v) == \A p \in Pid : pc[p] # "idle" /\ Dir(p) = Final(v)

Hopeful(v) == AllRace(v) => \E p \in Pid : Hope(p, v)

(* When all builds are of one version, none of them removes its tree in a
   sweep: it is install that does, to put its own in place. *)
LEMMA DoomedByInstall ==
  ASSUME Inv, Errands, NEW v \in Version, AllRace(v), NEW p \in Pid,
         pc[p] \in Removing, RmPath(p) = Final(v) \/ Dooms(p, v)
  PROVE  pc[p] = "rm_dir" /\ RmPath(p) = Final(v)
<1>1. Final(v) \in Name /\ ~IsStaging(Final(v)) /\ Dir(p) = Final(v)
  BY FinalNames DEF AllRace
<1>2. RmPath(p) = Final(v)
  BY <1>1 DEF Errands, Errand, Dooms
<1>3. pc[p] \in {"rm_stage", "drop", "cleanup"} => IsStaging(RmPath(p))
  BY RmPathType, Paths DEF Inv, Removing
<1>4. pc[p] = "rm_old" => RmPath(p) # Dir(p)
  BY DEF RmPath, Errands, Errand
<1>5. QED
  BY <1>1, <1>2, <1>3, <1>4 DEF Removing

(* A build that found the marker and now finds the helper has a whole tree
   before it, or another build is just about to replace it. *)
LEMMA FoundIsHopeful ==
  ASSUME Inv, Errands, NEW v \in Version, Intact(v), AllRace(v), NEW p \in Pid,
         pc[p] \in {"hit", "rehit"}, CheckRootfs(Final(v))
  PROVE  Sound(v) \/ \E r \in Pid : r # p /\ pc[r] = "rm_dir" /\ Dooms(r, v)
<1>1. Has("helper", Final(v)) /\ link[Final(v)] # None /\ Dir(p) = Final(v)
  BY DEF CheckRootfs, Has, Entries, AllRace
<1>2. CASE \A r \in Pid : ~Dooms(r, v)
  BY <1>1, <1>2 DEF Intact
<1>3. CASE \E r \in Pid : Dooms(r, v)
  <2>1. PICK r \in Pid : Dooms(r, v)
    BY <1>3
  <2>2. pc[r] = "rm_dir"
    BY <2>1, DoomedByInstall DEF Dooms, Removing
  <2>3. QED
    BY <2>1, <2>2
<1>4. QED
  BY <1>2, <1>3

(* The step of a build that has hope, while the tree stays as it is. *)
LEMMA HopeOfStep ==
  ASSUME Inv, Errands, OnlyRaces, [Next]_vars, NEW v \in Version, Intact(v), AllRace(v), Keeps(v),
         NEW p \in Pid, Hope(p, v), Step(p)
  PROVE  \E r \in Pid : Hope(r, v)'
<1> USE DEF Inv, Types, Goto
<1>1. /\ Dir(p) = Final(v) /\ Final(v)' = Final(v) /\ Final(v) \in Name
      /\ link'[Final(v)] = link[Final(v)] /\ Entries(Final(v))' = Entries(Final(v))
  BY FinalNames DEF AllRace, Keeps, Final
<1>2. Sound(v)' <=> Sound(v)
  BY <1>1 DEF Sound, Whole, Key
<1>3. ASSUME pc'[p] \in Early PROVE Hope(p, v)'
  BY <1>3 DEF Hope
<1>4. ASSUME pc'[p] \in Late, Sound(v) PROVE Hope(p, v)'
  BY <1>2, <1>4 DEF Hope
<1>5. ~RenameFault(p) /\ ~StageFault(p) /\ ~RmFault(p)
  BY DEF RenameFault, StageFault, RmFault, OnlyRaces
<1>6. CASE InstallStep(p)
  <2>1. CASE Install(p)
    <3>1. bin[p][2] # None
      BY <2>1, NoneIsNoValue DEF Install, RunsABinary, OnlyRaces, Key
    <3>2. pc'[p] \in {"hit", "stage"}
      BY <2>1, <3>1 DEF Install
    <3>3. QED
      BY <1>3, <3>2 DEF Early
  <2>2. CASE Recheck(p)
    <3>1. pc'[p] \in {"rehit", "exists"}
      BY <2>2 DEF Recheck
    <3>2. QED
      BY <1>3, <3>1 DEF Early
  <2>3. CASE (Hit(p) \/ Rehit(p)) /\ ~CheckRootfs(Final(v))
    <3>1. pc'[p] \in {"stage", "exists"}
      BY <1>1, <2>3 DEF Hit, Rehit
    <3>2. QED
      BY <1>3, <3>1 DEF Early
  <2>4. CASE (Hit(p) \/ Rehit(p)) /\ CheckRootfs(Final(v))
    <3>1. /\ pc[p] \in {"hit", "rehit"} /\ pc'[p] \in {"returned", "drop"} /\ open' = open
          /\ \A r \in Pid : r # p => pc'[r] = pc[r]
      BY <1>1, <2>4 DEF Hit, Rehit
    <3>2. CASE Sound(v)
      BY <1>4, <3>1, <3>2 DEF Late
    <3>3. CASE \E r \in Pid : r # p /\ pc[r] = "rm_dir" /\ Dooms(r, v)
      BY <1>1, <3>1, <3>3 DEF Dooms, Hope
    <3>4. QED
      BY <2>4, <3>1, <3>2, <3>3, FoundIsHopeful
  <2>5. CASE Exists(p)
    <3>1. open'[p] = None
      BY <2>5 DEF Exists, RemovesItsOwn, Removing
    <3>2. CASE link[Final(v)] # None
      BY <1>1, <2>5, <3>1, <3>2 DEF Exists, Hope
    <3>3. CASE link[Final(v)] = None
      <4>1. Entries(Final(v)) = {}
        BY <3>3 DEF Entries
      <4>2. QED
        BY <1>1, <2>5, <3>3, <4>1 DEF Exists, Hope
    <3>4. QED
      BY <3>2, <3>3
  <2>6. CASE Rename(p)
    <3>1. Entries(Final(v)) = {}
      BY <2>6 DEF Rename, Hope, Early, Late
    <3>2. Installs(p, v) /\ pc'[p] = "sweep" /\ bin[p] \in Key
      BY <1>1, <2>6, <3>1, RenameInstalls
    <3>3. Sound(v)
      BY <1>1, <3>2 DEF Installs, Sound
    <3>4. QED
      BY <1>4, <3>2, <3>3 DEF Late
  <2>7. QED
    BY <1>5, <1>6, <2>1, <2>2, <2>3, <2>4, <2>5, <2>6 DEF InstallStep
<1>7. CASE StageStep(p)
  <2>1. pc'[p] \in {"rm_stage", "mkdir", "unpack", "mark", "recheck"}
    BY <1>5, <1>7 DEF StageStep, StageBegin, CreateStaging, UnpackPart, UnpackEnd, WriteMarker
  <2>2. QED
    BY <1>3, <2>1 DEF Early
<1>8. CASE SweepStep(p)
  <2>1. /\ pc[p] \in {"sweep", "sweeping"}
        /\ pc'[p] \in {"sweeping", "rm_old", "returned"}
    BY <1>8 DEF SweepStep, SweepBegin, SweepFault, SweepNext, SweepEnd
  <2>2. QED
    BY <1>4, <2>1 DEF Hope, Early, Late
<1>9. CASE RemoveStep(p)
  <2>1. pc[p] \in Removing /\ (RmOpen(p) \/ RmEntry(p) \/ RmDir(p))
    BY <1>5, <1>9 DEF RemoveStep, RmOpen, RmEntry, RmDir
  <2>2. CASE pc[p] = "rm_stage"
    <3>1. /\ link[StagingDir(p)] # None /\ RmPath(p) = StagingDir(p)
          /\ open[p] # None => open[p] = link[StagingDir(p)]
      BY <2>2 DEF Errands, Errand, RmPath, RemovesItsOwn
    <3>2. RmDir(p) => Entries(RmPath(p)) = {}
      BY <3>1 DEF RmDir, Entries
    <3>3. pc'[p] \in {"rm_stage", "mkdir"}
      BY <2>1, <2>2, <3>1, <3>2 DEF RmOpen, RmEntry, RmDir, RmReturn, After
    <3>4. QED
      BY <1>3, <3>3 DEF Early
  <2>3. CASE pc[p] = "rm_dir"
    <3>1. RmPath(p) = Final(v) /\ link[Final(v)] # None /\ open[p] \in {None, link[Final(v)]}
      BY <1>1, <2>3 DEF RmPath, Hope, Early, Late
    <3>2. CASE RmOpen(p) \/ RmEntry(p)
      <4>1. pc'[p] = "rm_dir" /\ open'[p] = link[Final(v)]
        BY <2>3, <3>1, <3>2 DEF RmOpen, RmEntry
      <4>2. QED
        BY <1>1, <3>1, <4>1 DEF Hope
    <3>3. CASE RmDir(p)
      <4>1. Entries(Final(v)) = {}
        BY <3>1, <3>3 DEF RmDir, Entries
      <4>2. link'[Final(v)] = None
        BY <1>1, <3>1, <3>3, <4>1 DEF RmDir
      <4>3. QED
        BY <1>1, <3>1, <4>2
    <3>4. QED
      BY <2>1, <3>2, <3>3
  <2>4. CASE pc[p] \in {"rm_old", "drop"}
    <3>1. pc'[p] \in {"rm_old", "drop", "sweeping", "returned"}
      BY <2>1, <2>4 DEF RmOpen, RmEntry, RmDir, RmReturn, After
    <3>2. QED
      BY <1>4, <2>4, <3>1 DEF Hope, Early, Late
  <2>5. CASE pc[p] = "cleanup"
    BY <2>5 DEF Hope, Early, Late
  <2>6. QED
    BY <2>1, <2>2, <2>3, <2>4, <2>5 DEF Removing
<1>10. CASE UseStep(p)
  <2>1. pc[p] \in {"returned", "selected", "resolved"}
    BY <1>10 DEF UseStep, SelectVm, BuildCheck, Boot
  <2>2. Sound(v)
    BY <2>1 DEF Hope, Early, Late
  <2>3. CheckRootfs(Final(v)) /\ Entries(Final(v)) # {}
    BY <2>2, WholeHasAll DEF Sound
  <2>4. link[Final(v)] # None
    BY <2>3 DEF Entries
  <2>5. pc'[p] \in {"selected", "resolved", "booted"}
    BY <1>1, <1>10, <2>3, <2>4 DEF UseStep, SelectVm, BuildCheck, Boot
  <2>6. QED
    BY <1>4, <2>2, <2>5 DEF Late
<1>11. QED
  BY <1>6, <1>7, <1>8, <1>9, <1>10 DEF Step

(* As long as all builds are of one version, one of them has hope. *)
LEMMA HopefulInv ==
  ASSUME Inv, Errands, OnlyRaces, [Next]_vars, NEW v \in Version, Intact(v), Hopeful(v)
  PROVE  Hopeful(v)'
<1> SUFFICES ASSUME AllRace(v)' PROVE \E p \in Pid : Hope(p, v)'
  BY DEF Hopeful
<1> USE DEF Inv, Types, Goto
<1>1. Final(v) \in Name /\ Final(v)' = Final(v)
  BY FinalNames DEF Final
<1>2. CASE \E q \in Pid, b \in Binary : Start(q, b)
  <2>1. PICK q \in Pid : pc'[q] = "install"
    BY <1>2 DEF Start
  <2>2. QED
    BY <2>1 DEF Hope, Early
<1>3. CASE ~\E q \in Pid, b \in Binary : Start(q, b)
  <2>1. ~\E q \in Pid : Exit(q) \/ Crash(q)
    BY DEF Exit, Crash, Leave, AllRace
  <2>2. bin' = bin
    BY <1>3, <2>1, StepKeepsBin DEF Next, vars, Damage
  <2>3. \A q \in Pid : pc[q] # "idle"
    <3>1. CASE \E p \in Pid : Step(p)
      <4>1. PICK p \in Pid : Step(p)
        BY <3>1
      <4>2. pc[p] # "idle"
        BY <4>1 DEF Step, InstallStep, Install, Hit, Recheck, Rehit, Exists, Rename, RenameFault,
           StageStep, StageBegin, CreateStaging, UnpackPart, UnpackEnd, WriteMarker, StageFault,
           SweepStep, SweepBegin, SweepFault, SweepNext, SweepEnd, RemoveStep, RmOpen, RmEntry,
           RmDir, RmFault, Removing, UseStep, SelectVm, BuildCheck, Boot
      <4>3. QED
        BY <4>1, <4>2, OthersAreLeftAlone DEF AllRace
    <3>2. CASE UNCHANGED pc
      BY <3>2 DEF AllRace
    <3>3. QED
      BY <1>3, <2>1, <3>1, <3>2 DEF Next, vars, Damage
  <2>4. AllRace(v)
    BY <1>1, <2>2, <2>3 DEF AllRace, Dir, Final
  <2>5. PICK p \in Pid : Hope(p, v)
    BY <2>4 DEF Hopeful
  <2>6. CASE Keeps(v)
    <3>1. CASE Step(p)
      BY <2>4, <2>5, <2>6, <3>1, HopeOfStep
    <3>2. CASE ~Step(p)
      <4>1. pc'[p] = pc[p] /\ open'[p] = open[p]
        <5>1. CASE \E q \in Pid : q # p /\ Step(q)
          BY <5>1, OthersAreLeftAlone
        <5>2. CASE UNCHANGED <<pc, open>>
          BY <5>2
        <5>3. QED
          BY <1>3, <2>1, <3>2, <5>1, <5>2 DEF Next, vars, Damage
      <4>2. Sound(v)' <=> Sound(v)
        BY <1>1, <2>6 DEF Keeps, Sound, Whole, Key
      <4>3. Hope(p, v)'
        BY <1>1, <2>5, <2>6, <4>1, <4>2 DEF Keeps, Hope
      <4>4. QED
        BY <4>3
    <3>3. QED
      BY <3>1, <3>2
  <2>7. CASE Damage(v)
    BY <2>3, <2>5, <2>7 DEF Damage
  <2>8. ASSUME NEW q \in Pid, Installs(q, v) PROVE Hope(q, v)'
    <3>1. pc'[q] = "sweep" /\ bin[q] \in Key
      BY <2>8, Paths DEF Installs, Rename
    <3>2. Sound(v)'
      BY <1>1, <2>8, <3>1 DEF Installs, Sound, Whole, Key
    <3>3. QED
      BY <3>1, <3>2 DEF Hope, Late
  <2>9. ASSUME NEW q \in Pid, Deletes(q, v) PROVE Hope(q, v)'
    <3>1. pc[q] = "rm_dir"
      BY <2>4, <2>9, DoomedByInstall DEF Deletes, Dooms, Removing
    <3>2. QED
      BY <1>1, <2>9, <3>1 DEF Deletes, Dooms, RmEntry, Hope
  <2>10. ASSUME NEW q \in Pid, Unlinks(q, v) PROVE Hope(q, v)'
    <3>1. pc[q] = "rm_dir" /\ RmPath(q) = Final(v)
      BY <2>4, <2>10, DoomedByInstall DEF Unlinks, RmDir
    <3>2. pc'[q] = "rename"
      BY <2>10, <3>1 DEF Unlinks, RmDir, RmReturn, After
    <3>3. QED
      BY <1>1, <2>10, <3>2 DEF Unlinks, Hope
  <2>11. QED
    BY <2>6, <2>7, <2>8, <2>9, <2>10, Effects
<1>4. QED
  BY <1>2, <1>3

(* A race that is over has a build that booted, and its tree is whole. *)
LEMMA HopeWins ==
  ASSUME Inv, OnlyRaces, \A v \in Version : Hopeful(v)
  PROVE  RaceHasAWinner
<1> SUFFICES ASSUME \A p, q \in Pid : pc[p] \in {"booted", "failed"} /\ Dir(p) = Dir(q)
             PROVE  \E p \in Pid : /\ pc[p] = "booted"
                                   /\ \E k \in Key : Entries(Dir(p)) = Whole(k)
  BY DEF RaceHasAWinner
<1>1. PICK q \in Pid : TRUE
  BY DEF OnlyRaces
<1>2. PICK v \in Version : Dir(q) = Final(v)
  BY <1>1 DEF Inv, RunsABinary, OnlyRaces, Key, Dir
<1>3. AllRace(v)
  BY <1>1, <1>2 DEF AllRace
<1>4. PICK p \in Pid : Hope(p, v)
  BY <1>2, <1>3 DEF Hopeful
<1>5. pc[p] = "booted" /\ Sound(v)
  BY <1>4 DEF Hope, Early, Late
<1>6. QED
  BY <1>3, <1>5 DEF Sound, AllRace

(* Errands hold in every behaviour of the cache. *)
LEMMA ErrandsAlways == Spec => []Errands
<1>1. Init => Errands
  BY DEF Init, Quiet, Errands, Errand
<1>2. Inv /\ Errands /\ [Next]_vars => Errands'
  BY ErrandsInv
<1>3. QED
  BY <1>1, <1>2, Invariance, PTL DEF Spec

IntactAll == \A v \in Version : Intact(v)

HopefulAll == \A v \in Version : Hopeful(v)

(* Whatever the number of builds that race for one version, and whatever went
   on before, damage and sweeps of other versions included: when all have ended,
   one of them has booted, and the tree they leave installed is whole. *)
THEOREM RacesHaveWinners ==
  ASSUME OnlyRaces
  PROVE  Spec => []RaceHasAWinner
<1>1. Init => IntactAll /\ HopefulAll
  BY FinalNames DEF Init, Quiet, IntactAll, Intact, HopefulAll, Hopeful, AllRace, OnlyRaces
<1>2. Inv /\ Errands /\ IntactAll /\ HopefulAll /\ [Next]_vars => IntactAll' /\ HopefulAll'
  BY IntactInv, HopefulInv DEF IntactAll, HopefulAll
<1>3. Inv /\ HopefulAll => RaceHasAWinner
  BY HopeWins DEF HopefulAll
<1>4. QED
  BY <1>1, <1>2, <1>3, Invariance, ErrandsAlways, PTL DEF Spec

-----------------------------------------------------------------------------
(***************************************************************************)
(* Builds that do not race.  Under OrderlySpec, with one archive on the    *)
(* host (and binaries without), at most one build at a time is between the *)
(* marker it did not find and its rename, and no VM runs then: whatever    *)
(* fails or dies meanwhile, a tree that checks out is whole.               *)
(***************************************************************************)
OneArchive(k) ==
  /\ k \in Key /\ Binary \subseteq {k, <<k[1], None>>}
  /\ Damageable \subseteq {"helper", "marker"}

Ended == {"idle", "booted", "failed"}

Installing == {"stage", "rm_stage", "mkdir", "unpack", "mark", "recheck", "rehit", "drop",
               "exists", "rm_dir", "rename"}

Serving == {"sweep", "sweeping", "returned", "selected", "resolved", "booted"}

Good(k) == Entries(Final(k[1])) = Whole(k)

InTurn(p, k) ==
  /\ pc[p] \in Installing => ~Good(k)
  /\ pc[p] \in Installing \cup {"install", "hit"} /\ ~Good(k)
       => \A q \in Pid : q = p \/ pc[q] \in Ended
  /\ pc[p] \in {"hit", "rehit"} => Has("marker", Final(k[1]))
  /\ pc[p] \in Serving => Good(k)
  /\ pc[p] = "booted" => root[p] = link[Final(k[1])]
  /\ pc[p] \notin {"rm_old", "drop"} /\ todo[p] = {}

Checkable(k) == Good(k) \/ ~Has("helper", Final(k[1])) \/ ~Has("marker", Final(k[1]))

OneVersionOnly(k) == \A n \in Name : link[n] # None => n[1] = k[1]

InOrder(k) == (\A p \in Pid : InTurn(p, k)) /\ Checkable(k) /\ OneVersionOnly(k)

(* Every build past its start is of the one version, and one that goes on is
   of the one archive. *)
LEMMA BinIs ==
  ASSUME Inv, NEW k, OneArchive(k), NEW p \in Pid
  PROVE  /\ k[1] \in Version /\ k = <<k[1], k[2]>> /\ k[2] # None
         /\ pc[p] # "idle" => bin[p] \in {k, <<k[1], None>>} /\ Dir(p) = Final(k[1])
         /\ pc[p] \notin {"idle", "install", "failed"} => bin[p] = k
<1>1. k[1] \in Version /\ k = <<k[1], k[2]>> /\ k[2] \in Digest /\ k[2] # None
  BY NoneIsNoValue DEF OneArchive, Key
<1>2. pc[p] # "idle" => bin[p] \in {k, <<k[1], None>>}
  BY DEF Inv, RunsABinary, OneArchive
<1>3. <<k[1], None>> \notin Key
  BY NoneIsNoValue DEF Key
<1>4. QED
  BY <1>1, <1>2, <1>3 DEF Inv, RunsABinary, Dir

(* A build that waits for its turn or has ended takes no step of install. *)
LEMMA StepIsActive ==
  ASSUME NEW p \in Pid, Step(p)
  PROVE  pc[p] \notin Ended
  BY DEF Step, InstallStep, Install, Hit, Recheck, Rehit, Exists, Rename, RenameFault,
     StageStep, StageBegin, CreateStaging, UnpackPart, UnpackEnd, WriteMarker, StageFault,
     SweepStep, SweepBegin, SweepFault, SweepNext, SweepEnd, RemoveStep, RmOpen, RmEntry,
     RmDir, RmFault, Removing, UseStep, SelectVm, BuildCheck, Boot, Ended

(* Nothing but directories of the one version appears. *)
LEMMA OneVersionInv ==
  ASSUME Inv, NEW k, OneArchive(k), OneVersionOnly(k), [Next]_vars
  PROVE  OneVersionOnly(k)'
<1> SUFFICES ASSUME NEW n \in Name, link'[n] # None PROVE n[1] = k[1]
  BY DEF OneVersionOnly
<1> USE DEF Inv, Types
<1>1. CASE link' = link
  BY <1>1 DEF OneVersionOnly
<1>2. ASSUME NEW p \in Pid, CreateStaging(p) \/ Rename(p) PROVE n[1] = k[1]
  <2>1. pc[p] \notin {"idle", "install", "failed"}
    BY <1>2 DEF CreateStaging, Rename
  <2>2. bin[p] = k /\ StagingDir(p)[1] = k[1] /\ Dir(p)[1] = k[1]
    BY <2>1, BinIs, Paths
  <2>3. CASE n \in {Dir(p), StagingDir(p)}
    BY <2>2, <2>3
  <2>4. CASE n \notin {Dir(p), StagingDir(p)}
    <3>1. link'[n] = link[n]
      BY <1>2, <2>4 DEF CreateStaging, Rename
    <3>2. QED
      BY <3>1 DEF OneVersionOnly
  <2>5. QED
    BY <2>3, <2>4
<1>3. ASSUME NEW p \in Pid, RmDir(p) PROVE n[1] = k[1]
  BY <1>3 DEF RmDir, OneVersionOnly
<1>4. QED
  BY <1>1, <1>2, <1>3, LinksKept

(* A build's own step, while the installed tree stays as it is. *)
LEMMA TurnOfStep ==
  ASSUME Inv, NEW k, OneArchive(k), InOrder(k), [Next]_vars, Keeps(k[1]), NEW p \in Pid, Step(p)
  PROVE  InTurn(p, k)'
<1> USE DEF Inv, Types, Goto
<1> DEFINE n == Final(k[1])
<1>1. /\ n \in Name /\ n' = n /\ ~IsStaging(n) /\ k[1] \in Version /\ Dir(p) = n
      /\ bin[p] \in {k, <<k[1], None>>} /\ (pc[p] \notin {"idle", "install", "failed"} => bin[p] = k)
  BY FinalNames, BinIs, StepIsActive DEF Final, Ended
<1>2. /\ link'[n] = link[n] /\ Entries(n)' = Entries(n)
      /\ Good(k)' <=> Good(k)
      /\ \A x : Has(x, n)' <=> Has(x, n)
  BY DEF Keeps, Good, Has, Final, Whole
<1>3. InTurn(p, k) /\ Checkable(k)
  BY DEF InOrder
<1>4. Good(k) => Has("helper", n) /\ Has("marker", n) /\ CheckRootfs(n) /\ Entries(n) # {}
           /\ MarkerMatches(n, k)
  BY WholeHasAll DEF Good, Whole, Part, MarkerMatches
<1>5. Has("helper", n) /\ Has("marker", n) => Good(k)
  BY <1>3 DEF Checkable
<1>6. CheckRootfs(n) => Has("helper", n)
  BY DEF CheckRootfs, Has
<1>7. /\ pc[p] \in Installing \cup {"install", "hit"} /\ ~Good(k)
           => \A q \in Pid : q = p \/ pc'[q] \in Ended
      /\ todo[p] = {} /\ pc[p] \notin {"rm_old", "drop"}
  BY <1>3, OthersAreLeftAlone DEF InTurn
<1>8. CASE InstallStep(p)
  <2>1. todo' = todo
    BY <1>8 DEF InstallStep, Install, Hit, Recheck, Rehit, Exists, Rename, RenameFault
  <2>2. CASE Install(p)
    <3>1. CASE bin[p] = k
      <4>1. \/ pc'[p] = "hit" /\ MarkerMatches(n, k)
            \/ pc'[p] = "stage" /\ ~MarkerMatches(n, k)
            \/ pc'[p] = "failed"
        BY <1>1, <2>2, <3>1 DEF Install
      <4>2. MarkerMatches(n, k) => Has("marker", n)
        BY DEF MarkerMatches, Has
      <4>3. pc[p] = "install"
        BY <2>2 DEF Install
      <4>4. QED
        BY <1>2, <1>4, <1>7, <2>1, <4>1, <4>2, <4>3 DEF InTurn, Installing, Serving
    <3>2. CASE bin[p] = <<k[1], None>>
      <4>1. pc'[p] = "failed"
        BY <2>2, <3>2 DEF Install
      <4>2. QED
        BY <1>7, <2>1, <4>1 DEF InTurn, Installing, Serving
    <3>3. QED
      BY <1>1, <3>1, <3>2
  <2>3. CASE Hit(p)
    <3>1. pc[p] = "hit" /\ pc'[p] = IF CheckRootfs(n) THEN "returned" ELSE "stage"
      BY <1>1, <2>3 DEF Hit
    <3>2. Has("marker", n)
      BY <1>3, <3>1 DEF InTurn
    <3>3. CheckRootfs(n) <=> Good(k)
      BY <1>4, <1>5, <1>6, <3>2
    <3>4. QED
      BY <1>2, <1>7, <2>1, <3>1, <3>3 DEF InTurn, Installing, Serving
  <2>4. CASE Recheck(p)
    <3>1. /\ pc[p] = "recheck" /\ pc'[p] \in {"rehit", "exists"} /\ bin[p] = k
          /\ pc'[p] = "rehit" => MarkerMatches(n, k)
      BY <1>1, <2>4 DEF Recheck
    <3>2. MarkerMatches(n, k) => Has("marker", n)
      BY DEF MarkerMatches, Has
    <3>3. ~Good(k)
      BY <1>3, <3>1 DEF InTurn, Installing
    <3>4. QED
      BY <1>2, <1>7, <2>1, <3>1, <3>2, <3>3 DEF InTurn, Installing, Serving
  <2>5. CASE Rehit(p)
    <3>1. pc[p] = "rehit" /\ pc'[p] = IF CheckRootfs(n) THEN "drop" ELSE "exists"
      BY <1>1, <2>5 DEF Rehit
    <3>2. Has("marker", n) /\ ~Good(k)
      BY <1>3, <3>1 DEF InTurn, Installing
    <3>3. ~CheckRootfs(n)
      BY <1>5, <1>6, <3>2
    <3>4. QED
      BY <1>2, <1>7, <2>1, <3>1, <3>2, <3>3 DEF InTurn, Installing, Serving
  <2>6. CASE Exists(p)
    <3>1. pc[p] = "exists" /\ pc'[p] \in {"rm_dir", "rename"}
      BY <2>6 DEF Exists
    <3>2. ~Good(k)
      BY <1>3, <3>1 DEF InTurn, Installing
    <3>3. QED
      BY <1>2, <1>7, <2>1, <3>1, <3>2 DEF InTurn, Installing, Serving
  <2>7. CASE Rename(p) \/ RenameFault(p)
    <3>1. pc'[p] = "cleanup"
      <4>1. CASE RenameFault(p) \/ Entries(n) # {}
        BY <1>1, <2>7, <4>1 DEF Rename, RenameFault
      <4>2. CASE Rename(p) /\ Entries(n) = {}
        <5>1. Entries(n)' = Whole(bin[p]) /\ bin[p] = k
          BY <1>1, <4>2, RenameInstalls DEF Installs, Rename
        <5>2. Good(k)
          BY <1>2, <5>1 DEF Good
        <5>3. QED
          BY <1>4, <4>2, <5>2
      <4>3. QED
        BY <2>7, <4>1, <4>2
    <3>2. QED
      BY <1>7, <2>1, <3>1 DEF InTurn, Installing, Serving
  <2>8. QED
    BY <1>8, <2>2, <2>3, <2>4, <2>5, <2>6, <2>7 DEF InstallStep
<1>9. CASE StageStep(p)
  <2>1. /\ pc[p] \in {"stage", "mkdir", "unpack", "mark"} /\ todo' = todo
        /\ pc'[p] \in {"rm_stage", "mkdir", "unpack", "mark", "recheck", "cleanup"}
    BY <1>9 DEF StageStep, StageBegin, CreateStaging, UnpackPart, UnpackEnd, WriteMarker, StageFault
  <2>2. ~Good(k)
    BY <1>3, <2>1 DEF InTurn, Installing
  <2>3. QED
    BY <1>2, <1>7, <2>1, <2>2 DEF InTurn, Installing, Serving
<1>10. CASE SweepStep(p)
  <2>1. pc[p] \in {"sweep", "sweeping"} /\ Good(k)
    BY <1>3, <1>10 DEF SweepStep, SweepBegin, SweepFault, SweepNext, SweepEnd, InTurn, Serving
  <2>2. CASE SweepBegin(p)
    <3>1. \A m \in Name : link[m] # None /\ ~IsStaging(m) => m = n
      BY DEF InOrder, OneVersionOnly, Name, IsStaging, Final
    <3>2. todo'[p] = {} /\ pc'[p] = "sweeping"
      BY <1>1, <2>2, <3>1 DEF SweepBegin, Sweepable
    <3>3. QED
      BY <1>2, <2>1, <3>2 DEF InTurn, Installing, Serving
  <2>3. CASE SweepNext(p)
    BY <1>7, <2>3 DEF SweepNext
  <2>4. CASE SweepFault(p) \/ SweepEnd(p)
    <3>1. pc'[p] = "returned" /\ todo' = todo
      BY <2>4 DEF SweepFault, SweepEnd
    <3>2. QED
      BY <1>2, <1>7, <2>1, <3>1 DEF InTurn, Installing, Serving
  <2>5. QED
    BY <1>10, <2>2, <2>3, <2>4 DEF SweepStep
<1>11. CASE RemoveStep(p)
  <2>1. /\ pc[p] \in {"rm_stage", "rm_dir", "cleanup"} /\ todo' = todo
        /\ pc[p] = "cleanup" => pc'[p] \in {"cleanup", "failed"}
        /\ pc[p] # "cleanup" => pc'[p] \in {"rm_stage", "rm_dir", "mkdir", "rename", "cleanup"}
    BY <1>7, <1>11 DEF RemoveStep, RmOpen, RmEntry, RmDir, RmFault, RmReturn, After, Removing
  <2>2. pc[p] # "cleanup" => ~Good(k)
    BY <1>3, <2>1 DEF InTurn, Installing
  <2>3. QED
    BY <1>2, <1>7, <2>1, <2>2 DEF InTurn, Installing, Serving
<1>12. CASE UseStep(p)
  <2>1. /\ pc[p] \in {"returned", "selected", "resolved"} /\ todo' = todo
        /\ pc'[p] \in {"selected", "resolved", "booted", "failed"}
        /\ pc'[p] = "booted" => root'[p] = link[n]
    BY <1>1, <1>12 DEF UseStep, SelectVm, BuildCheck, Boot
  <2>2. Good(k)
    BY <1>3, <2>1 DEF InTurn, Serving
  <2>3. QED
    BY <1>1, <1>2, <1>7, <2>1, <2>2 DEF InTurn, Installing, Serving
<1>13. QED
  BY <1>8, <1>9, <1>10, <1>11, <1>12 DEF Step

(* While the installed tree stays as it is, everybody stays in turn. *)
LEMMA TurnsKept ==
  ASSUME Inv, NEW k, OneArchive(k), InOrder(k), [Next /\ Orderly]_vars, Keeps(k[1]),
         NEW p \in Pid
  PROVE  InTurn(p, k)'
<1> USE DEF Inv, Types, Goto
<1> DEFINE n == Final(k[1])
<1>1. n' = n /\ InTurn(p, k) /\ k[1] \in Version
  BY BinIs DEF Final, InOrder
<1>2. /\ link'[n] = link[n]
      /\ Good(k)' <=> Good(k)
      /\ \A x : Has(x, n)' <=> Has(x, n)
  BY DEF Keeps, Good, Has, Final, Whole
<1>3. CASE Step(p)
  BY <1>3, TurnOfStep
<1>4. ASSUME NEW q \in Pid, q # p, Step(q) PROVE InTurn(p, k)'
  <2>1. pc'[p] = pc[p] /\ todo'[p] = todo[p] /\ root'[p] = root[p] /\ pc[q] \notin Ended
    BY <1>4, OthersAreLeftAlone, StepIsActive
  <2>2. ~(pc[p] \in Installing \cup {"install", "hit"} /\ ~Good(k))
    BY <1>1, <1>4, <2>1 DEF InTurn
  <2>3. QED
    BY <1>1, <1>2, <2>1, <2>2 DEF InTurn
<1>5. ASSUME NEW q \in Pid, Exit(q) \/ Crash(q) PROVE InTurn(p, k)'
  <2>1. /\ pc'[q] = "idle" /\ todo'[q] = {}
        /\ \A r \in Pid : r # q => /\ pc'[r] = pc[r] /\ todo'[r] = todo[r] /\ root'[r] = root[r]
    BY <1>5 DEF Exit, Crash, Leave
  <2>2. CASE p = q
    BY <2>1, <2>2 DEF InTurn, Installing, Serving
  <2>3. CASE p # q
    BY <1>1, <1>2, <2>1, <2>3 DEF InTurn, Ended
  <2>4. QED
    BY <2>2, <2>3
<1>6. ASSUME NEW q \in Pid, NEW b \in Binary, Start(q, b), Orderly PROVE InTurn(p, k)'
  <2>1. /\ pc[q] = "idle" /\ pc'[q] = "install" /\ bin'[q] = b /\ todo' = todo /\ root' = root
        /\ \A r \in Pid : r # q => pc'[r] = pc[r]
    BY <1>6 DEF Start
  <2>2. Good(k) \/ \A r \in Pid : pc[r] \in Ended
    <3>1. \/ \A r \in Pid : pc[r] \in Ended
          \/ Entries(Final(b[1])) = Whole(b)
      BY <1>6, <2>1 DEF Orderly, Ended
    <3>2. b = k \/ b = <<k[1], None>>
      BY DEF OneArchive
    <3>3. CASE b = <<k[1], None>> /\ Entries(Final(b[1])) = Whole(b)
      <4>1. <<"marker", b>> \in Entries(n)
        BY <3>3 DEF Whole, Part
      <4>2. Entries(n) \subseteq Part \X Key
        BY <1>1, FinalNames DEF Entries
      <4>3. b \in Key
        BY <4>1, <4>2
      <4>4. QED
        BY <3>3, <4>3, NoneIsNoValue DEF Key
    <3>4. QED
      BY <3>1, <3>2, <3>3 DEF Good
  <2>3. CASE p = q
    BY <1>1, <1>2, <2>1, <2>2, <2>3 DEF InTurn, Installing, Serving
  <2>4. CASE p # q
    <3>1. ~(pc[p] \in Installing \cup {"install", "hit"} /\ ~Good(k))
      BY <2>2 DEF Installing, Ended
    <3>2. QED
      BY <1>1, <1>2, <2>1, <2>4, <3>1 DEF InTurn
  <2>5. QED
    BY <2>3, <2>4
<1>7. CASE UNCHANGED vars \/ \E v \in Version : Damage(v)
  <2>1. UNCHANGED <<pc, todo, root>>
    BY <1>7 DEF vars, Damage
  <2>2. QED
    BY <1>1, <1>2, <2>1 DEF InTurn
<1>8. QED
  BY <1>3, <1>4, <1>5, <1>6, <1>7 DEF Next

(* The steps that change the installed tree keep everybody in turn: only the
   one build whose turn it is takes them, or the user when nobody builds. *)
LEMMA TurnsChanged ==
  ASSUME Inv, NEW k, OneArchive(k), InOrder(k), [Next]_vars, ~Keeps(k[1])
  PROVE  (\A p \in Pid : InTurn(p, k)') /\ Checkable(k)'
<1> USE DEF Inv, Types, Goto
<1> DEFINE n == Final(k[1])
<1>1. n' = n /\ n \in Name /\ ~IsStaging(n) /\ k[1] \in Version
  BY BinIs, FinalNames DEF Final, OneArchive, Key
<1>2. ASSUME NEW q \in Pid, pc[q] \in Installing
      PROVE  /\ ~Good(k)
             /\ \A p \in Pid : p # q => pc[p] \in {"idle", "failed"}
             /\ \A p \in Pid : todo[p] = {}
  BY <1>2 DEF InOrder, InTurn, Ended, Serving
<1>3. ASSUME NEW q \in Pid, Installs(q, k[1])
      PROVE  (\A p \in Pid : InTurn(p, k)') /\ Checkable(k)'
  <2>1. pc[q] = "rename" /\ pc'[q] = "sweep" /\ bin[q] = k
    BY <1>1, <1>3, RenameInstalls, BinIs DEF Installs, Rename
  <2>2. Good(k)'
    BY <1>1, <1>3, <2>1 DEF Installs, Good, Whole
  <2>3. todo' = todo /\ \A p \in Pid : p # q => pc'[p] = pc[p]
    BY <1>3 DEF Installs, Rename
  <2>4. \A p \in Pid : pc'[p] \in {"idle", "failed", "sweep"} /\ todo'[p] = {}
    BY <1>2, <2>1, <2>3 DEF Installing
  <2>5. QED
    BY <2>2, <2>4 DEF InTurn, Installing, Serving, Checkable
<1>4. ASSUME NEW q \in Pid, Deletes(q, k[1]) \/ Unlinks(q, k[1])
      PROVE  (\A p \in Pid : InTurn(p, k)') /\ Checkable(k)'
  <2>1. pc[q] = "rm_dir"
    <3>1. pc[q] \notin {"rm_old", "drop"}
      BY DEF InOrder, InTurn
    <3>2. CASE Deletes(q, k[1])
      BY <3>1, <3>2 DEF Deletes, Dooms
    <3>3. CASE Unlinks(q, k[1])
      <4>1. pc[q] \in Removing /\ RmPath(q) = n
        BY <3>3 DEF Unlinks, RmDir
      <4>2. pc[q] \in {"rm_stage", "drop", "cleanup"} => IsStaging(RmPath(q))
        BY <4>1, RmPathType, Paths DEF Removing
      <4>3. QED
        BY <1>1, <3>1, <4>1, <4>2 DEF Removing
    <3>4. QED
      BY <1>4, <3>2, <3>3
  <2>2. /\ ~Good(k) /\ \A p \in Pid : todo[p] = {}
        /\ \A p \in Pid : p # q => pc[p] \in {"idle", "failed"}
    BY <1>2, <2>1 DEF Installing
  <2>3. /\ pc'[q] \in {"rm_dir", "rename", "cleanup"} /\ todo' = todo
        /\ \A p \in Pid : p # q => pc'[p] = pc[p]
    BY <1>4, <2>1 DEF Deletes, Unlinks, RmEntry, RmDir, RmReturn, After
  <2>4. Entries(n)' \subseteq Entries(n)
    BY <1>4 DEF Deletes, Unlinks
  <2>5. ~Has("helper", n) \/ ~Has("marker", n)
    BY <2>2 DEF InOrder, Checkable
  <2>6. ~Has("helper", n)' \/ ~Has("marker", n)'
    BY <1>1, <2>4, <2>5 DEF Has
  <2>7. ~Good(k)'
    <3>1. Good(k)' => Has("helper", n)' /\ Has("marker", n)'
      <4>1. <<"helper", k>> \in Whole(k) /\ <<"marker", k>> \in Whole(k)
        BY DEF Whole, Part
      <4>2. QED
        BY <1>1, <4>1 DEF Good, Has, Whole
    <3>2. QED
      BY <2>6, <3>1
  <2>8. ASSUME NEW p \in Pid PROVE InTurn(p, k)'
    <3>1. pc'[q] \notin {"hit", "rehit", "install"} \cup Serving
      BY <2>3 DEF Serving
    <3>2. CASE p = q
      BY <1>1, <2>2, <2>3, <2>7, <3>1, <3>2 DEF InTurn, Ended
    <3>3. CASE p # q
      BY <2>2, <2>3, <3>3 DEF InTurn, Installing, Serving
    <3>4. QED
      BY <3>2, <3>3
  <2>9. QED
    BY <1>1, <2>6, <2>8 DEF Checkable
<1>5. CASE Damage(k[1])
  <2>1. PICK x \in Damageable :
          tree' = [tree EXCEPT ![link[n]] = {e \in @ : e[1] # x}]
    BY <1>5 DEF Damage
  <2>2. /\ link' = link /\ link[n] \in Inode /\ link[n] # None
        /\ \A p \in Pid : pc'[p] = "idle" /\ todo'[p] = {}
    BY <1>1, <1>5 DEF Damage, InOrder, InTurn
  <2>3. \A e \in Entries(n)' : e[1] # x
    BY <1>1, <2>1, <2>2 DEF Entries
  <2>4. ~Has(x, n)'
    BY <1>1, <2>3 DEF Has
  <2>5. Checkable(k)'
    BY <1>1, <2>4 DEF Checkable, OneArchive
  <2>6. QED
    BY <2>2, <2>5 DEF InTurn, Installing, Serving
<1>6. QED
  BY <1>1, <1>3, <1>4, <1>5, Effects

(* Every step of builds that do not race keeps them in order. *)
LEMMA InOrderInv ==
  ASSUME Inv, NEW k, OneArchive(k), InOrder(k), [Next /\ Orderly]_vars
  PROVE  InOrder(k)'
<1>1. OneVersionOnly(k)' /\ [Next]_vars
  BY OneVersionInv DEF InOrder
<1>2. CASE Keeps(k[1])
  <2>1. Checkable(k)'
    BY <1>2 DEF Keeps, InOrder, Checkable, Good, Has, Final, Whole
  <2>2. QED
    BY <1>1, <1>2, <2>1, TurnsKept DEF InOrder
<1>3. CASE ~Keeps(k[1])
  BY <1>1, <1>3, TurnsChanged DEF InOrder
<1>4. QED
  BY <1>2, <1>3

(* Builds that do not race are builds of the cache, and stay in order. *)
LEMMA OrderlyInvariance ==
  ASSUME NEW k, OneArchive(k)
  PROVE  OrderlySpec => [](Inv /\ InOrder(k))
<1>1. Init => Inv /\ InOrder(k)
  <2>1. Init => InOrder(k)
    BY BinIs, FinalNames DEF Init, Quiet, InOrder, InTurn, Installing, Serving, Checkable, Has,
       Entries, OneVersionOnly, OneArchive, Key
  <2>2. QED
    BY <2>1, InitInv
<1>2. Inv /\ InOrder(k) /\ [Next /\ Orderly]_vars => (Inv /\ InOrder(k))'
  BY StepInv, InOrderInv
<1>3. QED
  BY <1>1, <1>2, PTL DEF OrderlySpec

(* A VM that starts has the whole tree of its archive before it, and keeps it
   until it ends. *)
LEMMA OrderlyVms ==
  ASSUME Inv, NEW k, OneArchive(k), InOrder(k), InOrder(k)', [Next]_vars, NEW p \in Pid,
         pc'[p] = "booted"
  PROVE  /\ pc[p] # "booted" => tree[root'[p]] = Whole(bin[p])
         /\ pc[p] = "booted" => tree[root[p]] \subseteq tree'[root[p]]
<1> USE DEF Inv, Types, Goto
<1> DEFINE n == Final(k[1])
<1>1. n' = n /\ n \in Name
  BY BinIs, FinalNames DEF Final
<1>2. CASE pc[p] = "booted"
  <2>1. Good(k) /\ root[p] = link[n] /\ Good(k)' /\ root'[p] = link'[n]
    BY <1>1, <1>2 DEF InOrder, InTurn, Serving
  <2>2. root'[p] = root[p]
    <3>1. ~Exit(p) /\ ~Crash(p) /\ ~Step(p)
      BY <1>2, StepIsActive DEF Exit, Crash, Leave, Ended
    <3>2. CASE \E q \in Pid : q # p /\ (Step(q) \/ Exit(q) \/ Crash(q))
      BY <3>2, OthersAreLeftAlone
    <3>3. CASE UNCHANGED root
      BY <3>3
    <3>4. QED
      BY <3>1, <3>2, <3>3 DEF Next, vars, Start, Damage
  <2>3. Entries(n) = Whole(k) /\ Entries(n)' = Whole(k) /\ Entries(n) # {}
    BY <1>1, <2>1, WholeHasAll DEF Good, Whole
  <2>4. tree[root[p]] = Whole(k) /\ tree'[root[p]] = Whole(k)
    BY <1>1, <2>1, <2>2, <2>3 DEF Entries
  <2>5. QED
    BY <1>2, <2>4
<1>3. CASE pc[p] # "booted"
  <2>1. Boot(p)
    <3>1. ~UNCHANGED vars /\ ~\E v \in Version : Damage(v)
      BY <1>3 DEF vars, Damage
    <3>2. ~\E q \in Pid, b \in Binary : Start(q, b)
      BY <1>3 DEF Start
    <3>3. ~\E q \in Pid : q # p /\ (Step(q) \/ Exit(q) \/ Crash(q))
      BY <1>3, OthersAreLeftAlone
    <3>4. ~Exit(p) /\ ~Crash(p)
      BY DEF Exit, Crash, Leave
    <3>5. ~InstallStep(p) /\ ~StageStep(p) /\ ~SweepStep(p)
      BY <1>3 DEF InstallStep, Install, Hit, Recheck, Rehit, Exists, Rename, RenameFault,
         StageStep, StageBegin, CreateStaging, UnpackPart, UnpackEnd, WriteMarker, StageFault,
         SweepStep, SweepBegin, SweepFault, SweepNext, SweepEnd
    <3>6. ~RemoveStep(p) /\ ~SelectVm(p) /\ ~BuildCheck(p)
      BY <1>3 DEF RemoveStep, RmOpen, RmEntry, RmDir, RmFault, RmReturn, After, SelectVm, BuildCheck
    <3>7. QED
      BY <3>1, <3>2, <3>3, <3>4, <3>5, <3>6 DEF Next, Step, UseStep
  <2>2. pc[p] = "resolved" /\ root'[p] = link[Dir(p)] /\ link[Dir(p)] # None
    BY <2>1 DEF Boot
  <2>3. bin[p] = k /\ Dir(p) = n /\ Good(k)
    BY <2>2, BinIs DEF InOrder, InTurn, Serving
  <2>4. QED
    BY <1>3, <2>2, <2>3 DEF Good, Entries
<1>4. QED
  BY <1>2, <1>3

(* Builds that do not race, of one archive, boot whole trees only, whatever
   calls fail, processes die and parts are deleted in between. *)
THEOREM OrderlyBootsAreWhole ==
  ASSUME NEW k, OneArchive(k)
  PROVE  OrderlySpec => BootsOnlyWholeTrees
<1>1. Inv /\ InOrder(k) /\ InOrder(k)' /\ [Next /\ Orderly]_vars =>
        [\A p \in Pid : pc[p] # "booted" /\ pc'[p] = "booted"
                          => tree[root'[p]] = Whole(bin[p])]_vars
  BY OrderlyVms
<1>2. QED
  BY <1>1, OrderlyInvariance, PTL DEF OrderlySpec, BootsOnlyWholeTrees

(* And nothing is ever deleted from a tree that a VM runs from. *)
THEOREM OrderlyVmsKeepTheirTrees ==
  ASSUME NEW k, OneArchive(k)
  PROVE  OrderlySpec => LiveVmKeepsItsTree
<1>1. Inv /\ InOrder(k) /\ InOrder(k)' /\ [Next /\ Orderly]_vars =>
        [\A p \in Pid : pc[p] = "booted" /\ pc'[p] = "booted"
                          => tree[root[p]] \subseteq tree'[root[p]]]_vars
  BY OrderlyVms
<1>2. QED
  BY <1>1, OrderlyInvariance, PTL DEF OrderlySpec, LiveVmKeepsItsTree
-----------------------------------------------------------------------------
(***************************************************************************)
(* Who can disturb a running VM at all, when builds race as they like.     *)
(***************************************************************************)

(* The directory of a running VM has the name it was started from, or none. *)
Rooted ==
  \A p \in Pid : pc[p] = "booted" => \A n \in Name : link[n] = root[p] => n = Dir(p)

(* The directory of a running VM gets no other name: it is not handed out
   again, and no staging path leads to it that a rename could move. *)
LEMMA RootStays ==
  ASSUME Inv, Rooted, [Next]_vars, NEW p \in Pid, pc[p] = "booted",
         NEW n \in Name, link'[n] = root[p]
  PROVE  link[n] = root[p]
<1> USE DEF Inv, Types
<1>1. root[p] # None /\ ~IsStaging(Dir(p))
  BY DEF HoldsRoot, Dir, Final, IsStaging
<1>2. CASE link' = link
  BY <1>2
<1>3. ASSUME NEW q \in Pid, CreateStaging(q) PROVE link[n] = root[p]
  <2>1. StagingDir(q) \in Name /\ link[StagingDir(q)] = None
    BY <1>3, Paths DEF CreateStaging, Staging
  <2>2. PICK i \in FreeInode : link' = [link EXCEPT ![StagingDir(q)] = i]
    BY <1>3, <2>1 DEF CreateStaging
  <2>3. i # root[p]
    BY <2>2 DEF FreeInode
  <2>4. QED
    BY <2>1, <2>2, <2>3
<1>4. ASSUME NEW q \in Pid, Rename(q) PROVE link[n] = root[p]
  <2>1. StagingDir(q) \in Name /\ IsStaging(StagingDir(q)) /\ Dir(q) \in Name
    BY <1>4, Paths DEF Rename
  <2>2. link[StagingDir(q)] # root[p]
    BY <1>1, <2>1 DEF Rooted
  <2>3. QED
    BY <1>1, <1>4, <2>1, <2>2 DEF Rename
<1>5. ASSUME NEW q \in Pid, RmDir(q) PROVE link[n] = root[p]
  BY <1>1, <1>5, RmPathType DEF RmDir
<1>6. QED
  BY <1>2, <1>3, <1>4, <1>5, LinksKept

(* A build that has a running VM after a step has just booted it, or has had
   it before and still runs it from the same directory. *)
LEMMA BootedOrKept ==
  ASSUME Inv, [Next]_vars, NEW p \in Pid, pc'[p] = "booted"
  PROVE  \/ Boot(p)
         \/ pc[p] = "booted" /\ root'[p] = root[p] /\ bin'[p] = bin[p]
<1> USE DEF Inv, Types, Goto
<1>1. ~Exit(p) /\ ~Crash(p)
  BY DEF Exit, Crash, Leave
<1>2. CASE Step(p)
  <2>1. ~InstallStep(p) /\ ~StageStep(p) /\ ~SweepStep(p)
    BY <1>2 DEF InstallStep, Install, Hit, Recheck, Rehit, Exists, Rename, RenameFault,
       StageStep, StageBegin, CreateStaging, UnpackPart, UnpackEnd, WriteMarker, StageFault,
       SweepStep, SweepBegin, SweepFault, SweepNext, SweepEnd
  <2>2. ~RemoveStep(p) /\ ~SelectVm(p) /\ ~BuildCheck(p)
    BY <1>2 DEF RemoveStep, RmOpen, RmEntry, RmDir, RmFault, RmReturn, After, SelectVm, BuildCheck,
       Removing
  <2>3. QED
    BY <1>2, <2>1, <2>2 DEF Step, UseStep
<1>3. CASE \E q \in Pid : q # p /\ (Step(q) \/ Exit(q) \/ Crash(q))
  BY <1>3, OthersAreLeftAlone
<1>4. CASE \E q \in Pid, b \in Binary : Start(q, b)
  BY <1>4 DEF Start
<1>5. CASE UNCHANGED <<pc, root, bin>>
  BY <1>5
<1>6. QED
  BY <1>1, <1>2, <1>3, <1>4, <1>5 DEF Next, vars, Damage

LEMMA RootedInv ==
  ASSUME Inv, Rooted, [Next]_vars
  PROVE  Rooted'
<1> SUFFICES ASSUME NEW p \in Pid, pc'[p] = "booted", NEW n \in Name, link'[n] = root'[p]
             PROVE  n = Dir(p)'
  BY DEF Rooted
<1> USE DEF Inv, Types
<1>1. CASE Boot(p)
  <2>1. /\ pc[p] = "resolved" /\ link' = link /\ root'[p] = link[Dir(p)] /\ Dir(p)' = Dir(p)
        /\ link[Dir(p)] # None
    BY <1>1 DEF Boot, Goto, Dir
  <2>2. Dir(p) \in Name
    BY <2>1, Paths
  <2>3. QED
    BY <2>1, <2>2 DEF OneName
<1>2. CASE pc[p] = "booted" /\ root'[p] = root[p] /\ bin'[p] = bin[p]
  <2>1. link[n] = root[p]
    BY <1>2, RootStays
  <2>2. QED
    BY <1>2, <2>1 DEF Rooted, Dir
<1>3. QED
  BY <1>1, <1>2, BootedOrKept

LEMMA RootedAlways == Spec => []Rooted
<1>1. Init => Rooted
  BY DEF Init, Quiet, Rooted
<1>2. Inv /\ Rooted /\ [Next]_vars => Rooted'
  BY RootedInv
<1>3. QED
  BY <1>1, <1>2, Invariance, PTL DEF Spec

(* Whoever deletes from the directory of a running VM replaces the tree of that
   version or sweeps it for another one. *)
LEMMA WhoDisturbs ==
  ASSUME Inv, Errands, Rooted, [Next]_vars, NEW p \in Pid, pc[p] = "booted",
         ~(tree[root[p]] \subseteq tree'[root[p]])
  PROVE  \E q \in Pid :
           RmEntry(q) /\ pc[q] = IF bin[q][1] = bin[p][1] THEN "rm_dir" ELSE "rm_old"
<1> USE DEF Inv, Types
<1>1. root[p] \in Inode /\ root[p] # None /\ ~IsStaging(Dir(p)) /\ tree' # tree
  BY DEF HoldsRoot, Dir, Final, IsStaging
<1>2. PICK n \in Name : link[n] = root[p]
  BY <1>1 DEF OneName
<1>3. n = Dir(p)
  BY <1>2 DEF Rooted
<1>4. ASSUME NEW q \in Pid, UnpackPart(q) \/ WriteMarker(q) PROVE FALSE
  <2>1. StagingDir(q) \in Name /\ IsStaging(StagingDir(q))
    BY <1>4, Paths DEF UnpackPart, WriteMarker
  <2>2. link[StagingDir(q)] # root[p]
    BY <1>1, <2>1 DEF Rooted
  <2>3. QED
    BY <1>1, <1>4, <2>2 DEF UnpackPart, WriteMarker
<1>5. ~\E v \in Version : Damage(v)
  BY DEF Damage
<1>6. ASSUME NEW q \in Pid, Step(q) PROVE RmEntry(q)
  BY <1>1, <1>4, <1>6 DEF Step, InstallStep, Install, Hit, Recheck, Rehit, Exists, Rename,
     RenameFault, StageStep, StageBegin, CreateStaging, UnpackEnd, StageFault,
     SweepStep, SweepBegin, SweepFault, SweepNext, SweepEnd,
     RemoveStep, RmOpen, RmDir, RmFault, UseStep, SelectVm, BuildCheck, Boot
<1>7. PICK q \in Pid : RmEntry(q)
  BY <1>1, <1>5, <1>6 DEF Next, Start, Exit, Crash, Leave, vars
<1>8. open[q] = root[p] /\ pc[q] \in Removing
  BY <1>1, <1>7 DEF RmEntry
<1>9. pc[q] \in {"rm_dir", "rm_old"}
  <2>1. StagingDir(q) \in Name /\ IsStaging(StagingDir(q))
    BY <1>8, Paths DEF Removing
  <2>2. link[StagingDir(q)] # root[p]
    BY <1>1, <2>1 DEF Rooted
  <2>3. QED
    BY <1>1, <1>8, <2>2 DEF RemovesItsOwn, Removing
<1>10. Dir(p) = RmPath(q)
  BY <1>1, <1>2, <1>3, <1>8, <1>9 DEF Errands, Errand
<1>11. CASE pc[q] = "rm_dir"
  <2>1. Dir(p) = Dir(q)
    BY <1>10, <1>11 DEF RmPath
  <2>2. QED
    BY <1>7, <1>11, <2>1 DEF Dir, Final
<1>12. CASE pc[q] = "rm_old"
  <2>1. Dir(p) # Dir(q)
    BY <1>10, <1>12 DEF RmPath, Errands, Errand
  <2>2. bin[q][1] # bin[p][1]
    BY <2>1 DEF Dir
  <2>3. QED
    BY <1>7, <1>12, <2>2
<1>13. QED
  BY <1>9, <1>11, <1>12

(* However builds race and whatever fails: a running VM loses entries only to
   a build that replaces the tree of its version or to the sweep of a build of
   another version. *)
THEOREM VmsAreOnlyReplacedOrSwept == Spec => OnlyReplacedOrSwept
<1>1. Inv /\ Errands /\ Rooted /\ [Next]_vars =>
        [\A p \in Pid :
           /\ pc[p] = "booted" /\ pc'[p] = "booted"
           /\ ~(tree[root[p]] \subseteq tree'[root[p]])
           => \E q \in Pid :
                RmEntry(q) /\ pc[q] = IF bin[q][1] = bin[p][1] THEN "rm_dir" ELSE "rm_old"]_vars
  BY WhoDisturbs
<1>2. QED
  BY <1>1, Invariance, ErrandsAlways, RootedAlways, PTL DEF Spec, OnlyReplacedOrSwept
=============================================================================
