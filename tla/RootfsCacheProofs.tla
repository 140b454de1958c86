------------------------- MODULE RootfsCacheProofs -------------------------
(***************************************************************************)
(* Proofs about RootfsCache, for any number of builds, versions, archives  *)
(* and directories, and for every combination of failures: the type        *)
(* invariant, that what is staged is whole, that nothing is mixed, and     *)
(* that the cache implements RootfsStore.                                  *)
(***************************************************************************)
EXTENDS RootfsCache, TLAPS

(***************************************************************************)
(* The inductive invariant, in parts.                                      *)
(***************************************************************************)

Types ==
  /\ link \in [Name -> Inode \cup {None}]
  /\ tree \in [Inode -> SUBSET (Part \X Key)]
  /\ pc \in [Pid -> Label]
  /\ bin \in [Pid -> Binary \cup {None}]
  /\ left \in [Pid -> SUBSET Archive]
  /\ open \in [Pid -> Inode \cup {None}]
  /\ todo \in [Pid -> SUBSET Name]
  /\ victim \in [Pid -> Name \cup {None}]
  /\ root \in [Pid -> Inode \cup {None}]

(* A process past the empty-archive test runs a binary with an archive. *)
RunsABinary ==
  \A p \in Pid :
    /\ pc[p] # "idle" => bin[p] \in Binary
    /\ pc[p] \notin {"idle", "install", "failed"} => bin[p] \in Key

(* A directory has one name, and one without a name is empty. *)
OneName ==
  /\ \A m, n \in Name : link[m] = link[n] /\ link[m] # None => m = n
  /\ \A i \in Inode : (\A n \in Name : link[n] # i) => tree[i] = {}

(* A removal of a staging directory works on the owner's own; one of an
   installed directory never reaches a staging directory. *)
RemovesItsOwn ==
  \A p \in Pid :
    /\ pc[p] \notin Removing => open[p] = None
    /\ pc[p] \in {"rm_stage", "drop", "cleanup"} /\ open[p] # None
         => open[p] = link[StagingDir(p)]
    /\ pc[p] \in {"rm_dir", "rm_old"} /\ open[p] # None
         => \A n \in Name : IsStaging(n) => link[n] # open[p]
    /\ pc[p] = "rm_old" => victim[p] \in Name /\ ~IsStaging(victim[p])
    /\ \A n \in todo[p] : ~IsStaging(n)

(* The staging directory on its way from nothing to a whole tree. *)
Staging ==
  \A p \in Pid :
    /\ pc[p] = "mkdir" => link[StagingDir(p)] = None
    /\ pc[p] \in {"unpack", "mark"} \cup Staged => link[StagingDir(p)] # None
    /\ pc[p] = "unpack" => tree[link[StagingDir(p)]] = (Archive \ left[p]) \X {bin[p]}
    /\ pc[p] = "mark" => tree[link[StagingDir(p)]] = Archive \X {bin[p]}
    /\ pc[p] \in Staged => tree[link[StagingDir(p)]] = Whole(bin[p])

HoldsRoot == \A p \in Pid : (root[p] # None) <=> (pc[p] = "booted")

Inv == Types /\ HoldsRoot /\ RunsABinary /\ OneName /\ RemovesItsOwn /\ Staging /\ NeverMixed
-----------------------------------------------------------------------------
(* The paths of a build past the empty-archive test are paths of the cache,
   and those of different builds never meet. *)
LEMMA Paths ==
  ASSUME Types, RunsABinary, NEW p \in Pid,
         pc[p] \notin {"idle", "install", "failed"}
  PROVE  /\ bin[p] \in Key
         /\ Dir(p) \in Name /\ ~IsStaging(Dir(p))
         /\ StagingDir(p) \in Name /\ IsStaging(StagingDir(p))
         /\ StagingDir(p)[1] = bin[p][1] /\ StagingDir(p)[2] = p
         /\ Dir(p)[1] = bin[p][1]
  BY NoneIsNoValue DEF Types, RunsABinary, Dir, StagingDir, Final, IsStaging, Name, Key

(* An empty cache with no build running satisfies the invariant. *)
LEMMA InitInv == Init => Inv
  BY NoneIsNoValue DEF Init, Quiet, Inv, Types, HoldsRoot, RunsABinary, OneName,
     RemovesItsOwn, Staging, NeverMixed, Entries, Removing, Staged, Label, Name

(***************************************************************************)
(* Steps of a build that change no directory and only decide where it goes *)
(* on: the invariant needs what it says of the new place, and no more.     *)
(***************************************************************************)
Moves(p, l) ==
  /\ Goto(p, l)
  /\ left' \in [Pid -> SUBSET Archive]
  /\ \A q \in Pid : q # p => left'[q] = left[q]
  /\ UNCHANGED <<link, tree, bin, open, todo, victim, root>>

(* A build that is in no removal and goes to a place whose part of Staging
   holds preserves the invariant. *)
LEMMA MoveInv ==
  ASSUME Inv, NEW p \in Pid, NEW l \in Label, Moves(p, l),
         pc[p] \notin Removing \cup {"idle", "booted"},
         l \notin {"idle", "install", "unpack", "booted", "rm_old"},
         l = "failed" \/ bin[p] \in Key,
         l = "mkdir" => link[StagingDir(p)] = None,
         l \in {"mark"} \cup Staged => link[StagingDir(p)] # None,
         l = "mark" => tree[link[StagingDir(p)]] = Archive \X {bin[p]},
         l \in Staged => tree[link[StagingDir(p)]] = Whole(bin[p])
  PROVE  Inv'
<1>1. pc'[p] = l /\ \A q \in Pid : q # p => pc'[q] = pc[q]
  BY DEF Moves, Goto, Inv, Types
<1>2. \A q \in Pid : StagingDir(q)' = StagingDir(q)
  BY DEF Moves, StagingDir
<1>3. Types' /\ HoldsRoot' /\ RunsABinary'
  <2>1. Types'
    BY DEF Moves, Goto, Inv, Types
  <2>2. HoldsRoot'
    BY <1>1 DEF Moves, Inv, HoldsRoot
  <2>3. RunsABinary'
    BY <1>1 DEF Moves, Inv, RunsABinary
  <2>4. QED
    BY <2>1, <2>2, <2>3
<1>4. OneName' /\ NeverMixed'
  BY DEF Moves, Inv, OneName, NeverMixed, Entries
<1>5. RemovesItsOwn'
  <2> SUFFICES ASSUME NEW q \in Pid PROVE RemovesItsOwn!(q)'
    BY DEF RemovesItsOwn
  <2>1. CASE q = p
    <3>1. open[p] = None
      BY DEF Inv, RemovesItsOwn
    <3>2. QED
      BY <3>1, <2>1, <1>1 DEF Moves, Inv, RemovesItsOwn
  <2>2. CASE q # p
    BY <2>2, <1>1, <1>2 DEF Moves, Inv, RemovesItsOwn
  <2>3. QED
    BY <2>1, <2>2
<1>6. Staging'
  <2> SUFFICES ASSUME NEW q \in Pid PROVE Staging!(q)'
    BY DEF Staging
  <2>1. CASE q = p
    BY <2>1, <1>1, <1>2 DEF Moves, Staged
  <2>2. CASE q # p
    BY <2>2, <1>1, <1>2 DEF Moves, Inv, Staging
  <2>3. QED
    BY <2>1, <2>2
<1>7. QED
  BY <1>3, <1>4, <1>5, <1>6 DEF Inv

(* The start of a build (ensure_extracted) preserves the invariant. *)
LEMMA StartInv ==
  ASSUME Inv, NEW p \in Pid, NEW b \in Binary, Start(p, b)
  PROVE  Inv'
<1>1. Types' /\ HoldsRoot' /\ RunsABinary'
  BY NoneIsNoValue DEF Start, Goto, Inv, Types, HoldsRoot, RunsABinary, Label
<1>2. OneName' /\ NeverMixed'
  BY DEF Start, Inv, OneName, NeverMixed, Entries
<1>3. RemovesItsOwn'
  BY DEF Start, Goto, Inv, Types, RemovesItsOwn, Removing, StagingDir
<1>4. Staging'
  BY DEF Start, Goto, Inv, Types, Staging, Staged, StagingDir
<1>5. QED
  BY <1>1, <1>2, <1>3, <1>4 DEF Inv

(* The empty-archive test and the first marker read of install preserve
   the invariant. *)
LEMMA InstallInv ==
  ASSUME Inv, NEW p \in Pid, Install(p)
  PROVE  Inv'
<1>1. bin[p][2] # None => bin[p] \in Key
  BY BinariesAreBuilt DEF Install, Inv, RunsABinary, Key
<1>2. Types' /\ HoldsRoot' /\ RunsABinary'
  BY <1>1 DEF Install, Goto, Inv, Types, HoldsRoot, RunsABinary, Label
<1>3. OneName' /\ NeverMixed'
  BY DEF Install, Inv, OneName, NeverMixed, Entries
<1>4. RemovesItsOwn'
  BY DEF Install, Goto, Inv, Types, RemovesItsOwn, Removing, StagingDir
<1>5. Staging'
  BY DEF Install, Goto, Inv, Types, Staging, Staged, StagingDir
<1>6. QED
  BY <1>2, <1>3, <1>4, <1>5 DEF Inv

(* The check of the helper after a matching marker preserves it. *)
LEMMA HitInv ==
  ASSUME Inv, NEW p \in Pid, Hit(p)
  PROVE  Inv'
<1>1. PICK l \in {"returned", "stage"} : Moves(p, l)
  BY DEF Hit, Moves, Inv, Types
<1>2. /\ pc[p] \notin Removing \cup {"idle", "install", "booted", "failed"}
      /\ bin[p] \in Key /\ l \in Label
  BY DEF Hit, Inv, RunsABinary, Removing, Label
<1>3. QED
  BY <1>1, <1>2, MoveInv DEF Staged

(* The test of stage for a leftover staging directory preserves it. *)
LEMMA StageBeginInv ==
  ASSUME Inv, NEW p \in Pid, StageBegin(p)
  PROVE  Inv'
<1>1. PICK l \in {"rm_stage", "mkdir"} :
         Moves(p, l) /\ (l = "mkdir" => link[StagingDir(p)] = None)
  BY DEF StageBegin, Moves, Inv, Types
<1>2. /\ pc[p] \notin Removing \cup {"idle", "install", "booted", "failed"}
      /\ bin[p] \in Key /\ l \in Label
  BY DEF StageBegin, Inv, RunsABinary, Removing, Label
<1>3. QED
  BY <1>1, <1>2, MoveInv DEF Staged

(* The second marker read of install preserves it. *)
LEMMA RecheckInv ==
  ASSUME Inv, NEW p \in Pid, Recheck(p)
  PROVE  Inv'
<1>1. PICK l \in {"rehit", "exists"} : Moves(p, l)
  BY DEF Recheck, Moves, Inv, Types
<1>2. /\ pc[p] \notin Removing \cup {"idle", "install", "booted", "failed"}
      /\ bin[p] \in Key /\ l \in Label
  BY DEF Recheck, Inv, RunsABinary, Removing, Label
<1>3. /\ link[StagingDir(p)] # None
      /\ tree[link[StagingDir(p)]] = Whole(bin[p])
  BY DEF Recheck, Inv, Staging, Staged
<1>4. QED
  BY <1>1, <1>2, <1>3, MoveInv DEF Staged

(* The second check of the helper preserves it. *)
LEMMA RehitInv ==
  ASSUME Inv, NEW p \in Pid, Rehit(p)
  PROVE  Inv'
<1>1. PICK l \in {"drop", "exists"} : Moves(p, l)
  BY DEF Rehit, Moves, Inv, Types
<1>2. /\ pc[p] \notin Removing \cup {"idle", "install", "booted", "failed"}
      /\ bin[p] \in Key /\ l \in Label
  BY DEF Rehit, Inv, RunsABinary, Removing, Label
<1>3. /\ link[StagingDir(p)] # None
      /\ tree[link[StagingDir(p)]] = Whole(bin[p])
  BY DEF Rehit, Inv, Staging, Staged
<1>4. QED
  BY <1>1, <1>2, <1>3, MoveInv DEF Staged

(* The test for a stale installed tree preserves it. *)
LEMMA ExistsInv ==
  ASSUME Inv, NEW p \in Pid, Exists(p)
  PROVE  Inv'
<1>1. PICK l \in {"rm_dir", "rename"} : Moves(p, l)
  BY DEF Exists, Moves, Inv, Types
<1>2. /\ pc[p] \notin Removing \cup {"idle", "install", "booted", "failed"}
      /\ bin[p] \in Key /\ l \in Label
  BY DEF Exists, Inv, RunsABinary, Removing, Label
<1>3. /\ link[StagingDir(p)] # None
      /\ tree[link[StagingDir(p)]] = Whole(bin[p])
  BY DEF Exists, Inv, Staging, Staged
<1>4. QED
  BY <1>1, <1>2, <1>3, MoveInv DEF Staged

(* A failing rename preserves it: the staged tree stays where it is. *)
LEMMA RenameFaultInv ==
  ASSUME Inv, NEW p \in Pid, RenameFault(p)
  PROVE  Inv'
<1>1. PICK l \in {"cleanup"} : Moves(p, l)
  BY DEF RenameFault, Moves, Inv, Types
<1>2. /\ pc[p] \notin Removing \cup {"idle", "install", "booted", "failed"}
      /\ bin[p] \in Key /\ l \in Label
  BY DEF RenameFault, Inv, RunsABinary, Removing, Label
<1>3. QED
  BY <1>1, <1>2, MoveInv DEF Staged

(* A sweep that cannot read the cache directory preserves it. *)
LEMMA SweepFaultInv ==
  ASSUME Inv, NEW p \in Pid, SweepFault(p)
  PROVE  Inv'
<1>1. PICK l \in {"returned"} : Moves(p, l)
  BY DEF SweepFault, Moves, Inv, Types
<1>2. /\ pc[p] \notin Removing \cup {"idle", "install", "booted", "failed"}
      /\ bin[p] \in Key /\ l \in Label
  BY DEF SweepFault, Inv, RunsABinary, Removing, Label
<1>3. QED
  BY <1>1, <1>2, MoveInv DEF Staged

(* The end of a sweep preserves it. *)
LEMMA SweepEndInv ==
  ASSUME Inv, NEW p \in Pid, SweepEnd(p)
  PROVE  Inv'
<1>1. PICK l \in {"returned"} : Moves(p, l)
  BY DEF SweepEnd, Moves, Inv, Types
<1>2. /\ pc[p] \notin Removing \cup {"idle", "install", "booted", "failed"}
      /\ bin[p] \in Key /\ l \in Label
  BY DEF SweepEnd, Inv, RunsABinary, Removing, Label
<1>3. QED
  BY <1>1, <1>2, MoveInv DEF Staged

(* check_rootfs in select_vm preserves it. *)
LEMMA SelectVmInv ==
  ASSUME Inv, NEW p \in Pid, SelectVm(p)
  PROVE  Inv'
<1>1. PICK l \in {"selected", "failed"} : Moves(p, l)
  BY DEF SelectVm, Moves, Inv, Types
<1>2. /\ pc[p] \notin Removing \cup {"idle", "install", "booted", "failed"}
      /\ bin[p] \in Key /\ l \in Label
  BY DEF SelectVm, Inv, RunsABinary, Removing, Label
<1>3. QED
  BY <1>1, <1>2, MoveInv DEF Staged

(* check_rootfs in build preserves it. *)
LEMMA BuildCheckInv ==
  ASSUME Inv, NEW p \in Pid, BuildCheck(p)
  PROVE  Inv'
<1>1. PICK l \in {"resolved", "failed"} : Moves(p, l)
  BY DEF BuildCheck, Moves, Inv, Types
<1>2. /\ pc[p] \notin Removing \cup {"idle", "install", "booted", "failed"}
      /\ bin[p] \in Key /\ l \in Label
  BY DEF BuildCheck, Inv, RunsABinary, Removing, Label
<1>3. QED
  BY <1>1, <1>2, MoveInv DEF Staged

(* The end of the unpack preserves it: with nothing left to write, the
   staging directory holds the whole archive. *)
LEMMA UnpackEndInv ==
  ASSUME Inv, NEW p \in Pid, UnpackEnd(p)
  PROVE  Inv'
<1>1. PICK l \in {"mark"} : Moves(p, l)
  BY DEF UnpackEnd, Moves, Inv, Types
<1>2. /\ pc[p] \notin Removing \cup {"idle", "install", "booted", "failed"}
      /\ bin[p] \in Key /\ l \in Label
  BY DEF UnpackEnd, Inv, RunsABinary, Removing, Label
<1>3. /\ link[StagingDir(p)] # None
      /\ tree[link[StagingDir(p)]] = Archive \X {bin[p]}
  BY DEF UnpackEnd, Inv, Staging
<1>4. QED
  BY <1>1, <1>2, <1>3, MoveInv DEF Staged

(* A failing call of stage preserves it. *)
LEMMA StageFaultInv ==
  ASSUME Inv, NEW p \in Pid, StageFault(p)
  PROVE  Inv'
<1>1. PICK l \in {"cleanup"} : Moves(p, l)
  BY DEF StageFault, Moves, Inv, Types
<1>2. /\ pc[p] \notin Removing \cup {"idle", "install", "booted", "failed"}
      /\ bin[p] \in Key /\ l \in Label
  BY DEF StageFault, Inv, RunsABinary, Removing, Label
<1>3. QED
  BY <1>1, <1>2, MoveInv DEF Staged

(* The VM that opens the installed directory preserves it. *)
LEMMA BootInv ==
  ASSUME Inv, NEW p \in Pid, Boot(p)
  PROVE  Inv'
<1>1. Dir(p) \in Name
  BY Paths DEF Boot, Inv
<1>2. Types' /\ HoldsRoot' /\ RunsABinary'
  BY <1>1 DEF Boot, Goto, Inv, Types, HoldsRoot, RunsABinary, Label
<1>3. OneName' /\ NeverMixed'
  BY DEF Boot, Inv, OneName, NeverMixed, Entries
<1>4. RemovesItsOwn'
  BY DEF Boot, Goto, Inv, Types, RemovesItsOwn, Removing, StagingDir
<1>5. Staging'
  BY DEF Boot, Goto, Inv, Types, Staging, Staged, StagingDir
<1>6. QED
  BY <1>2, <1>3, <1>4, <1>5 DEF Inv

(* A process that goes away, at any point, preserves it. *)
LEMMA LeaveInv ==
  ASSUME Inv, NEW p \in Pid, Leave(p)
  PROVE  Inv'
<1>1. Types' /\ HoldsRoot' /\ RunsABinary'
  BY DEF Leave, Goto, Inv, Types, HoldsRoot, RunsABinary, Label
<1>2. OneName' /\ NeverMixed'
  BY DEF Leave, Inv, OneName, NeverMixed, Entries
<1>3. RemovesItsOwn'
  BY DEF Leave, Goto, Inv, Types, RemovesItsOwn, Removing, StagingDir
<1>4. Staging'
  BY DEF Leave, Goto, Inv, Types, Staging, Staged, StagingDir
<1>5. QED
  BY <1>1, <1>2, <1>3, <1>4 DEF Inv

(* Listing the cache directory preserves it: no staging directory gets on
   the list of sweep_old_versions. *)
LEMMA SweepBeginInv ==
  ASSUME Inv, NEW p \in Pid, SweepBegin(p)
  PROVE  Inv'
<1>1. Types' /\ HoldsRoot' /\ RunsABinary'
  BY DEF SweepBegin, Goto, Inv, Types, HoldsRoot, RunsABinary, Label
<1>2. OneName' /\ NeverMixed'
  BY DEF SweepBegin, Inv, OneName, NeverMixed, Entries
<1>3. RemovesItsOwn'
  BY DEF SweepBegin, Sweepable, Goto, Inv, Types, RemovesItsOwn, Removing, StagingDir
<1>4. Staging'
  BY DEF SweepBegin, Goto, Inv, Types, Staging, Staged, StagingDir
<1>5. QED
  BY <1>1, <1>2, <1>3, <1>4 DEF Inv

(* Taking the next directory of a sweep preserves it. *)
LEMMA SweepNextInv ==
  ASSUME Inv, NEW p \in Pid, SweepNext(p)
  PROVE  Inv'
<1>1. PICK n \in todo[p] :
        /\ todo' = [todo EXCEPT ![p] = @ \ {n}]
        /\ IF link[n] # None
             THEN victim' = [victim EXCEPT ![p] = n] /\ Goto(p, "rm_old")
             ELSE UNCHANGED <<victim, pc>>
  BY DEF SweepNext
<1>2. n \in Name /\ ~IsStaging(n)
  BY DEF Inv, Types, RemovesItsOwn
<1>3. Types' /\ HoldsRoot' /\ RunsABinary'
  BY <1>1, <1>2 DEF SweepNext, Goto, Inv, Types, HoldsRoot, RunsABinary, Label
<1>4. OneName' /\ NeverMixed'
  BY DEF SweepNext, Inv, OneName, NeverMixed, Entries
<1>5. RemovesItsOwn'
  BY <1>1, <1>2 DEF SweepNext, Goto, Inv, Types, RemovesItsOwn, Removing, StagingDir
<1>6. Staging'
  BY <1>1 DEF SweepNext, Goto, Inv, Types, Staging, Staged, StagingDir
<1>7. QED
  BY <1>3, <1>4, <1>5, <1>6 DEF Inv

(* create_dir_all of the staging directory preserves it: what it makes is
   new and empty. *)
LEMMA CreateStagingInv ==
  ASSUME Inv, NEW p \in Pid, CreateStaging(p)
  PROVE  Inv'
<1>1. StagingDir(p) \in Name /\ IsStaging(StagingDir(p)) /\ StagingDir(p)[2] = p
  BY Paths DEF CreateStaging, Inv
<1>2. link[StagingDir(p)] = None
  BY DEF CreateStaging, Inv, Staging
<1>3. PICK i \in FreeInode : link' = [link EXCEPT ![StagingDir(p)] = i]
  BY <1>2 DEF CreateStaging
<1>4. /\ i \in Inode
      /\ \A n \in Name : link[n] # i
      /\ \A q \in Pid : open[q] # i
  BY <1>3 DEF FreeInode, Range, Inv, Types
<1>5. i # None /\ tree[i] = {}
  BY <1>4, NoneIsNoValue DEF Inv, OneName
<1>6. \A q \in Pid : q # p => StagingDir(q) # StagingDir(p)
  BY DEF StagingDir
<1>7. Types' /\ HoldsRoot' /\ RunsABinary'
  BY <1>1, <1>3, <1>4 DEF CreateStaging, Goto, Inv, Types, HoldsRoot, RunsABinary, Label
<1>8. OneName'
  BY <1>1, <1>2, <1>3, <1>4, NoneIsNoValue DEF CreateStaging, Inv, Types, OneName
<1>9. NeverMixed'
  BY <1>1, <1>3, <1>5 DEF CreateStaging, Inv, Types, NeverMixed, Entries
<1>10. RemovesItsOwn'
  BY <1>1, <1>3, <1>4, <1>6 DEF CreateStaging, Goto, Inv, Types, RemovesItsOwn, Removing, StagingDir
<1>11. Staging'
  <2> SUFFICES ASSUME NEW q \in Pid PROVE Staging!(q)'
    BY DEF Staging
  <2>1. CASE q = p
    BY <2>1, <1>1, <1>3, <1>5 DEF CreateStaging, Goto, Inv, Types, Staged, StagingDir, Archive
  <2>2. CASE q # p
    BY <2>2, <1>1, <1>3, <1>6 DEF CreateStaging, Goto, Inv, Types, Staging, Staged, StagingDir
  <2>3. QED
    BY <2>1, <2>2
<1>12. QED
  BY <1>7, <1>8, <1>9, <1>10, <1>11 DEF Inv

(* Nobody else has its hands on the staging directory of a build. *)
LEMMA StagingIsPrivate ==
  ASSUME Inv, NEW p \in Pid, NEW q \in Pid,
         pc[p] \in {"unpack", "mark"} \cup Staged,
         pc[q] \in {"unpack", "mark"} \cup Staged, p # q
  PROVE  link[StagingDir(q)] # link[StagingDir(p)]
<1>1. /\ StagingDir(p) \in Name /\ StagingDir(p)[2] = p
      /\ StagingDir(q) \in Name /\ StagingDir(q)[2] = q
  BY Paths DEF Inv, Staged
<1>2. link[StagingDir(p)] # None
  BY DEF Inv, Staging
<1>3. QED
  BY <1>1, <1>2 DEF Inv, OneName

(* No remove_dir_all that is under way works on a staging directory that is
   being filled or waits for its rename. *)
LEMMA RemovalKeepsStaged ==
  ASSUME Inv, NEW p \in Pid, NEW q \in Pid, open[p] # None,
         pc[q] \in {"unpack", "mark"} \cup Staged
  PROVE  open[p] # link[StagingDir(q)]
<1>1. StagingDir(q) \in Name /\ IsStaging(StagingDir(q)) /\ StagingDir(q)[2] = q
  BY Paths DEF Inv, Staged
<1>2. pc[p] \in Removing
  BY DEF Inv, RemovesItsOwn
<1>3. CASE pc[p] \in {"rm_dir", "rm_old"}
  BY <1>1, <1>3 DEF Inv, RemovesItsOwn
<1>4. CASE pc[p] \in {"rm_stage", "drop", "cleanup"}
  <2>1. StagingDir(p) \in Name /\ StagingDir(p)[2] = p
    BY <1>4, Paths DEF Inv
  <2>2. p # q /\ open[p] = link[StagingDir(p)]
    BY <1>4 DEF Inv, RemovesItsOwn, Staged
  <2>3. QED
    BY <1>1, <2>1, <2>2 DEF Inv, OneName
<1>5. QED
  BY <1>2, <1>3, <1>4 DEF Removing

(* Writing one part of the archive preserves it. *)
LEMMA UnpackPartInv ==
  ASSUME Inv, NEW p \in Pid, UnpackPart(p)
  PROVE  Inv'
<1> DEFINE i == link[StagingDir(p)]
<1>1. PICK x \in left[p] :
        /\ tree' = [tree EXCEPT ![i] = Write(@, x, bin[p])]
        /\ left' = [left EXCEPT ![p] = @ \ {x}]
  BY DEF UnpackPart
<1>2. /\ StagingDir(p) \in Name /\ bin[p] \in Key
      /\ StagingDir(p)[1] = bin[p][1] /\ StagingDir(p)[2] = p
  BY Paths DEF UnpackPart, Inv
<1>3. i \in Inode /\ x \in Archive
  BY <1>2 DEF UnpackPart, Inv, Types
<1>4. tree[i] = (Archive \ left[p]) \X {bin[p]}
  BY DEF UnpackPart, Inv, Staging
<1>5. Write(tree[i], x, bin[p]) = (Archive \ (left[p] \ {x})) \X {bin[p]}
  BY <1>3, <1>4 DEF Write
<1>6. tree' = [tree EXCEPT ![i] = (Archive \ (left[p] \ {x})) \X {bin[p]}]
  BY <1>1, <1>5
<1>7. Types' /\ HoldsRoot' /\ RunsABinary'
  BY <1>1, <1>2, <1>3, <1>6 DEF UnpackPart, Inv, Types, HoldsRoot, RunsABinary, Archive
<1>8. OneName'
  BY <1>2, <1>3, <1>6 DEF UnpackPart, Inv, Types, OneName
<1>9. NeverMixed'
  <2> SUFFICES ASSUME NEW n \in Name, NEW e \in Entries(n)', NEW f \in Entries(n)'
               PROVE  e[2] = f[2] /\ e[2][1] = n[1]
    BY DEF NeverMixed
  <2>1. CASE n = StagingDir(p)
    BY <2>1, <1>2, <1>3, <1>6 DEF UnpackPart, Inv, Types, Entries
  <2>2. CASE n # StagingDir(p)
    <3>1. Entries(n)' = Entries(n)
      BY <2>2, <1>2, <1>3, <1>6, NoneIsNoValue DEF UnpackPart, Inv, Types, OneName, Entries
    <3>2. QED
      BY <3>1 DEF Inv, NeverMixed
  <2>3. QED
    BY <2>1, <2>2
<1>10. RemovesItsOwn'
  BY DEF UnpackPart, Inv, RemovesItsOwn, StagingDir
<1>11. Staging'
  <2> SUFFICES ASSUME NEW q \in Pid PROVE Staging!(q)'
    BY DEF Staging
  <2>1. CASE q = p
    BY <2>1, <1>1, <1>2, <1>3, <1>6 DEF UnpackPart, Inv, Types, Staging, Staged, StagingDir
  <2>2. CASE q # p
    <3>1. /\ pc'[q] = pc[q] /\ left'[q] = left[q]
          /\ StagingDir(q)' = StagingDir(q) /\ link' = link /\ bin' = bin
      BY <2>2, <1>1 DEF UnpackPart, StagingDir, Inv, Types
    <3>2. CASE pc[q] \in {"unpack", "mark"} \cup Staged
      <4>1. link[StagingDir(q)] # i
        BY <2>2, <3>2, StagingIsPrivate DEF UnpackPart
      <4>2. tree'[link[StagingDir(q)]] = tree[link[StagingDir(q)]]
        BY <4>1, <1>3, <1>6, <3>2, Paths DEF Inv, Types, Staging, Staged
      <4>3. QED
        BY <3>1, <4>2 DEF Inv, Staging
    <3>3. CASE pc[q] \notin {"unpack", "mark"} \cup Staged
      BY <3>1, <3>3 DEF Inv, Staging
    <3>4. QED
      BY <3>2, <3>3
  <2>3. QED
    BY <2>1, <2>2
<1>12. QED
  BY <1>7, <1>8, <1>9, <1>10, <1>11 DEF Inv

(* Writing the marker preserves it: it completes the tree. *)
LEMMA WriteMarkerInv ==
  ASSUME Inv, NEW p \in Pid, WriteMarker(p)
  PROVE  Inv'
<1> DEFINE i == link[StagingDir(p)]
<1>1. /\ StagingDir(p) \in Name /\ bin[p] \in Key
      /\ StagingDir(p)[1] = bin[p][1] /\ StagingDir(p)[2] = p
  BY Paths DEF WriteMarker, Inv
<1>2. i \in Inode
  BY <1>1 DEF WriteMarker, Inv, Types
<1>3. tree[i] = Archive \X {bin[p]}
  BY DEF WriteMarker, Inv, Staging
<1>4. Write(tree[i], "marker", bin[p]) = Whole(bin[p])
  BY <1>3 DEF Write, Whole, Archive, Part
<1>5. tree' = [tree EXCEPT ![i] = Whole(bin[p])]
  BY <1>4 DEF WriteMarker
<1>6. Types' /\ HoldsRoot' /\ RunsABinary'
  BY <1>1, <1>2, <1>5 DEF WriteMarker, Goto, Inv, Types, HoldsRoot, RunsABinary, Whole, Label
<1>7. OneName'
  BY <1>1, <1>2, <1>5 DEF WriteMarker, Inv, Types, OneName
<1>8. NeverMixed'
  <2> SUFFICES ASSUME NEW n \in Name, NEW e \in Entries(n)', NEW f \in Entries(n)'
               PROVE  e[2] = f[2] /\ e[2][1] = n[1]
    BY DEF NeverMixed
  <2>1. CASE n = StagingDir(p)
    BY <2>1, <1>1, <1>2, <1>5 DEF WriteMarker, Inv, Types, Entries, Whole
  <2>2. CASE n # StagingDir(p)
    <3>1. Entries(n)' = Entries(n)
      BY <2>2, <1>1, <1>2, <1>5, NoneIsNoValue DEF WriteMarker, Inv, Types, OneName, Entries
    <3>2. QED
      BY <3>1 DEF Inv, NeverMixed
  <2>3. QED
    BY <2>1, <2>2
<1>9. RemovesItsOwn'
  BY DEF WriteMarker, Goto, Inv, Types, RemovesItsOwn, Removing, StagingDir
<1>10. Staging'
  <2> SUFFICES ASSUME NEW q \in Pid PROVE Staging!(q)'
    BY DEF Staging
  <2>1. CASE q = p
    BY <2>1, <1>2, <1>5 DEF WriteMarker, Goto, Inv, Types, Staged, StagingDir
  <2>2. CASE q # p
    <3>1. /\ pc'[q] = pc[q] /\ left'[q] = left[q]
          /\ StagingDir(q)' = StagingDir(q) /\ link' = link /\ bin' = bin
      BY <2>2 DEF WriteMarker, Goto, StagingDir, Inv, Types
    <3>2. CASE pc[q] \in {"unpack", "mark"} \cup Staged
      <4>1. link[StagingDir(q)] # i
        BY <2>2, <3>2, StagingIsPrivate DEF WriteMarker
      <4>2. tree'[link[StagingDir(q)]] = tree[link[StagingDir(q)]]
        BY <4>1, <1>2, <1>5, <3>2, Paths DEF Inv, Types, Staging, Staged
      <4>3. QED
        BY <3>1, <4>2 DEF Inv, Staging
    <3>3. CASE pc[q] \notin {"unpack", "mark"} \cup Staged
      BY <3>1, <3>3 DEF Inv, Staging
    <3>4. QED
      BY <3>2, <3>3
  <2>3. QED
    BY <2>1, <2>2
<1>11. QED
  BY <1>6, <1>7, <1>8, <1>9, <1>10 DEF Inv

(* The rename of the staged tree preserves it, whether or not the installed
   path is free. *)
LEMMA RenameInv ==
  ASSUME Inv, NEW p \in Pid, Rename(p)
  PROVE  Inv'
<1>1. CASE Entries(Dir(p)) # {}
  <2>1. Moves(p, "cleanup")
    BY <1>1 DEF Rename, Moves, Inv, Types
  <2>2. /\ pc[p] \notin Removing \cup {"idle", "install", "booted", "failed"}
        /\ bin[p] \in Key
    BY DEF Rename, Inv, RunsABinary, Removing
  <2>3. QED
    BY <2>1, <2>2, MoveInv DEF Staged, Label
<1>2. CASE Entries(Dir(p)) = {}
  <2> DEFINE s == StagingDir(p)
  <2>1. /\ s \in Name /\ IsStaging(s) /\ s[1] = bin[p][1] /\ s[2] = p
        /\ Dir(p) \in Name /\ ~IsStaging(Dir(p)) /\ Dir(p)[1] = bin[p][1]
        /\ bin[p] \in Key /\ s # Dir(p)
    BY Paths DEF Rename, Inv
  <2>2. link' = [link EXCEPT ![Dir(p)] = link[s], ![s] = None] /\ Goto(p, "sweep")
    BY <1>2 DEF Rename
  <2>3. link[s] \in Inode /\ tree[link[s]] = Whole(bin[p])
    BY <2>1 DEF Rename, Inv, Types, Staging, Staged
  <2>4. /\ link'[Dir(p)] = link[s] /\ link'[s] = None
        /\ \A n \in Name : n # Dir(p) /\ n # s => link'[n] = link[n]
    BY <2>1, <2>2 DEF Inv, Types
  <2>5. Types' /\ HoldsRoot' /\ RunsABinary'
    BY <2>1, <2>2, <2>3 DEF Rename, Goto, Inv, Types, HoldsRoot, RunsABinary, Label
  <2>6. OneName'
    <3>1. ASSUME NEW m \in Name, NEW n \in Name, link'[m] = link'[n], link'[m] # None
          PROVE  m = n
      BY <2>1, <2>4, <3>1 DEF Inv, OneName
    <3>2. ASSUME NEW i \in Inode, \A n \in Name : link'[n] # i
          PROVE  tree'[i] = {}
      <4>1. CASE link[Dir(p)] = i
        BY <4>1, <1>2, NoneIsNoValue DEF Rename, Entries
      <4>2. CASE link[Dir(p)] # i
        <5>1. \A n \in Name : link[n] # i
          BY <4>2, <3>2, <2>1, <2>4
        <5>2. QED
          BY <5>1 DEF Rename, Inv, OneName
      <4>3. QED
        BY <4>1, <4>2
    <3>3. QED
      BY <3>1, <3>2 DEF OneName
  <2>7. NeverMixed'
    <3> SUFFICES ASSUME NEW n \in Name, NEW e \in Entries(n)', NEW f \in Entries(n)'
                 PROVE  e[2] = f[2] /\ e[2][1] = n[1]
      BY DEF NeverMixed
    <3>1. CASE n = Dir(p)
      BY <3>1, <2>1, <2>3, <2>4 DEF Rename, Entries, Whole
    <3>2. CASE n = s
      BY <3>2, <2>4 DEF Entries
    <3>3. CASE n # Dir(p) /\ n # s
      BY <3>3, <2>4 DEF Rename, Inv, NeverMixed, Entries
    <3>4. QED
      BY <3>1, <3>2, <3>3
  <2>8. \A q \in Pid : q # p => /\ StagingDir(q) # s
                                /\ StagingDir(q) # Dir(p)
                                /\ StagingDir(q)' = StagingDir(q)
    BY NoneIsNoValue DEF StagingDir, Dir, Final, Rename
  <2>9. RemovesItsOwn'
    <3> SUFFICES ASSUME NEW q \in Pid PROVE RemovesItsOwn!(q)'
      BY DEF RemovesItsOwn
    <3>1. CASE q = p
      BY <3>1, <2>2 DEF Rename, Goto, Inv, Types, RemovesItsOwn, Removing
    <3>2. CASE q # p
      <4>1. pc'[q] = pc[q] /\ open' = open /\ victim' = victim /\ todo' = todo
        BY <3>2, <2>2 DEF Rename, Goto, Inv, Types
      <4>2. ASSUME pc[q] \in {"rm_stage", "drop", "cleanup"}
            PROVE  link'[StagingDir(q)] = link[StagingDir(q)]
        BY <4>2, <3>2, <2>4, <2>8, Paths DEF Inv
      <4>3. ASSUME NEW n \in Name, IsStaging(n), NEW i \in Inode, link[n] # i
            PROVE  link'[n] # i
        BY <4>3, <2>1, <2>4, NoneIsNoValue
      <4>4. QED
        BY <4>1, <4>2, <4>3, <3>2, <2>8 DEF Inv, Types, RemovesItsOwn
    <3>3. QED
      BY <3>1, <3>2
  <2>10. Staging'
    <3> SUFFICES ASSUME NEW q \in Pid PROVE Staging!(q)'
      BY DEF Staging
    <3>1. CASE q = p
      BY <3>1, <2>2 DEF Rename, Goto, Inv, Types, Staged
    <3>2. CASE q # p
      <4>1. pc'[q] = pc[q] /\ tree' = tree /\ bin' = bin /\ left' = left
        BY <3>2, <2>2 DEF Rename, Goto, Inv, Types
      <4>2. ASSUME pc[q] \in {"mkdir", "unpack", "mark"} \cup Staged
            PROVE  link'[StagingDir(q)] = link[StagingDir(q)]
        BY <4>2, <3>2, <2>4, <2>8, Paths DEF Inv, Staged
      <4>3. QED
        BY <4>1, <4>2, <3>2, <2>8 DEF Inv, Staging
    <3>3. QED
      BY <3>1, <3>2
  <2>11. QED
    BY <2>5, <2>6, <2>7, <2>9, <2>10 DEF Inv
<1>3. QED
  BY <1>1, <1>2

(* The path a removal works on is a path of the cache: the owner's staging
   directory, or an installed one. *)
LEMMA RmPathType ==
  ASSUME Inv, NEW p \in Pid, pc[p] \in Removing
  PROVE  /\ RmPath(p) \in Name
         /\ pc[p] \in {"rm_stage", "drop", "cleanup"} => RmPath(p) = StagingDir(p)
         /\ pc[p] \in {"rm_dir", "rm_old"} => ~IsStaging(RmPath(p))
         /\ IsStaging(RmPath(p)) => RmPath(p) = StagingDir(p) /\ RmPath(p)[2] = p
<1>1. /\ Dir(p) \in Name /\ ~IsStaging(Dir(p))
      /\ StagingDir(p) \in Name /\ StagingDir(p)[2] = p
  BY Paths DEF Inv, Removing
<1>2. pc[p] = "rm_old" => victim[p] \in Name /\ ~IsStaging(victim[p])
  BY DEF Inv, RemovesItsOwn
<1>3. QED
  BY <1>1, <1>2 DEF RmPath, Removing

(* Opening the directory that remove_dir_all is called on preserves it. *)
LEMMA RmOpenInv ==
  ASSUME Inv, NEW p \in Pid, RmOpen(p)
  PROVE  Inv'
<1>1. pc[p] \in Removing /\ RmPath(p) \in Name
  BY RmPathType DEF RmOpen
<1>2. CASE link[RmPath(p)] = None
  <2>1. /\ pc' = [pc EXCEPT ![p] = After(pc[p], FALSE)]
        /\ open' = [open EXCEPT ![p] = None]
        /\ victim' = [victim EXCEPT ![p] = None]
    BY <1>2 DEF RmOpen, RmReturn, Goto
  <2>2. After(pc[p], FALSE) \in {"cleanup", "sweeping", "returned", "failed"}
    BY DEF After
  <2>3. Types' /\ HoldsRoot' /\ RunsABinary'
    BY <1>1, <2>1, <2>2 DEF RmOpen, Inv, Types, HoldsRoot, RunsABinary, Label, Removing
  <2>4. OneName' /\ NeverMixed'
    BY DEF RmOpen, Inv, OneName, NeverMixed, Entries
  <2>5. RemovesItsOwn'
    BY <2>1, <2>2 DEF RmOpen, Inv, Types, RemovesItsOwn, Removing, StagingDir
  <2>6. Staging'
    BY <2>1, <2>2 DEF RmOpen, Inv, Types, Staging, Staged, StagingDir
  <2>7. QED
    BY <2>3, <2>4, <2>5, <2>6 DEF Inv
<1>3. CASE link[RmPath(p)] # None
  <2>1. open' = [open EXCEPT ![p] = link[RmPath(p)]] /\ UNCHANGED <<pc, victim>>
    BY <1>3 DEF RmOpen
  <2>2. Types' /\ HoldsRoot' /\ RunsABinary'
    BY <1>1, <2>1 DEF RmOpen, Inv, Types, HoldsRoot, RunsABinary
  <2>3. OneName' /\ NeverMixed'
    BY DEF RmOpen, Inv, OneName, NeverMixed, Entries
  <2>4. ASSUME pc[p] \in {"rm_dir", "rm_old"}, NEW n \in Name, IsStaging(n)
        PROVE  link[n] # link[RmPath(p)]
    BY <1>1, <1>3, <2>4, RmPathType DEF Inv, OneName
  <2>5. pc[p] \in {"rm_stage", "drop", "cleanup"} => RmPath(p) = StagingDir(p)
    BY <1>1, RmPathType
  <2>6. RemovesItsOwn'
    BY <1>1, <2>1, <2>4, <2>5 DEF RmOpen, Inv, Types, RemovesItsOwn, StagingDir
  <2>7. Staging'
    BY <2>1 DEF RmOpen, Inv, Staging, StagingDir
  <2>8. QED
    BY <2>2, <2>3, <2>6, <2>7 DEF Inv
<1>4. QED
  BY <1>2, <1>3

(* Deleting one entry in remove_dir_all preserves it. *)
LEMMA RmEntryInv ==
  ASSUME Inv, NEW p \in Pid, RmEntry(p)
  PROVE  Inv'
<1>1. PICK x \in tree[open[p]] : tree' = [tree EXCEPT ![open[p]] = @ \ {x}]
  BY DEF RmEntry
<1>2. open[p] \in Inode
  BY DEF RmEntry, Inv, Types
<1>3. Types' /\ HoldsRoot' /\ RunsABinary'
  BY <1>1, <1>2 DEF RmEntry, Inv, Types, HoldsRoot, RunsABinary
<1>4. \A i \in Inode : tree'[i] \subseteq tree[i]
  BY <1>1, <1>2 DEF Inv, Types
<1>5. OneName'
  BY <1>4 DEF RmEntry, Inv, OneName
<1>6. NeverMixed'
  <2>1. \A n \in Name : Entries(n)' \subseteq Entries(n)
    BY <1>4 DEF RmEntry, Entries, Inv, Types
  <2>2. QED
    BY <2>1 DEF Inv, NeverMixed
<1>7. RemovesItsOwn'
  BY DEF RmEntry, Inv, RemovesItsOwn, StagingDir
<1>8. Staging'
  <2> SUFFICES ASSUME NEW q \in Pid PROVE Staging!(q)'
    BY DEF Staging
  <2>1. UNCHANGED <<pc, link, bin, left>> /\ StagingDir(q)' = StagingDir(q)
    BY DEF RmEntry, StagingDir
  <2>2. CASE pc[q] \in {"unpack", "mark"} \cup Staged
    <3>1. open[p] # link[StagingDir(q)]
      BY <2>2, RemovalKeepsStaged DEF RmEntry
    <3>2. link[StagingDir(q)] \in Inode
      BY <2>2, Paths DEF Inv, Types, Staging, Staged
    <3>3. tree'[link[StagingDir(q)]] = tree[link[StagingDir(q)]]
      BY <3>1, <3>2, <1>1 DEF Inv, Types
    <3>4. QED
      BY <2>1, <3>3 DEF Inv, Staging
  <2>3. CASE pc[q] \notin {"unpack", "mark"} \cup Staged
    BY <2>1, <2>3 DEF Inv, Staging
  <2>4. QED
    BY <2>2, <2>3
<1>9. QED
  BY <1>3, <1>5, <1>6, <1>7, <1>8 DEF Inv

(* Removing the emptied directory by its name preserves it. *)
LEMMA RmDirInv ==
  ASSUME Inv, NEW p \in Pid, RmDir(p)
  PROVE  Inv'
<1> DEFINE n0 == RmPath(p)
           ok == Entries(n0) = {}
<1>1. /\ pc[p] \in Removing /\ n0 \in Name /\ open[p] # None
      /\ IsStaging(n0) => n0 = StagingDir(p) /\ n0[2] = p
      /\ pc[p] \in {"rm_stage", "drop", "cleanup"} => n0 = StagingDir(p)
      /\ pc[p] \in {"rm_dir", "rm_old"} => ~IsStaging(n0)
  BY RmPathType DEF RmDir
<1>2. /\ pc' = [pc EXCEPT ![p] = After(pc[p], ok)]
      /\ open' = [open EXCEPT ![p] = None]
      /\ victim' = [victim EXCEPT ![p] = None]
      /\ link' = [link EXCEPT ![n0] = IF ok THEN None ELSE @]
      /\ UNCHANGED <<tree, bin, left, todo, root>>
  BY DEF RmDir, RmReturn, Goto
<1>3. /\ link'[n0] = IF ok THEN None ELSE link[n0]
      /\ \A n \in Name : n # n0 => link'[n] = link[n]
  BY <1>1, <1>2 DEF Inv, Types
<1>4. After(pc[p], ok) \in {"mkdir", "rename", "cleanup", "sweeping", "returned", "failed"}
  BY DEF After
<1>5. Types' /\ HoldsRoot' /\ RunsABinary'
  BY <1>1, <1>2, <1>4 DEF Inv, Types, HoldsRoot, RunsABinary, Label, Removing
<1>6. OneName'
  <2>1. ASSUME NEW m \in Name, NEW n \in Name, link'[m] = link'[n], link'[m] # None
        PROVE  m = n
    BY <1>1, <1>3, <2>1 DEF Inv, OneName
  <2>2. ASSUME NEW i \in Inode, \A n \in Name : link'[n] # i
        PROVE  tree'[i] = {}
    <3>1. CASE link[n0] = i
      BY <3>1, <2>2, <1>1, <1>2, <1>3, NoneIsNoValue DEF Entries
    <3>2. CASE link[n0] # i
      <4>1. \A n \in Name : link[n] # i
        BY <3>2, <2>2, <1>3
      <4>2. QED
        BY <4>1, <1>2 DEF Inv, OneName
    <3>3. QED
      BY <3>1, <3>2
  <2>3. QED
    BY <2>1, <2>2 DEF OneName
<1>7. NeverMixed'
  <2>1. \A n \in Name : Entries(n)' \subseteq Entries(n)
    BY <1>1, <1>2, <1>3 DEF Entries
  <2>2. QED
    BY <2>1 DEF Inv, NeverMixed
<1>8. ASSUME NEW q \in Pid, q # p, pc[q] \notin {"idle", "install", "failed"}
      PROVE  link'[StagingDir(q)] = link[StagingDir(q)]
  <2>1. StagingDir(q) \in Name /\ IsStaging(StagingDir(q)) /\ StagingDir(q)[2] = q
    BY <1>8, Paths DEF Inv
  <2>2. QED
    BY <2>1, <1>1, <1>3, <1>8
<1>9. RemovesItsOwn'
  <2> SUFFICES ASSUME NEW q \in Pid PROVE RemovesItsOwn!(q)'
    BY DEF RemovesItsOwn
  <2>1. CASE q = p
    BY <2>1, <1>2, <1>4 DEF Inv, Types, RemovesItsOwn, Removing
  <2>2. CASE q # p
    <3>1. /\ pc'[q] = pc[q] /\ open'[q] = open[q] /\ victim'[q] = victim[q]
          /\ StagingDir(q)' = StagingDir(q) /\ todo' = todo
      BY <2>2, <1>2 DEF StagingDir, Inv, Types
    <3>2. ASSUME NEW n \in Name, NEW i \in Inode, link[n] # i
          PROVE  link'[n] # i
      BY <3>2, <1>3, NoneIsNoValue
    <3>3. QED
      BY <2>2, <3>1, <3>2, <1>8 DEF Inv, Types, RemovesItsOwn
  <2>3. QED
    BY <2>1, <2>2
<1>10. Staging'
  <2> SUFFICES ASSUME NEW q \in Pid PROVE Staging!(q)'
    BY DEF Staging
  <2>1. CASE q = p
    <3>1. StagingDir(p)' = StagingDir(p) /\ pc'[p] = After(pc[p], ok)
      BY <1>2 DEF StagingDir, Inv, Types
    <3>2. CASE pc[p] = "rm_stage"
      BY <3>1, <3>2, <2>1, <1>1, <1>3 DEF After, Staged
    <3>3. CASE pc[p] = "rm_dir"
      <4>1. /\ StagingDir(p) \in Name /\ IsStaging(StagingDir(p))
            /\ link[StagingDir(p)] # None
            /\ tree[link[StagingDir(p)]] = Whole(bin[p])
        BY <3>3, Paths DEF Inv, Staging, Staged
      <4>2. link'[StagingDir(p)] = link[StagingDir(p)]
        BY <4>1, <3>3, <1>1, <1>3
      <4>3. QED
        BY <4>1, <4>2, <3>1, <3>3, <2>1, <1>2 DEF After, Staged
    <3>4. CASE pc[p] \in {"rm_old", "drop", "cleanup"}
      BY <3>1, <3>4, <2>1 DEF After, Staged
    <3>5. QED
      BY <3>2, <3>3, <3>4, <1>1 DEF Removing
  <2>2. CASE q # p
    <3>1. /\ pc'[q] = pc[q] /\ UNCHANGED <<bin, left, tree>>
          /\ StagingDir(q)' = StagingDir(q)
      BY <2>2, <1>2 DEF StagingDir, Inv, Types
    <3>2. QED
      BY <2>2, <3>1, <1>8 DEF Inv, Staging, Staged
  <2>3. QED
    BY <2>1, <2>2
<1>11. QED
  BY <1>5, <1>6, <1>7, <1>9, <1>10 DEF Inv

(* A removal that fails half way preserves it. *)
LEMMA RmFaultInv ==
  ASSUME Inv, NEW p \in Pid, RmFault(p)
  PROVE  Inv'
<1>1. /\ pc' = [pc EXCEPT ![p] = After(pc[p], FALSE)]
      /\ open' = [open EXCEPT ![p] = None]
      /\ victim' = [victim EXCEPT ![p] = None]
  BY DEF RmFault, RmReturn, Goto
<1>2. After(pc[p], FALSE) \in {"cleanup", "sweeping", "returned", "failed"}
  BY DEF After
<1>3. Types' /\ HoldsRoot' /\ RunsABinary'
  BY <1>1, <1>2 DEF RmFault, Inv, Types, HoldsRoot, RunsABinary, Label, Removing
<1>4. OneName' /\ NeverMixed'
  BY DEF RmFault, Inv, OneName, NeverMixed, Entries
<1>5. RemovesItsOwn'
  BY <1>1, <1>2 DEF RmFault, Inv, Types, RemovesItsOwn, Removing, StagingDir
<1>6. Staging'
  BY <1>1, <1>2 DEF RmFault, Inv, Types, Staging, Staged, StagingDir
<1>7. QED
  BY <1>3, <1>4, <1>5, <1>6 DEF Inv

(* A user who deletes part of an installed tree preserves it. *)
LEMMA DamageInv ==
  ASSUME Inv, NEW v \in Version, Damage(v)
  PROVE  Inv'
<1>1. Final(v) \in Name
  BY DEF Final, Name
<1>2. PICK x \in Damageable :
        tree' = [tree EXCEPT ![link[Final(v)]] = {e \in @ : e[1] # x}]
  BY DEF Damage
<1>3. link[Final(v)] \in Inode
  BY <1>1 DEF Damage, Inv, Types
<1>4. Types' /\ HoldsRoot' /\ RunsABinary'
  BY <1>2, <1>3 DEF Damage, Inv, Types, HoldsRoot, RunsABinary
<1>5. \A i \in Inode : tree'[i] \subseteq tree[i]
  BY <1>2, <1>3 DEF Inv, Types
<1>6. OneName'
  BY <1>5 DEF Damage, Inv, OneName
<1>7. NeverMixed'
  <2>1. \A n \in Name : Entries(n)' \subseteq Entries(n)
    BY <1>5 DEF Damage, Entries, Inv, Types
  <2>2. QED
    BY <2>1 DEF Inv, NeverMixed
<1>8. RemovesItsOwn'
  BY DEF Damage, Inv, RemovesItsOwn, StagingDir
<1>9. Staging'
  BY DEF Damage, Staging, Staged
<1>10. QED
  BY <1>4, <1>6, <1>7, <1>8, <1>9 DEF Inv

-----------------------------------------------------------------------------
(* Every step of every build, and the user, keeps the invariant. *)
LEMMA StepInv ==
  ASSUME Inv, [Next]_vars
  PROVE  Inv'
<1>1. CASE UNCHANGED vars
  BY <1>1 DEF vars, Inv, Types, HoldsRoot, RunsABinary, OneName, RemovesItsOwn, Staging,
     NeverMixed, Entries, StagingDir
<1>2. ASSUME NEW p \in Pid, NEW b \in Binary, Start(p, b) PROVE Inv'
  BY <1>2, StartInv
<1>3. ASSUME NEW p \in Pid, InstallStep(p) PROVE Inv'
  BY <1>3, InstallInv, HitInv, RecheckInv, RehitInv, ExistsInv, RenameInv, RenameFaultInv
     DEF InstallStep
<1>4. ASSUME NEW p \in Pid, StageStep(p) PROVE Inv'
  BY <1>4, StageBeginInv, CreateStagingInv, UnpackPartInv, UnpackEndInv, WriteMarkerInv,
     StageFaultInv DEF StageStep
<1>5. ASSUME NEW p \in Pid, SweepStep(p) PROVE Inv'
  BY <1>5, SweepBeginInv, SweepFaultInv, SweepNextInv, SweepEndInv DEF SweepStep
<1>6. ASSUME NEW p \in Pid, RemoveStep(p) PROVE Inv'
  BY <1>6, RmOpenInv, RmEntryInv, RmDirInv, RmFaultInv DEF RemoveStep
<1>7. ASSUME NEW p \in Pid, UseStep(p) PROVE Inv'
  BY <1>7, SelectVmInv, BuildCheckInv, BootInv DEF UseStep
<1>8. ASSUME NEW p \in Pid, Exit(p) \/ Crash(p) PROVE Inv'
  BY <1>8, LeaveInv DEF Exit, Crash
<1>9. ASSUME NEW v \in Version, Damage(v) PROVE Inv'
  BY <1>9, DamageInv
<1>10. QED
  BY <1>1, <1>2, <1>3, <1>4, <1>5, <1>6, <1>7, <1>8, <1>9 DEF Next, Step

(* The invariant holds in every behaviour of the cache: any number of builds
   of install, with failing calls, crashes and reused pids. *)
THEOREM Invariance == Spec => []Inv
<1>1. Init => Inv
  BY InitInv
<1>2. Inv /\ [Next]_vars => Inv'
  BY StepInv
<1>3. QED
  BY <1>1, <1>2, PTL DEF Spec

(* Type correctness, and a VM's directory is held exactly while it runs. *)
THEOREM TypeCorrect == Spec => []TypeOK
<1>1. Inv => TypeOK
  BY DEF Inv, Types, HoldsRoot, TypeOK
<1>2. QED
  BY <1>1, Invariance, PTL

(* What install is about to rename into place is always the complete tree of
   its own archive. *)
THEOREM StagedTreesAreWhole == Spec => []StagedTreeIsWhole
<1>1. Inv => StagedTreeIsWhole
  BY DEF Inv, Staging, StagedTreeIsWhole, Entries
<1>2. QED
  BY <1>1, Invariance, PTL

(* No directory of the cache ever mixes two archives. *)
THEOREM TreesAreNeverMixed == Spec => []NeverMixed
<1>1. Inv => NeverMixed
  BY DEF Inv
<1>2. QED
  BY <1>1, Invariance, PTL

-----------------------------------------------------------------------------
(***************************************************************************)
(* The cache implements RootfsStore.                                       *)
(***************************************************************************)
Slot == [v \in Version |-> Entries(Final(v))]

(* The installed paths are paths of the cache, one for each version. *)
LEMMA FinalNames ==
  \A v \in Version : /\ Final(v) \in Name /\ ~IsStaging(Final(v))
                     /\ \A w \in Version : Final(v) = Final(w) => v = w
  BY DEF Final, Name, IsStaging

(* A step that keeps what every installed path holds is a stuttering step. *)
LEMMA SameSlot ==
  ASSUME \A v \in Version : Entries(Final(v))' = Entries(Final(v))
  PROVE  UNCHANGED Slot
  BY DEF Slot

(* A step that takes entries from one installed tree and leaves the others. *)
LEMMA LoseSlot ==
  ASSUME NEW v \in Version, Entries(Final(v))' \subseteq Entries(Final(v)),
         Entries(Final(v))' # Entries(Final(v)),
         \A w \in Version : w # v => Entries(Final(w))' = Entries(Final(w))
  PROVE  Store!Next
<1>1. Slot' = [Slot EXCEPT ![v] = Entries(Final(v))']
  BY DEF Slot
<1>2. Store!Lose(v)
  BY <1>1 DEF Store!Lose, Slot
<1>3. QED
  BY <1>2 DEF Store!Next

(* A step that leaves every directory alone is a stuttering step. *)
LEMMA KeepsDirectories ==
  ASSUME UNCHANGED <<link, tree>>
  PROVE  UNCHANGED Slot
  BY SameSlot DEF Entries

(* What stage makes and writes is not seen through an installed path. *)
LEMMA StagingKeepsSlot ==
  ASSUME Inv, NEW p \in Pid, CreateStaging(p) \/ UnpackPart(p) \/ WriteMarker(p)
  PROVE  UNCHANGED Slot
<1>1. StagingDir(p) \in Name /\ IsStaging(StagingDir(p))
  BY Paths DEF Inv, CreateStaging, UnpackPart, WriteMarker
<1>2. CASE CreateStaging(p)
  <2>1. \A n \in Name : n # StagingDir(p) => link'[n] = link[n]
    BY <1>1, <1>2 DEF CreateStaging, Inv, Types
  <2>2. tree' = tree
    BY <1>2 DEF CreateStaging
  <2>3. QED
    BY <1>1, <2>1, <2>2, FinalNames, SameSlot DEF Entries
<1>3. CASE UnpackPart(p) \/ WriteMarker(p)
  <2>1. link' = link /\ link[StagingDir(p)] \in Inode
    BY <1>1, <1>3 DEF UnpackPart, WriteMarker, Inv, Types
  <2>2. \A i \in Inode : i # link[StagingDir(p)] => tree'[i] = tree[i]
    BY <1>3, <2>1 DEF UnpackPart, WriteMarker, Inv, Types
  <2>3. \A v \in Version : link[Final(v)] # None =>
          link[Final(v)] \in Inode /\ link[Final(v)] # link[StagingDir(p)]
    BY <1>1, FinalNames DEF Inv, Types, OneName
  <2>4. QED
    BY <2>1, <2>2, <2>3, SameSlot DEF Entries
<1>4. QED
  BY <1>2, <1>3

(* The rename of install publishes a whole tree where there was none, or
   changes nothing. *)
LEMMA RenamePublishes ==
  ASSUME Inv, NEW p \in Pid, Rename(p)
  PROVE  Store!Next \/ UNCHANGED Slot
<1>1. CASE Entries(Dir(p)) # {}
  BY <1>1, KeepsDirectories DEF Rename
<1>2. CASE Entries(Dir(p)) = {}
  <2> DEFINE s == StagingDir(p)
  <2>1. s \in Name /\ IsStaging(s) /\ bin[p] \in Key
    BY Paths DEF Rename, Inv
  <2>2. PICK v \in Version, d \in Digest : bin[p] = <<v, d>> /\ Dir(p) = Final(v)
    BY <2>1 DEF Key, Dir
  <2>3. link[s] # None /\ tree[link[s]] = Whole(bin[p])
    BY DEF Rename, Inv, Staging, Staged
  <2>4. /\ link'[Final(v)] = link[s] /\ tree' = tree
        /\ \A n \in Name : n # Final(v) /\ n # s => link'[n] = link[n]
    BY <1>2, <2>1, <2>2, FinalNames DEF Rename, Inv, Types
  <2>5. Entries(Final(v))' = Whole(<<v, d>>)
    BY <2>2, <2>3, <2>4 DEF Entries
  <2>6. \A w \in Version : w # v => Entries(Final(w))' = Entries(Final(w))
    BY <2>1, <2>2, <2>4, FinalNames DEF Entries
  <2>7. Slot' = [Slot EXCEPT ![v] = Whole(<<v, d>>)] /\ Slot[v] = {}
    BY <1>2, <2>1, <2>2, <2>5, <2>6 DEF Slot
  <2>8. Store!Publish(v)
    BY <2>2, <2>7 DEF Store!Publish, Store!Whole, Whole, Slot
  <2>9. QED
    BY <2>2, <2>8 DEF Store!Next
<1>3. QED
  BY <1>1, <1>2

(* Entries that disappear from one directory, seen through its only name. *)
LEMMA LosesEntries ==
  ASSUME Inv, NEW i \in Inode, link' = link, tree'[i] \subseteq tree[i],
         \A j \in Inode : j # i => tree'[j] = tree[j]
  PROVE  Store!Next \/ UNCHANGED Slot
<1>1. CASE \E v \in Version : link[Final(v)] = i /\ tree'[i] # tree[i]
  <2>1. PICK v \in Version : link[Final(v)] = i /\ tree'[i] # tree[i]
    BY <1>1
  <2>2. Entries(Final(v)) = tree[i] /\ Entries(Final(v))' = tree'[i]
    BY <2>1, NoneIsNoValue DEF Entries
  <2>3. \A w \in Version : w # v => Entries(Final(w))' = Entries(Final(w))
    BY <2>1, FinalNames, NoneIsNoValue DEF Entries, Inv, Types, OneName
  <2>4. QED
    BY <2>1, <2>2, <2>3, LoseSlot
<1>2. CASE \A v \in Version : link[Final(v)] # i \/ tree'[i] = tree[i]
  <2>1. \A v \in Version : Entries(Final(v))' = Entries(Final(v))
    BY <1>2, FinalNames DEF Entries, Inv, Types
  <2>2. QED
    BY <2>1, SameSlot
<1>3. QED
  BY <1>1, <1>2

(* The removal of an empty directory takes nothing from an installed tree. *)
LEMMA RmDirKeepsSlot ==
  ASSUME Inv, NEW p \in Pid, RmDir(p)
  PROVE  UNCHANGED Slot
<1>1. RmPath(p) \in Name
  BY RmPathType DEF RmDir
<1>2. \A n \in Name : Entries(n)' = Entries(n)
  BY <1>1 DEF RmDir, Entries, Inv, Types
<1>3. QED
  BY <1>2, FinalNames, SameSlot

(* Every step of every build, and the user, is a step of the store or leaves
   every installed tree alone. *)
LEMMA StepRefines ==
  ASSUME Inv, [Next]_vars
  PROVE  Store!Next \/ UNCHANGED Slot
<1>1. CASE UNCHANGED vars
  BY <1>1, KeepsDirectories DEF vars
<1>2. ASSUME NEW p \in Pid, NEW b \in Binary, Start(p, b) PROVE UNCHANGED Slot
  BY <1>2, KeepsDirectories DEF Start
<1>3. ASSUME NEW p \in Pid, InstallStep(p) PROVE Store!Next \/ UNCHANGED Slot
  BY <1>3, RenamePublishes, KeepsDirectories
     DEF InstallStep, Install, Hit, Recheck, Rehit, Exists, RenameFault
<1>4. ASSUME NEW p \in Pid, StageStep(p) PROVE UNCHANGED Slot
  BY <1>4, StagingKeepsSlot, KeepsDirectories DEF StageStep, StageBegin, UnpackEnd, StageFault
<1>5. ASSUME NEW p \in Pid, SweepStep(p) PROVE UNCHANGED Slot
  BY <1>5, KeepsDirectories DEF SweepStep, SweepBegin, SweepFault, SweepNext, SweepEnd
<1>6. ASSUME NEW p \in Pid, RemoveStep(p) PROVE Store!Next \/ UNCHANGED Slot
  <2>1. CASE RmEntry(p)
    <3>1. open[p] \in Inode /\ link' = link
      BY <2>1 DEF RmEntry, Inv, Types
    <3>2. /\ tree'[open[p]] \subseteq tree[open[p]]
          /\ \A j \in Inode : j # open[p] => tree'[j] = tree[j]
      BY <2>1, <3>1 DEF RmEntry, Inv, Types
    <3>3. QED
      BY <3>1, <3>2, LosesEntries
  <2>2. CASE RmDir(p)
    BY <2>2, RmDirKeepsSlot
  <2>3. CASE RmOpen(p) \/ RmFault(p)
    BY <2>3, KeepsDirectories DEF RmOpen, RmFault
  <2>4. QED
    BY <1>6, <2>1, <2>2, <2>3 DEF RemoveStep
<1>7. ASSUME NEW p \in Pid, UseStep(p) PROVE UNCHANGED Slot
  BY <1>7, KeepsDirectories DEF UseStep, SelectVm, BuildCheck, Boot
<1>8. ASSUME NEW p \in Pid, Exit(p) \/ Crash(p) PROVE UNCHANGED Slot
  BY <1>8, KeepsDirectories DEF Exit, Crash, Leave
<1>9. ASSUME NEW v \in Version, Damage(v) PROVE Store!Next \/ UNCHANGED Slot
  <2> DEFINE i == link[Final(v)]
  <2>1. i \in Inode /\ link' = link
    BY <1>9, FinalNames DEF Damage, Inv, Types
  <2>2. tree'[i] \subseteq tree[i] /\ \A j \in Inode : j # i => tree'[j] = tree[j]
    BY <1>9, <2>1 DEF Damage, Inv, Types
  <2>3. QED
    BY <2>1, <2>2, LosesEntries
<1>10. QED
  BY <1>1, <1>2, <1>3, <1>4, <1>5, <1>6, <1>7, <1>8, <1>9 DEF Next, Step

(* Seen through the installed paths, whatever the builds, failures and
   crashes: a tree appears whole, where there was none, and is never added to. *)
THEOREM Refinement == Spec => CacheImplementsStore
<1>1. Init => Store!Init
  BY FinalNames DEF Init, Store!Init, Entries
<1>2. Inv /\ [Next]_vars => [Store!Next]_Slot
  BY StepRefines
<1>3. QED
  BY <1>1, <1>2, Invariance, PTL DEF Spec, CacheImplementsStore, Store!Spec, Slot
=============================================================================
