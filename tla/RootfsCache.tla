---------------------------- MODULE RootfsCache ----------------------------
(***************************************************************************)
(* The cache of unpacked VM root filesystems (src/vm_rootfs.rs) and the    *)
(* way a `--runtime vm` build uses it: install, the two rootfs checks that *)
(* follow it, and the VM that runs from the installed directory.           *)
(*                                                                         *)
(* Any number of builds run at once, of binaries with different versions   *)
(* and different embedded archives, over one directory tree and with no    *)
(* lock.  A directory is an inode: `link` says which inode a path names    *)
(* and `tree` what an inode holds, so a rename, a removal under way and a  *)
(* VM that holds a directory open are told apart.                          *)
(***************************************************************************)
EXTENDS Naturals, FiniteSets, Functions

CONSTANTS
  Pid,         \* process ids; one is used again after its process ended
  Version,     \* CARGO_PKG_VERSION of the binaries installed on the host
  Digest,      \* SHA-256 of the archives embedded in them
  Binary,      \* <<version, digest>>; the digest is None with no archive
  Inode,       \* directories the file system can hold
  Faults,      \* what may go wrong, see Fault
  Damageable,  \* parts of an installed tree that the user may delete
  None

Fault == {"mkdir", "unpack", "marker", "remove", "rename", "readdir", "crash"}

(***************************************************************************)
(* A rootfs tree has three parts: the vm-build helper that check_rootfs    *)
(* looks for, the marker, and everything else.  An entry is a part and the *)
(* key of the archive it came from.                                        *)
(***************************************************************************)
Part == {"helper", "rest", "marker"}

Archive == Part \ {"marker"}

Key == Version \X Digest

Whole(k) == Part \X {k}

ASSUME NoneIsNoValue == None \notin Pid \cup Inode \cup Digest

ASSUME BinariesAreBuilt == Binary \subseteq Version \X (Digest \cup {None})

ASSUME FaultsAreKnown == Faults \subseteq Fault /\ Damageable \subseteq Part

(***************************************************************************)
(* Paths below the cache root: <version> for an installed tree and         *)
(* .staging-<version>-<pid> for one being unpacked.                        *)
(***************************************************************************)
Name == Version \X (Pid \cup {None})

Final(v) == <<v, None>>

IsStaging(n) == n[2] # None

VARIABLES
  link,    \* the inode a path names, or None
  tree,    \* the entries of an inode
  pc,      \* where each process is
  bin,     \* the binary it runs
  left,    \* unpack: parts of the archive not yet written
  open,    \* remove_dir_all: the directory it holds open
  todo,    \* sweep_old_versions: directories still to look at
  victim,  \* sweep_old_versions: the directory being removed
  root     \* the directory its VM runs from

vars == <<link, tree, pc, bin, left, open, todo, victim, root>>

Label == {"idle", "install", "hit", "stage", "rm_stage", "mkdir", "unpack",
          "mark", "recheck", "rehit", "drop", "exists", "rm_dir", "rename",
          "sweep", "sweeping", "rm_old", "cleanup", "returned", "selected",
          "resolved", "booted", "failed"}

Removing == {"rm_stage", "drop", "rm_dir", "rm_old", "cleanup"}

Dir(p) == Final(bin[p][1])

(* Mutant: unpack straight into the installed directory. *)
StagingDirIsFinal(p) == Dir(p)

StagingDir(p) == <<bin[p][1], p>>

(* Every reachable directory, and one the file system may hand out next. *)
FreeInode ==
  {i \in Inode : i \notin Range(link) /\ \A p \in Pid : i \notin {open[p], root[p]}}

Entries(n) == IF link[n] = None THEN {} ELSE tree[link[n]]

Goto(p, l) == pc' = [pc EXCEPT ![p] = l]

(***************************************************************************)
(* The two reads that decide whether an installed tree is used as it is.   *)
(***************************************************************************)
(* Mutant: never find a marker. *)
MarkerNeverMatches(n, k) == FALSE

MarkerMatches(n, k) == <<"marker", k>> \in Entries(n)

CheckRootfs(n) == \E e \in Entries(n) : e[1] = "helper"

(***************************************************************************)
(* A write into a directory.  The helper and the marker are single files   *)
(* and replaced; "rest" stands for many files, and what an earlier archive *)
(* left under other names stays.                                           *)
(***************************************************************************)
Write(t, x, k) == {e \in t : e[1] # x \/ x = "rest"} \cup {<<x, k>>}

(***************************************************************************)
(* install                                                                 *)
(***************************************************************************)
Start(p, b) ==
  /\ pc[p] = "idle"
  /\ bin' = [bin EXCEPT ![p] = b]
  /\ Goto(p, "install")
  /\ UNCHANGED <<link, tree, left, open, todo, victim, root>>

Install(p) ==
  /\ pc[p] = "install"
  /\ Goto(p, IF bin[p][2] = None THEN "failed"
             ELSE IF MarkerMatches(Dir(p), bin[p]) THEN "hit" ELSE "stage")
  /\ UNCHANGED <<link, tree, bin, left, open, todo, victim, root>>

Hit(p) ==
  /\ pc[p] = "hit"
  /\ Goto(p, IF CheckRootfs(Dir(p)) THEN "returned" ELSE "stage")
  /\ UNCHANGED <<link, tree, bin, left, open, todo, victim, root>>

(* Mutant: unpack over what an earlier process left in the staging path. *)
StageBeginOverLeftovers(p) ==
  /\ pc[p] = "stage"
  /\ Goto(p, "mkdir")
  /\ UNCHANGED <<link, tree, bin, left, open, todo, victim, root>>

StageBegin(p) ==
  /\ pc[p] = "stage"
  /\ Goto(p, IF link[StagingDir(p)] # None THEN "rm_stage" ELSE "mkdir")
  /\ UNCHANGED <<link, tree, bin, left, open, todo, victim, root>>

CreateStaging(p) ==
  /\ pc[p] = "mkdir"
  /\ \E i \in IF link[StagingDir(p)] # None THEN {link[StagingDir(p)]} ELSE FreeInode :
       link' = [link EXCEPT ![StagingDir(p)] = i]
  /\ left' = [left EXCEPT ![p] = Archive]
  /\ Goto(p, "unpack")
  /\ UNCHANGED <<tree, bin, open, todo, victim, root>>

UnpackPart(p) ==
  /\ pc[p] = "unpack"
  /\ link[StagingDir(p)] # None
  /\ \E x \in left[p] :
       /\ tree' = [tree EXCEPT ![link[StagingDir(p)]] = Write(@, x, bin[p])]
       /\ left' = [left EXCEPT ![p] = @ \ {x}]
  /\ UNCHANGED <<link, pc, bin, open, todo, victim, root>>

(* Mutant: an unpack that stopped early goes on to the marker. *)
UnpackEndEarly(p) ==
  /\ pc[p] = "unpack"
  /\ Goto(p, "mark")
  /\ UNCHANGED <<link, tree, bin, left, open, todo, victim, root>>

UnpackEnd(p) ==
  /\ pc[p] = "unpack"
  /\ left[p] = {}
  /\ Goto(p, "mark")
  /\ UNCHANGED <<link, tree, bin, left, open, todo, victim, root>>

WriteMarker(p) ==
  /\ pc[p] = "mark"
  /\ link[StagingDir(p)] # None
  /\ tree' = [tree EXCEPT ![link[StagingDir(p)]] = Write(@, "marker", bin[p])]
  /\ Goto(p, "recheck")
  /\ UNCHANGED <<link, bin, left, open, todo, victim, root>>

(* One of the calls of stage returns an error: install removes the staging
   directory and passes the error on. *)
StageFault(p) ==
  /\ \/ pc[p] = "mkdir" /\ "mkdir" \in Faults
     \/ pc[p] = "unpack" /\ "unpack" \in Faults
     \/ pc[p] = "mark" /\ "marker" \in Faults
  /\ left' = [left EXCEPT ![p] = {}]
  /\ Goto(p, "cleanup")
  /\ UNCHANGED <<link, tree, bin, open, todo, victim, root>>

Recheck(p) ==
  /\ pc[p] = "recheck"
  /\ Goto(p, IF MarkerMatches(Dir(p), bin[p]) THEN "rehit" ELSE "exists")
  /\ UNCHANGED <<link, tree, bin, left, open, todo, victim, root>>

Rehit(p) ==
  /\ pc[p] = "rehit"
  /\ Goto(p, IF CheckRootfs(Dir(p)) THEN "drop" ELSE "exists")
  /\ UNCHANGED <<link, tree, bin, left, open, todo, victim, root>>

(* Mutant: rename without removing a stale tree first. *)
ExistsIgnored(p) ==
  /\ pc[p] = "exists"
  /\ Goto(p, "rename")
  /\ UNCHANGED <<link, tree, bin, left, open, todo, victim, root>>

Exists(p) ==
  /\ pc[p] = "exists"
  /\ Goto(p, IF link[Dir(p)] # None THEN "rm_dir" ELSE "rename")
  /\ UNCHANGED <<link, tree, bin, left, open, todo, victim, root>>

(* rename(2) replaces a directory that is missing or empty, and no other. *)
Rename(p) ==
  /\ pc[p] = "rename"
  /\ IF Entries(Dir(p)) = {}
       THEN /\ link' = [link EXCEPT ![Dir(p)] = link[StagingDir(p)], ![StagingDir(p)] = None]
            /\ Goto(p, "sweep")
       ELSE /\ Goto(p, "cleanup")
            /\ UNCHANGED link
  /\ UNCHANGED <<tree, bin, left, open, todo, victim, root>>

RenameFault(p) ==
  /\ pc[p] = "rename" /\ "rename" \in Faults
  /\ Goto(p, "cleanup")
  /\ UNCHANGED <<link, tree, bin, left, open, todo, victim, root>>

(***************************************************************************)
(* sweep_old_versions                                                      *)
(***************************************************************************)
(* Mutant: sweep nothing. *)
NothingSweepable(n, current) == FALSE

(* Mutant: sweep every installed tree, the one just installed too. *)
EveryTreeSweepable(n, current) == ~IsStaging(n)

Sweepable(n, current) == n # current /\ ~IsStaging(n)

SweepBegin(p) ==
  /\ pc[p] = "sweep"
  /\ todo' = [todo EXCEPT ![p] = {n \in Name : link[n] # None /\ Sweepable(n, Dir(p))}]
  /\ Goto(p, "sweeping")
  /\ UNCHANGED <<link, tree, bin, left, open, victim, root>>

SweepFault(p) ==
  /\ pc[p] = "sweep" /\ "readdir" \in Faults
  /\ Goto(p, "returned")
  /\ UNCHANGED <<link, tree, bin, left, open, todo, victim, root>>

(* Mutant: keep an entry on the list until it is gone, and never drop it. *)
SweepNextRetries(p) ==
  /\ pc[p] = "sweeping"
  /\ \E n \in todo[p] :
       /\ link[n] # None
       /\ victim' = [victim EXCEPT ![p] = n] /\ Goto(p, "rm_old")
  /\ UNCHANGED <<link, tree, bin, left, open, todo, root>>

SweepNext(p) ==
  /\ pc[p] = "sweeping"
  /\ \E n \in todo[p] :
       /\ todo' = [todo EXCEPT ![p] = @ \ {n}]
       /\ IF link[n] # None
            THEN victim' = [victim EXCEPT ![p] = n] /\ Goto(p, "rm_old")
            ELSE UNCHANGED <<victim, pc>>
  /\ UNCHANGED <<link, tree, bin, left, open, root>>

SweepEnd(p) ==
  /\ pc[p] = "sweeping" /\ todo[p] = {}
  /\ Goto(p, "returned")
  /\ UNCHANGED <<link, tree, bin, left, open, todo, victim, root>>

(***************************************************************************)
(* fs::remove_dir_all, as every caller above meets it: it opens the        *)
(* directory, deletes what it finds through the open handle, then removes  *)
(* the directory by name.  A name already gone by then is no error; one    *)
(* that meanwhile names a directory with entries is.                       *)
(***************************************************************************)
RmPath(p) ==
  CASE pc[p] = "rm_dir" -> Dir(p)
    [] pc[p] = "rm_old" -> victim[p]
    [] OTHER -> StagingDir(p)

(* Mutant: a stale tree that cannot be removed ends install at once. *)
AfterWithoutCleanup(l, ok) ==
  CASE l = "rm_stage" -> IF ok THEN "mkdir" ELSE "cleanup"
    [] l = "rm_dir" -> IF ok THEN "rename" ELSE "failed"
    [] l = "rm_old" -> "sweeping"
    [] l = "drop" -> "returned"
    [] OTHER -> "failed"

After(l, ok) ==
  CASE l = "rm_stage" -> IF ok THEN "mkdir" ELSE "cleanup"
    [] l = "rm_dir" -> IF ok THEN "rename" ELSE "cleanup"
    [] l = "rm_old" -> "sweeping"
    [] l = "drop" -> "returned"
    [] OTHER -> "failed"

RmReturn(p, ok) ==
  /\ Goto(p, After(pc[p], ok))
  /\ open' = [open EXCEPT ![p] = None]
  /\ victim' = [victim EXCEPT ![p] = None]

RmOpen(p) ==
  /\ pc[p] \in Removing /\ open[p] = None
  /\ IF link[RmPath(p)] = None
       THEN RmReturn(p, FALSE)
       ELSE /\ open' = [open EXCEPT ![p] = link[RmPath(p)]]
            /\ UNCHANGED <<pc, victim>>
  /\ UNCHANGED <<link, tree, bin, left, todo, root>>

RmEntry(p) ==
  /\ pc[p] \in Removing /\ open[p] # None
  /\ \E e \in tree[open[p]] : tree' = [tree EXCEPT ![open[p]] = @ \ {e}]
  /\ UNCHANGED <<link, pc, bin, left, open, todo, victim, root>>

RmDir(p) ==
  /\ pc[p] \in Removing /\ open[p] # None /\ tree[open[p]] = {}
  /\ link' = [link EXCEPT ![RmPath(p)] = IF Entries(RmPath(p)) = {} THEN None ELSE @]
  /\ RmReturn(p, Entries(RmPath(p)) = {})
  /\ UNCHANGED <<tree, bin, left, todo, root>>

RmFault(p) ==
  /\ pc[p] \in Removing /\ "remove" \in Faults
  /\ RmReturn(p, FALSE)
  /\ UNCHANGED <<link, tree, bin, left, todo, root>>

(***************************************************************************)
(* After install: select_vm checks the directory, build checks it again,   *)
(* and the VM that libkrun starts opens it.                                *)
(***************************************************************************)
SelectVm(p) ==
  /\ pc[p] = "returned"
  /\ Goto(p, IF CheckRootfs(Dir(p)) THEN "selected" ELSE "failed")
  /\ UNCHANGED <<link, tree, bin, left, open, todo, victim, root>>

BuildCheck(p) ==
  /\ pc[p] = "selected"
  /\ Goto(p, IF CheckRootfs(Dir(p)) THEN "resolved" ELSE "failed")
  /\ UNCHANGED <<link, tree, bin, left, open, todo, victim, root>>

(* Mutant: do not notice that the directory is gone when the VM starts. *)
BootUnchecked(p) ==
  /\ pc[p] = "resolved"
  /\ root' = [root EXCEPT ![p] = link[Dir(p)]]
  /\ Goto(p, "booted")
  /\ UNCHANGED <<link, tree, bin, left, open, todo, victim>>

Boot(p) ==
  /\ pc[p] = "resolved"
  /\ root' = [root EXCEPT ![p] = link[Dir(p)]]
  /\ Goto(p, IF link[Dir(p)] # None THEN "booted" ELSE "failed")
  /\ UNCHANGED <<link, tree, bin, left, open, todo, victim>>

Leave(p) ==
  /\ bin' = [bin EXCEPT ![p] = None]
  /\ left' = [left EXCEPT ![p] = {}]
  /\ open' = [open EXCEPT ![p] = None]
  /\ todo' = [todo EXCEPT ![p] = {}]
  /\ victim' = [victim EXCEPT ![p] = None]
  /\ root' = [root EXCEPT ![p] = None]
  /\ Goto(p, "idle")
  /\ UNCHANGED <<link, tree>>

Exit(p) ==
  /\ pc[p] \in {"booted", "failed"}
  /\ Leave(p)

(* The process is killed, or the user interrupts it: nothing it has left on
   disk is cleaned up. *)
Crash(p) ==
  /\ "crash" \in Faults
  /\ pc[p] \notin {"idle", "booted", "failed"}
  /\ Leave(p)

(* The cache lies in the user's data directory: between builds the user may
   delete part of an installed tree. *)
Damage(v) ==
  /\ \A p \in Pid : pc[p] = "idle"
  /\ link[Final(v)] # None
  /\ \E x \in Damageable :
       /\ \E e \in tree[link[Final(v)]] : e[1] = x
       /\ tree' = [tree EXCEPT ![link[Final(v)]] = {e \in @ : e[1] # x}]
  /\ UNCHANGED <<link, pc, bin, left, open, todo, victim, root>>

-----------------------------------------------------------------------------
Quiet ==
  /\ pc = [p \in Pid |-> "idle"]
  /\ bin = [p \in Pid |-> None]
  /\ left = [p \in Pid |-> {}]
  /\ open = [p \in Pid |-> None]
  /\ todo = [p \in Pid |-> {}]
  /\ victim = [p \in Pid |-> None]
  /\ root = [p \in Pid |-> None]

(* Nothing has been unpacked on this host yet. *)
Init ==
  /\ Quiet
  /\ link = [n \in Name |-> None]
  /\ tree = [i \in Inode |-> {}]

InstallStep(p) ==
  \/ Install(p) \/ Hit(p) \/ Recheck(p) \/ Rehit(p) \/ Exists(p)
  \/ Rename(p) \/ RenameFault(p)

StageStep(p) ==
  \/ StageBegin(p) \/ CreateStaging(p) \/ UnpackPart(p) \/ UnpackEnd(p)
  \/ WriteMarker(p) \/ StageFault(p)

SweepStep(p) == SweepBegin(p) \/ SweepFault(p) \/ SweepNext(p) \/ SweepEnd(p)

RemoveStep(p) == RmOpen(p) \/ RmEntry(p) \/ RmDir(p) \/ RmFault(p)

UseStep(p) == SelectVm(p) \/ BuildCheck(p) \/ Boot(p)

Step(p) ==
  InstallStep(p) \/ StageStep(p) \/ SweepStep(p) \/ RemoveStep(p) \/ UseStep(p)

Next ==
  \/ \E p \in Pid, b \in Binary : Start(p, b)
  \/ \E p \in Pid : Step(p) \/ Exit(p) \/ Crash(p)
  \/ \E v \in Version : Damage(v)

Spec == Init /\ [][Next]_vars

(* Builds that do not race for the first installation: one starts while others
   are in install only when its tree is installed already.  VMs may run. *)
Orderly ==
  \A p \in Pid :
    pc[p] = "idle" /\ pc'[p] = "install" =>
      \/ \A q \in Pid : pc[q] \in {"idle", "booted", "failed"}
      \/ Entries(Final(bin'[p][1])) = Whole(bin'[p])

OrderlySpec == Init /\ [][Next /\ Orderly]_vars

(* A build that has started is never suspended for ever. *)
FairSpec == Spec /\ \A p \in Pid : WF_vars(Step(p))
-----------------------------------------------------------------------------
(***************************************************************************)
(* Properties                                                              *)
(***************************************************************************)

(* Every variable has its type, and a build holds a directory open for its
   VM exactly while that VM runs (Boot in krun.rs enter_vm). *)
TypeOK ==
  /\ link \in [Name -> Inode \cup {None}]
  /\ tree \in [Inode -> SUBSET (Part \X Key)]
  /\ pc \in [Pid -> Label]
  /\ bin \in [Pid -> Binary \cup {None}]
  /\ left \in [Pid -> SUBSET Archive]
  /\ open \in [Pid -> Inode \cup {None}]
  /\ todo \in [Pid -> SUBSET Name]
  /\ victim \in [Pid -> Name \cup {None}]
  /\ root \in [Pid -> Inode \cup {None}]
  /\ \A p \in Pid : (root[p] # None) <=> (pc[p] = "booted")

Staged == {"recheck", "rehit", "exists", "rm_dir", "rename"}

(* From the marker to the rename in install, the staging directory of a build
   holds the complete tree of its own archive and nothing else, whatever other
   builds, failed calls, crashes and reused pids have done before and do
   meanwhile: the marker "can only describe a complete extraction". *)
StagedTreeIsWhole ==
  \A p \in Pid : pc[p] \in Staged => Entries(StagingDir(p)) = Whole(bin[p])

(* No directory of the cache, installed or staging, ever mixes the files of
   two archives, even of two archives of one version, or holds one of another
   version (stage removes what an earlier process of the same pid left). *)
NeverMixed ==
  \A n \in Name : \A e, f \in Entries(n) : e[2] = f[2] /\ e[2][1] = n[1]

(* A build that has staged something gets out of install. *)
LeavesInstall(p) ==
  /\ pc[p] \notin {"install", "hit", "returned", "selected", "resolved", "failed"}
  /\ pc'[p] \in {"returned", "failed"}

(* Every way out of install, with a directory or an error, leaves no staging
   directory of the build behind, whatever others do and however it failed;
   only a removal that itself fails can. *)
InstallCleansUp ==
  [][\A p \in Pid : LeavesInstall(p) =>
       link'[StagingDir(p)] = None \/ (pc[p] \in {"cleanup", "drop"} /\ RmFault(p))]_vars

(* When builds of one version race and nothing fails, a build is still lost
   (rename finds the directory taken, remove_dir_all finds it gone), but never
   all of them, and what they leave installed is one whole tree, also when
   builds of another version have come and swept in between. *)
RaceHasAWinner ==
  (\A p, q \in Pid : pc[p] \in {"booted", "failed"} /\ Dir(p) = Dir(q)) =>
    \E p \in Pid : /\ pc[p] = "booted"
                   /\ \E k \in Key : Entries(Dir(p)) = Whole(k)

(* After builds of several versions have all ended, the cache holds at most
   one installed tree: the sweep of the last one to be installed has removed
   the others, in whatever order the builds interleaved. *)
OneVersionInstalled ==
  (\A p \in Pid : pc[p] \in {"idle", "booted", "failed"}) =>
    Cardinality({v \in Version : link[Final(v)] # None}) <= 1

(* A VM only ever starts from the complete tree of its own binary's archive:
   what the marker and check_rootfs let through is what was unpacked. *)
BootsOnlyWholeTrees ==
  [][\A p \in Pid : pc[p] # "booted" /\ pc'[p] = "booted"
                     => tree[root'[p]] = Whole(bin[p])]_vars

(* Nothing is deleted from the directory that a running VM has as its root:
   install keeps a tree another build may have booted from. *)
LiveVmKeepsItsTree ==
  [][\A p \in Pid : pc[p] = "booted" /\ pc'[p] = "booted"
                     => tree[root[p]] \subseteq tree'[root[p]]]_vars

(* What can go wrong with a running VM is bounded: only a build of the same
   version that replaces its tree, or one of another version that sweeps it,
   ever deletes from it; no clean-up of a staging directory and no sweep by a
   build of its own version does. *)
OnlyReplacedOrSwept ==
  [][\A p \in Pid :
       /\ pc[p] = "booted" /\ pc'[p] = "booted"
       /\ ~(tree[root[p]] \subseteq tree'[root[p]])
       => \E q \in Pid :
            RmEntry(q) /\ pc[q] = IF bin[q][1] = bin[p][1] THEN "rm_dir" ELSE "rm_old"]_vars

(* Every build that enters install gets out of it, with a VM or an error. *)
InstallTerminates ==
  \A p \in Pid : pc[p] = "install" ~> pc[p] \in {"booted", "failed"}

(* How far a build is.  It only ever goes on, but for the loop of the sweep. *)
Place ==
  [install |-> 1, hit |-> 2, stage |-> 3, rm_stage |-> 4, mkdir |-> 5, unpack |-> 6, mark |-> 7,
   recheck |-> 8, rehit |-> 9, exists |-> 10, rm_dir |-> 11, rename |-> 12, sweep |-> 13,
   sweeping |-> 14, rm_old |-> 14, drop |-> 15, cleanup |-> 16, returned |-> 17, selected |-> 18,
   resolved |-> 19, booted |-> 20, failed |-> 20]

Shrinks(s, t) == t \subseteq s /\ t # s

Nearer(p) ==
  \/ Place[pc'[p]] > Place[pc[p]]
  \/ /\ Place[pc'[p]] = Place[pc[p]]
     /\ Shrinks(todo[p], todo'[p])
  \/ todo'[p] = todo[p] /\ pc[p] = "rm_old" /\ pc'[p] = "sweeping"
  \/ /\ todo'[p] = todo[p] /\ pc'[p] = pc[p]
     /\ \/ Shrinks(left[p], left'[p])
        \/ open[p] = None /\ open'[p] # None
        \/ open[p] # None /\ open'[p] = open[p] /\ Shrinks(tree[open[p]], tree'[open[p]])

NotThrownBack(p) ==
  /\ pc'[p] = pc[p] /\ todo'[p] = todo[p] /\ left'[p] = left[p] /\ open'[p] = open[p]
  /\ open[p] # None => tree'[open[p]] \subseteq tree[open[p]]

(* Every step of a build brings it nearer to the end of install, and nobody
   else throws it back: none of the loops of unpack, remove_dir_all and
   sweep_old_versions goes on for ever because another build fills what it is
   emptying. *)
InstallMakesProgress ==
  [][\A p \in Pid : pc[p] \notin {"idle", "booted", "failed"} =>
       IF Step(p) THEN Nearer(p) ELSE NotThrownBack(p) \/ Crash(p)]_vars

(* Seen through the installed paths the cache is a RootfsStore: a tree
   appears whole and only where there was none, and is never added to. *)
Store == INSTANCE RootfsStore WITH slot <- [v \in Version |-> Entries(Final(v))]

CacheImplementsStore == Store!Spec
=============================================================================
