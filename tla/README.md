# A TLA+ model of openshell-build-image

`openshell-build-image` builds an OpenShell sandbox image from a project image.
It writes a Containerfile and builds it either with a container CLI (podman,
docker) or, with `--runtime vm`, with buildah inside a libkrun microVM whose
root filesystem is embedded in the binary and unpacked on first use.

This directory models the parts of it that keep state, run concurrently or can
stop half way; TLC checks them on small instances and TLAPS proves the central
results for every size. Paths below are relative to the repository (`src/` in
PROJECT.json). `PROJECT.json` maps every definition to the lines it stands for.

## 1. Inventory

| Component | State | Operations | Module |
|---|---|---|---|
| Embedded rootfs cache, `src/vm_rootfs.rs` | directories `<version>` and `.staging-<version>-<pid>` in the user's data directory, each tree with a marker | `ensure_extracted`, `install`, `stage`, `sweep_old_versions` | `RootfsCache`, `RootfsStore` |
| libkrun runner, `crates/vm-image-builder/src/krun.rs` | the forked child, the caller's threads and locks | `run`, `wait_for`, `enter_vm`, `check_single_threaded` | `KrunRunner`, `VmRunner` |
| VM build library, `crates/vm-image-builder/src/lib.rs` | the Containerfile in the context | `build`, `write_containerfile`, `check_rootfs`, the output directory, the `VmRunner` trait | `VmBuild`, `VmRunner`, `RootfsCache` |
| Guest script, `vm-image/vm-build` | the guest's mounts, the rootfs all guests share, the tarball | its commands, in order | `VmBuild` |
| Nameservers, `crates/vm-image-builder/src/dns.rs` | the list under construction | `vm_nameservers`, `default_nameservers`, `host_nameservers`, `sanitize`, `is_reachable_from_vm` | `Nameservers` |
| Command line, `src/main.rs` | temporary context directory, exit code | `main`, `check_vm_flags`, `select_runtime`, `select_vm`, `vm_config`, `run` | `Cli` |
| Container backend, `crates/container-image-builder` | temporary Containerfile | `build` | `Cli` |
| Containerfile generation, `src/containerfile.rs` | none | `parse_image_reference`, `generate` | `Cli` |
| Build script, `build.rs` | two files in `OUT_DIR` | `main`, `compress`, `verify_frame`, `write_placeholders` | `EmbedRootfs` |
| Rootfs image, `make-rootfs.sh` | the tarball it packs, the resolv.conf it ships | a linear recipe for podman and tar | `EmbedRootfs`, `Nameservers` (these two effects) |
| End-to-end driver, `tests/e2e/mod.rs` | a process group, deadlines | `command_output`, `stop`, `group_gone`, `Drop` | `ProcessGroup` |
| Add-on scripts, CI | none of the program's own | calls of external tools | not modelled |

How they interact. `build.rs` puts a compressed rootfs and its digest into the
binary at build time; the digest is half of the key under which the cache keeps
the tree. `main` checks the flags, resolves the nameservers, calls
`ensure_extracted`, checks the rootfs, and calls `run`, which makes the build
context and calls a backend. The VM backend writes its Containerfile to the
context, forks, and the child becomes the VM; the guest mounts context, output
directory and the unpacked rootfs from the host. Separate invocations share
three things with no lock between them: the cache of unpacked trees, the
directory that is the root of every guest, and, when their tags lead to one
name, the output path. The end-to-end tests run the program as a command in a
process group of its own.

What is hard:

* several builds in the cache at once, of one binary, of two rebuilds of one
  version, or of two versions, each checking and then acting;
* `remove_dir_all`, which takes long and works through an open handle while
  names change;
* a build killed at any point, whose half-done work a later build meets, perhaps
  under the same pid;
* a VM that goes on running from a directory another build decides to remove;
* fork in a program that may have threads, and an exit code that carries two
  meanings;
* a rootfs that guests share although each believes it is its own;
* a build script that writes two files which must agree, is run again only for
  what it asked cargo to watch, and may be killed between the two;
* commands whose descendants outlive them, ignore signals, and leave behind a
  group id that somebody else may get.

What makes each part correct: an installed tree is complete and of one archive;
what runs from it is not disturbed; nothing is left behind; builds end. The
forked child inherits no lock and its end is reported truly. A guest writes only
to its own mounts, and success means a complete tarball. The guest can resolve
names. Nothing expensive is done for a build that is already refused, the
Containerfile has the instructions that were meant, and exit code zero means that
something was built. The embedded archive decodes, has its own digest and is the one that
was asked for. A test command that has ended has left no process behind.

`PROJECT.json` lists 30 hazards at the lines where they bite, with the
properties that watch them.

## 2. The modules

### RootfsStore and RootfsCache

`RootfsStore` is what a user of the cache may rely on: for each version a slot
that is empty or holds entries; a whole tree is published into an empty slot,
and entries may be lost, but nothing is ever added to a tree that is there.

`RootfsCache` is `vm_rootfs.rs` step by step, one action per file-system call.
`link` maps the paths to inodes and `tree` an inode to its entries, so that a
rename, a removal under way and a directory held open by a VM are three
different things. A tree is abstracted to the three parts that the code tells
apart: the vm-build helper (all that `check_rootfs` looks at), the marker, and
everything else; each entry carries the key (version, digest) it came from.

| Code | Actions |
|---|---|
| `install`: empty archive, `marker_matches`, `check_rootfs` | `Install`, `Hit` |
| `stage`: remove leftovers, mkdir, unpack, marker | `StageBegin`, `CreateStaging`, `UnpackPart`, `UnpackEnd`, `WriteMarker`, `StageFault` |
| `install`: second check, drop own copy | `Recheck`, `Rehit`, removal at `drop` |
| `install`: remove the stale tree, rename | `Exists`, removal at `rm_dir`, `Rename`, `RenameFault` |
| `sweep_old_versions` | `SweepBegin`, `SweepNext`, `SweepEnd`, `SweepFault`, removal at `rm_old` |
| `std::fs::remove_dir_all` (external) | `RmOpen`, `RmEntry`, `RmDir`, `RmFault` |
| `select_vm`, `build`, `enter_vm` | `SelectVm`, `BuildCheck`, `Boot` |
| end of a process, kill, a user editing the cache | `Exit`, `Crash`, `Damage` |

Two modelling decisions about external code: `remove_dir_all` opens the
directory, deletes through the handle in any order, and then removes by name,
failing when the name is missing at the start or holds a non-empty directory at
the end; `rename` replaces a missing or empty directory and fails on a non-empty
one.

### VmRunner

The contract of the `VmRunner` trait ("runs `build` to completion"), between the
library and whoever runs its VMs: a call is refused before there is a VM, or its
one VM runs, ends, and is answered for with the way it ended or with an I/O error;
nothing runs on once an answer was given, and only a caller that is killed
abandons its call. `KrunRunner` implements it for one call, `VmBuild` for one call
per build. The two modules look at the runner at different grains (threads, locks
and exit codes there; contexts, guests and tarballs here), and the common contract
is what makes the one's assumptions about the runner the other's guarantees.

### KrunRunner

`run` in one thread, the program's other threads taking and releasing one lock
that stands for the C library's, `fork` copying that lock, the child that needs
it, and `wait_for` turning the child's status into a result. A new thread can
appear only while another one exists: the calling thread is inside `run`.

### VmBuild

Any number of builds, each with its host process and its guest (`vm-build`,
command by command under `set -e`). A host process is the command line (`run` in
`main.rs`, with a temporary context, then `build`) or another program that uses
the library with a context of its own, which may hold a Containerfile, or a
symbolic link of that name, already. `build` has one action per step and every
kind of error it can return there. `mounts` says which directories of a guest
are its own; whatever is written to one that is not mounted lands on the shared
rootfs (`litter`, `shared`). Output paths may be shared: a tarball records whose
bytes it has and whether it is whole. The temporary context is removed when `run`
returns, as far as the removal succeeds: its errors are ignored. Killing a host
process either takes the forked VM along (a signal to the group) or not.

### Nameservers

Addresses are real octets and segments, so the prefix tests of
`is_reachable_from_vm` are evaluated as arithmetic; a line of text is the
address parsed from it, or none. `sanitize` is a loop, one action per line, and
is compared with a definition that says which addresses should be chosen. The
list is followed into the guest's resolv.conf.

### Cli

One invocation, as the order of its checks and effects, over many command lines
and every kind of host. Tags, image references, paths and the Containerfile are
sequences of symbols; a symbol stands for a character where the code looks at
characters (`vm_output_path`, `parse_image_reference`, `std::path`) and for a
word where it does not. The cache and the VM are one call each. A backend that
fails may have left an image or a tarball: a container CLI that is killed after its
commit has no exit code, and a guest can fail to clean up after `tar`.

### EmbedRootfs

`build.rs` under cargo. Files are abstracted to what the script and its users
can tell apart: plain or in a zstd frame, of which tree, the whole of it or a
part, frame intact or not. `Pack` puts any file at any path at any time (that is
`make-rootfs.sh` writing its tarball in place, an interrupted copy, `zstd`, or
`rm`). `Cargo` (external) runs the script when its last run did not succeed or
something it asked to be watched has changed since that run began. The two
writes to `OUT_DIR` are separate actions that may fail or be cut short.

### ProcessGroup

`command_output` of the test driver: wait for the leader, stop the group, read
the output, and stop the group once more in `Drop`. Descendants come and go on
their own. The group is there as long as the leader is not reaped, which keeps a
leader that has ended but was not waited for in it, or a descendant lives; after
that `Others` may get its id. `window` is the SIGTERM and
then the SIGKILL window of `stop`, and a deadline is an action that may happen
at any time, once an attempt to signal was answered.

## 3. Runs

Runs that pass (all explored exhaustively):

| Run | Shows |
|---|---|
| `cache_concurrent` | two builds of two rebuilds of one version, every failure, crashes, reused pids: `TypeOK`, `StagedTreeIsWhole`, `NeverMixed`, every way out of `install` removes its staging directory unless that removal fails or the build is killed (`InstallCleansUp`), and the cache implements `RootfsStore` |
| `cache_versions` | two builds of one or of two versions, no failing call, over a cold cache or a tree whose helper is deleted: every build gets out of `install` (`InstallTerminates`), of builds that race for one version some may lose with an error but never all (`RaceHasAWinner`), and at most one tree is left when all have ended (`OneVersionInstalled`); each step of a build brings it nearer to the end and no other build throws it back (`InstallMakesProgress`); a running VM loses entries only to a build of its version that replaces the tree or to the sweep of another version (`OnlyReplacedOrSwept`) |
| `cache_orderly` | three builds that do not race for the first installation (`OrderlySpec`: a build starts when no other is in `install`, or over an installed tree), every failure and crash: a VM never starts from an incomplete tree (`BootsOnlyWholeTrees`) and no running VM is disturbed (`LiveVmKeepsItsTree`) |
| `krun` | no inherited lock, a true report, `run` returns, and it implements `VmRunner` (`RunImplementsRunner`), so that no VM is left behind |
| `vm_build` | a build of the command line and one of a library user on one rootfs, with own or shared output paths, failures and kills: a context and its Containerfile live as long as the VM, also when the host process fails or is killed (`ContextOutlivesVm`), a bad rootfs leaves the caller's context as it was (`BadRootfsLeavesContext`), an error that refuses a build means that no VM ran (`RefusedMeansNoVm`), success means a whole tarball of one's own (`OkMeansWholeTarball`), guests keep out of each other's resolvers and off the shared rootfs, every build ends, and each is a `VmRunner` call (`BuildImplementsRunner`) |
| `dns` | about 35000 combinations of inputs: without `--vm-dns` the guest gets the right addresses in the right order (`HostServersAreUsed`), and it always has one and never a loopback or scoped one (`GuestCanResolve`) |
| `cli` | nothing is unpacked or staged for a build that the checks ahead of `run` refuse, and of the command line only a `--vm-output` without a file name is refused later, with no VM started (`OnlyTheOutputNameIsLate`); an accepted image reference cannot add instructions or words to the Containerfile (`FromIsOneInstruction`); `COPY` finds its file; exit code 0 means that something was built (`ExitZeroMeansBuilt`); the default tarball is in the current directory whatever the tag |
| `embed` | what a binary includes decodes, carries the digest of that very archive, and is the archive the variable names now, whatever failed or was killed before |
| `e2e_stop` | the driver gets free of every command (`CommandEnds`), output is used only when no process is left (`SuccessLeavesNothing`), and a group that ignores SIGTERM ends unless a call failed (`CommandIsStopped`) |

Runs that are expected to be violated, each a disagreement between the code and
what its comments say of it ("findings" in `PROJECT.json` quotes both):

| Run | What happens |
|---|---|
| `cache_live_vm` | two first builds of one binary: both miss the tree at the second check, one installs and boots, the other then sees that the directory exists and removes it under the running VM |
| `cache_interrupted_removal` | killed while removing a stale tree, with marker and helper still there: the binary that tree belongs to boots from the rest |
| `e2e_reuse` | the command ends and the `try_wait` of `command_output` reaps it; its id is free, another process group gets it, and the `stop` that follows finds the group there and sends it SIGTERM. The `stop` of `Drop` is exposed in the same way |

Limits of the code that the modelling brought out and that no run is spent on:

* The staging directory of a build killed while it unpacks is removed only by a
  later process of the same version and pid, since the sweep skips all of them.
* With `Damageable = {"rest"}` in `cache_orderly`, `BootsOnlyWholeTrees` fails: a
  tree that misses anything but the helper or the marker is used as it is, while
  `.agents/skills/vm-runtime/SKILL.md` says a damaged tree is unpacked again.
* Builds of two versions can sweep each other's trees before they boot, and then
  both fail; `RaceHasAWinner` is about builds of one version for that reason.
* A workload that ends with 118 or 119 is reported as a libkrun failure, since
  the two sentinel codes share the exit status (`krun.rs` `wait_for`).
* `--vm-dns` takes any number of addresses and passes all of them on; the guest's
  resolver reads three, duplicates included. A fourth is silently unused, while the
  help calls the option "Nameserver the build VM resolves through" and
  "Repeatable", and the comment on `vm_nameservers` has a useless address rejected
  because "saying nothing would look like it had been honoured" (`src/main.rs`).
* A `--vm-output` without a file name (`/`, `..`) is refused by `build` only, after
  the context was staged and, without `--vm-rootfs`, the embedded rootfs unpacked.
  The comment on `select_runtime` says that "each backend validates what it needs
  here, before any staging work happens"; `OnlyTheOutputNameIsLate` names the
  exception.
* A build that fails may have left its product: `buildah umount` or `rm` failing
  after `tar`, an error of `waitpid`, a container CLI killed after its commit. So a
  non-zero exit code does not mean that nothing was built.
* A temporary context stays behind, in part or whole, when its removal fails or the
  program is killed.
* `make-rootfs.sh` ships a resolv.conf with `options use-vc` (DNS over TCP). By
  default `vm-build` mounts one of `nameserver` lines only over it, so the option
  is in effect only when the host passes no nameservers.
* `::ffff:127.0.0.1` passes `is_reachable_from_vm`: `is_loopback` of the standard
  library does not see through IPv4-mapped addresses. `GuestCanResolve` says so
  and leaves it out.
* A truncated tarball that is not compressed passes `build.rs`, which checks
  frames only; `EmbeddedArchiveDecodes` promises that the frame decodes, not that
  the tree in it is whole. Whether a file has changed is cargo's judgement, by
  modification time.
* The README says that `:` and `/` of the tag become `-`; so does every other
  character outside letters, digits, `.`, `_` and `-`. Tags that lead to one name
  overwrite or, at the same time, mix their tarballs, and both builds succeed:
  `OkMeansWholeTarball` excludes builds of one output path.
* A descendant that leaves the group (`setsid`) is out of reach of `stop`.

### Bounds

* Builds: two processes already show every pairwise interleaving of check and
  act; `cache_orderly` has three, for a build between two others. A pid becomes
  free when its process ends and is used again, so two pids give arbitrarily
  many builds.
* Versions and digests: two binaries that differ in the digest only (a
  rebuild), or in the version only (an upgrade).
* Inodes: one for each path, and one for each process for a directory that has
  lost its name but is still open. A cfg has enough that no step waits for a
  free inode: the paths of one version and two pids are three, and one more is
  held at a time. In `cache_orderly` a fifth inode leaves the number of states as
  it is.
* An archive has two parts, which is the least that tells a partial tree with
  the helper from one without; the marker is the third.
* `krun`: four other threads, so that a count can be off by one and still
  forked through. Exit codes are one of each class.
* `dns`: lists of up to four lines, one more than `MAX_NAMESERVERS`, with one
  address of every class the predicate distinguishes, at the edges of fe80::/10
  and 224/4.
* `vm_build`: one build of each kind of caller, since what they share is pairwise:
  the rootfs and perhaps the output path. Both have nameservers of their own.
* `cli`: every set of flags, with zero and non-zero numbers, on every host; every
  tag of up to three and path of up to four of the symbols `a . / :`, which
  covers `..`, a leading and a trailing separator; every image reference of up to
  three symbols with blanks, line breaks and control characters.
* `embed`: two paths, so that the variable can change to another file, one tree,
  whole or cut, in every form; any number of calls of cargo.
* `e2e_stop`: a leader and two descendants, so that one can be forked by another
  after the leader has ended and while the group is signalled.
* Symmetry over pids and inodes is used where no liveness is checked; no definition
  orders them.

`CHECK_DEADLOCK` is on everywhere; where the system ends, an explicit
stuttering action says so (`Idle`, `Ended`, `Done`).

### Fairness

* `RootfsCache`: weak fairness of each process's own steps, that is, the
  operating system schedules a started build. Nothing is assumed of failures,
  crashes, exits or the user.
* `KrunRunner`: weak fairness of `run`, of the child and of a thread's release
  of a lock, and strong fairness of the caller's allocation, which queues for a
  lock that others keep taking. The workload is assumed to end: `wait_for` has
  no deadline, so nothing can be said otherwise.
* `VmBuild`: host processes are scheduled and guests end, for the same reason.
* `ProcessGroup`: the driver is scheduled, time passes (a window ends), `kill` is
  not interrupted for ever, and a process that was sent SIGKILL ends. A window
  (15 s and 5 s, with an attempt every 100 ms) is long enough that `kill` is
  answered once in it. Nothing is assumed of how a process takes SIGTERM.

## 4. Proofs

Each component's proofs are in a module of their own (`...Proofs`), laid out the
same way: the inductive invariant in named parts, one lemma per action or group of
actions that preserves it, the invariant for the specification, and the theorems.
Every invariant below was checked by TLC on a small instance before it was proved.
A theorem holds for every value of the constants that satisfies the named
assumptions of its module; the assumptions that are stronger than typing are the
hypotheses of the race theorems below.

### RootfsCacheProofs

For any sets of processes, versions, archives and inodes, any set of failures and
any damage by the user:

* `TypeCorrect`: `Spec => []TypeOK`;
* `StagedTreesAreWhole`: from the marker to the rename a staging directory holds
  the complete tree of its own archive and nothing else;
* `TreesAreNeverMixed`: no directory of the cache mixes two archives;
* `Refinement`: `Spec => CacheImplementsStore`.

The assumptions are `NoneIsNoValue` (the "no value" is none of the pids, inodes
and digests), `BinariesAreBuilt` (a binary is a version with a digest, or with
none) and `FaultsAreKnown`.

None of the properties is inductive. `StagedTreeIsWhole` needs to know that
nobody else removes from or writes to the staging directory, so `Inv` adds:

* `Types` and `RunsABinary`: paths are paths of the cache once a process is past
  the empty-archive test;
* `OneName`: an inode has at most one name, and one with none is empty (so that
  a fresh inode is empty, and two paths never share a tree);
* `RemovesItsOwn`: a removal of a staging directory holds the owner's own one
  open, and a removal of an installed tree holds open an inode that no staging
  path names. This is the heart of the argument: it is preserved by a rename
  because the tree that moves loses its staging name, and by a mkdir because an
  open inode is never handed out again;
* `Staging`: what the staging directory holds at each point of `stage`;
* `HoldsRoot`: a VM's directory is held exactly while it runs.

The lemma of each action proves `Inv'`; `MoveInv` does so once for the twelve
actions that change no directory and only decide where a build goes on; `StagingIsPrivate` and
`RemovalKeepsStaged` state once that no other process has its hands on a staging
directory. The refinement maps slot `v` to the entries behind the installed path
of `v`: `Rename` publishes (the target is empty and the staged tree is whole),
`RmEntry` and `Damage` lose, every other step stutters.

### RootfsRaceProofs

What races between builds can and cannot do, on top of the invariant above.

* `InstallsCleanUp`, without further hypotheses: every way out of `install` leaves
  no staging directory unless its removal fails. `Swept` adds that a build that
  sweeps has none any more.
* `SweepsLeaveOneVersion`, when no removal, listing or process fails
  (`SweepsAreReliable`): when all builds have ended, at most one version is
  installed, for any number of builds and versions. `Covered` is the reason: two
  versions are installed at once only while a build of one of them still has the
  other ahead of its sweep. The hypothesis is needed, since `install` ignores
  every failure of a sweep and leaves the old version in place.
* `RacesHaveWinners`, when every binary has an archive, no call fails but the
  listing of a sweep, and what the user may delete is the helper or the marker
  (`OnlyRaces`): builds that race for one version never all lose, and the tree
  they leave is whole. `Effects` lists everything a step can do to an installed
  tree; `Errands` says what each removal is after; `Intact` that a tree nobody
  removes is whole or visibly not; `Hopeful` that while all builds are of one
  version, one of them has yet to look, is removing what is there, will succeed
  with its rename, or goes on with a whole tree. A failing call may make any build fail, and a missing file that
  the checks do not look at is never noticed, hence the hypotheses.
* `OrderlyBootsAreWhole` and `OrderlyVmsKeepTheirTrees`, for `OrderlySpec`, one
  archive on the host (`OneArchive`), damage to the helper or the marker, and any
  failures and crashes: VMs boot whole trees only, and keep them. `InOrder` says
  that a build between the marker it did not find and its rename is the only one
  under way, that no VM runs then, and that a tree that checks out is whole. Runs
  `cache_live_vm` and `cache_interrupted_removal` show what happens otherwise: the
  first when builds race, the second when there are two archives of the version.
  With several versions the sweep itself deletes the tree under a running VM of an
  older one, and an interrupted sweep can leave a rest that a later build boots from,
  so `OneArchive` cannot simply be dropped.
* `VmsAreOnlyReplacedOrSwept`, for `Spec` without hypotheses: the bound on what can
  happen to a VM when builds do race. Only a build of its own version on its way to
  a rename, or a sweep for another version, deletes from the tree of a running VM;
  clean-ups of staging directories, the user's edits between builds, and sweeps for
  its own version never do. `Rooted` is the invariant (the directory of a running
  VM keeps the one name it was opened by, or loses it), and `Errands` tells from the
  name who is removing it.
* `InstallsMakeProgress`, for `Spec` without hypotheses: the safety half of
  `InstallTerminates`. A build is measured by its place in `install`, the entries its
  sweep still has to look at, the parts it has to unpack, and the entries of the
  directory it is emptying; each of its own steps lessens the measure, and no step of
  another build adds to it (`OthersDoNotFill`: nobody writes to a directory that is
  being removed). What is left to termination is that no build is stuck and that it
  is scheduled, which TLC checks.

`cache_versions` satisfies `SweepsAreReliable` and `OnlyRaces`, and `cache_orderly`
satisfies `OneArchive`, so the hypotheses are not void.

### KrunRunnerProofs

For any number of threads, which start, end and allocate as they like
(assumptions: exit codes are bytes, the caller is none of the other threads, the
"no value" is no result):

* `ForkInheritsNoLock`: `HolderIsAlive` (no thread ends with the lock) and
  `AloneAtFork` (after a count of one the caller stays alone, since only another
  thread could start one) leave nobody to hold the lock at the fork;
* `RunLeavesNoVm` and `RunReportsTheWorkload`: `ChildOfRun` says where the child
  is at each point of `run`, `StatusOfChild` what it can have left, `ResultOfRun`
  that `run` refuses or reports what `wait_for` makes of that status;
* `RunKeepsItsPromise`: `Spec => RunImplementsRunner`. The fork begins the VM of the
  contract, the end of the child ends it, and `VerdictFits` shows that what `wait_for`
  answers is the answer the exit status calls for; the other steps stutter.

### VmBuildProofs

For any number of builds, any mix of callers and any output paths (assumptions:
`DnsIsOfBuilds`, `LibraryIsOfBuilds`, `NoneIsNoResult`), all six invariants of
the run and its refinement: `ContextsOutliveVms`, `BadRootfsIsHarmless`, `RefusedBuildsRunNothing`,
`SuccessIsAWholeTarball`, `GuestsResolveApart`,
`SharedRootfsStaysClean`. `HostAndGuest` ties the guest's script to its host
process, `Contexts` says when the Containerfile is there, `Mounted` which mounts a
guest has made by now, `Resolving` that a bound resolv.conf is its own, and
`Packing` that a guest that has packed, and whose path no other one packed to, has
its own whole tarball there. A killed host leaves its guest running, which is why
these parts speak of the guest's step and not of the host's.

`BuildsKeepThePromise`: `Spec => BuildImplementsRunner`. Every error ahead of the
runner is a refusal of the contract (`PrepareRefuses`), the guest's code is the end
of its VM, and a kill abandons the call, after which the guest's steps stutter.

### NameserversProofs

For every address and for sources and `--vm-dns` lists of every length
(assumptions: a line that is no address is none, inputs are lists or unreadable):
`HostServersWin`, `GuestsCanResolve`. `sanitize` is a loop of
actions, so what it computes is an invariant and needs no induction over the list:
after `k` lines (`HasRead`) the result has, at the rank of each first occurrence of
a usable address among those lines, that address. `OneTurn` is one turn of the
loop, `WhenRead` the end of it, also when the limit of three cut it short.
`Asked` and `Chosen` carry the choice of source through to the guest.
`ReachableIsUsable` and `FallbackIsUsable` are the facts about addresses.

### CliProofs

For every command line and host (assumptions: `CommandLinesAreTyped`,
`NoneIsNoValue`):

* `ChecksComeFirst` (`OnlyTheOutputNameIsLate`) and `SuccessIsTrue`
  (`ExitZeroMeansBuilt`), from `Checked` (which checks have been passed at each
  point), `Staged` (the context exists during `run` only and agrees with the
  Containerfile) and `Told` (what a success, and a refusal of the path, go with);
* `ReferencesAddNothing` and `CopyHasItsFile`, for image references of every
  length: the lemmas from `Concatenation` to `FirstLine` count the line breaks and
  locate the words of a text with an accepted reference in its first line. An
  accepted reference has no blank or line break, so the text has the lines and
  words of the one made from the shortest reference (`ShortestReference`);
* `DefaultIsAFileHere`, for tags of every length: `DefaultIsAName` says that what
  `vm_output_path` makes of a tag has no separator and ends in `.tar`, `OneSpan` that
  such a path has one component, `NameInCurrentDirectory` that this is its file name
  and that its parent is empty; by `NameIsFine` such a build is never refused for
  its path. `Components` says where the components of a path lie instead of taking
  the path apart symbol by symbol, so no induction over the path is needed.

### EmbedRootfsProofs

For any paths, files and trees (assumption: `NoValueIsATree`): `BinaryHasItsDigest`,
`BinaryDecodes`, `BinaryIsUpToDate`. `Written` follows the two writes of the script.
`Consistent` is the point: a script killed between them leaves an archive with the
digest of another, and this is harmless because cargo forgets the last success
before it runs the script, so what it remembers stands behind both files.
`UpToDate` says the same of what the variable names.

### ProcessGroupProofs

For any number of descendants: `OkLeavesNothing` (output is read only after the
group was seen gone, and `GoneIsFinal`: a group that is gone stays gone).

### Only model-checked

Liveness: `InstallTerminates`, `RunReturns`, `BuildsEnd`, `CommandEnds`,
`CommandIsStopped`. Fairness is out of the prover's reach. Every other property of a
passing run is a theorem; those about races between builds have the hypotheses
above.

## 5. Not modelled

* Error messages, logging, comments and blank lines of the Containerfile:
  formatting.
* The size of the guest's tmpfs and the out-of-memory report of `vm-build`: the
  size is one reason why a command of the guest may fail, and the report only
  prints.
* The scenario of the end-to-end tests: a list of commands and expected outputs.
* The rest of `make-rootfs.sh`, the add-on scripts, CI: sequences of calls of
  external tools that keep no state of the program.

## 6. Plan

Done: the cache and its abstract specification, the runner, the VM build for both
kinds of callers, nameservers up to the guest, the command line with Containerfile
and paths, the build script, the test driver's process groups; and, for each of
them, every safety property of its runs as a theorem.

Worth doing next:

1. Weaker hypotheses for the race theorems: `RacesHaveWinners` with failing calls of
   builds that are not in the race, `OrderlyBootsAreWhole` with several versions on
   one host whose sweeps are not interrupted.
2. Of the builds that `VmsAreOnlyReplacedOrSwept` names, which checks they must have
   made, and when, to be where they are.
