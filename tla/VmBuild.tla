------------------------------ MODULE VmBuild ------------------------------
(***************************************************************************)
(* A VM build from the temporary build context to the tarball: run in      *)
(* src/main.rs, build in crates/vm-image-builder/src/lib.rs, and the       *)
(* vm-build script that runs in the guest.                                 *)
(*                                                                         *)
(* Several builds run at once.  Each has a host process and a guest of its *)
(* own, but all guests have one rootfs directory of the host as their      *)
(* root, so what a guest writes outside its own mounts is seen by all, and *)
(* stays there.                                                            *)
(***************************************************************************)
EXTENDS Naturals, Sequences

CONSTANTS
  Build,    \* the builds
  Library,  \* those that another program makes, with a context of its own
  Outs,     \* the output paths the builds may have
  WithDns,  \* the builds whose guest is given nameservers
  Faults,   \* "host": a call on the host fails; "guest": a command of vm-build
            \* fails; "kill": a host process is killed
  None

ASSUME DnsIsOfBuilds == WithDns \subseteq Build

ASSUME LibraryIsOfBuilds == Library \subseteq Build

(* VmBuildError, with success. *)
Result ==
  {"Ok", "Io", "Path", "Rootfs", "Unsupported", "MultiThreaded", "Krun", "Failed"}

ASSUME NoneIsNoResult == None \notin Result /\ None \notin {0, 1, 119}

(* What a directory may hold where the Containerfile is to be written. *)
CallersContext == {{"dir"}, {"dir", "Containerfile"}, {"dir", "link"}}

VARIABLES
  pc,       \* where the host process is
  given,    \* the context as it was when build was called
  out,      \* the output path of each build
  context,  \* the files of its build context
  result,   \* what build or run returns
  step,     \* the next command of its guest, 0 when no guest runs
  code,     \* the exit code of its guest
  mounts,   \* what its guest has mounted
  conf,     \* where its guest's /etc/resolv.conf is: "shipped", or "own" or
            \* "shared" for a /run/resolv.conf on its tmpfs or on the rootfs
  litter,   \* <<build, file>> written to the rootfs itself
  shared,   \* the build that last wrote the rootfs's own /run/resolv.conf
  resolver, \* whose nameservers its guest has built the image with
  tarball,  \* the file at an output path: whose bytes it has, and if all
  packed    \* the builds whose guest has begun to write its tarball

hostVars == <<pc, given, context, result, out>>
guestVars == <<step, code, mounts, conf, litter, shared, resolver, tarball, packed>>
vars == <<hostVars, guestVars>>

Init ==
  /\ pc = [b \in Build |-> IF b \in Library THEN "check_rootfs" ELSE "start"]
  /\ context \in [Build -> {{}} \cup CallersContext]
  /\ \A b \in Build : context[b] = {} <=> b \notin Library
  /\ given = context
  /\ out \in Outs
  /\ result = [b \in Build |-> None]
  /\ step = [b \in Build |-> 0]
  /\ code = [b \in Build |-> None]
  /\ mounts = [b \in Build |-> {}]
  /\ conf = [b \in Build |-> "shipped"]
  /\ litter = {}
  /\ shared = None
  /\ resolver = [b \in Build |-> None]
  /\ tarball = [f \in {out[b] : b \in Build} |-> None]
  /\ packed = {}

(***************************************************************************)
(* The host                                                                *)
(***************************************************************************)
To(b, l) == pc' = [pc EXCEPT ![b] = l] /\ UNCHANGED <<given, out>>

(* A result goes through run, which drops its context directory. *)
Returns(b, r) ==
  /\ To(b, "drop")
  /\ result' = [result EXCEPT ![b] = r]

(* A call fails with an error of one of these kinds. *)
Fails(b, kinds) ==
  /\ "host" \in Faults
  /\ \E k \in kinds : Returns(b, k)

TempDir(b) ==
  /\ pc[b] = "start"
  /\ \/ To(b, "generate") /\ context' = [context EXCEPT ![b] = {"dir"}] /\ UNCHANGED result
     \/ Fails(b, {"Io"}) /\ UNCHANGED context
  /\ UNCHANGED guestVars

(* generate, and --copy-containerfile when it is given. *)
Generate(b) ==
  /\ pc[b] = "generate"
  /\ \/ /\ To(b, "check_rootfs") /\ UNCHANGED result
        /\ \E copy \in {{}, {"build-containerfile"}} :
             context' = [context EXCEPT ![b] = @ \cup copy]
     \/ Fails(b, {"Io"}) /\ UNCHANGED context
  /\ UNCHANGED guestVars

(* Mutant: the Containerfile is written first. *)
CheckRootfsLast(b) ==
  /\ pc[b] = "check_rootfs"
  /\ context' = [context EXCEPT ![b] = @ \cup {"Containerfile"}]
  /\ \/ To(b, "write_containerfile") /\ UNCHANGED result
     \/ Fails(b, {"Rootfs", "Io"})
  /\ UNCHANGED guestVars

CheckRootfs(b) ==
  /\ pc[b] = "check_rootfs"
  /\ \/ To(b, "write_containerfile") /\ UNCHANGED result
     \/ Fails(b, {"Rootfs", "Io"})
  /\ UNCHANGED <<context, guestVars>>

(* Opened with O_NOFOLLOW, so that a symbolic link is an error; a file is
   written over, and stays when the write fails. *)
WriteContainerfile(b) ==
  /\ pc[b] = "write_containerfile"
  /\ \/ /\ "link" \notin context[b]
        /\ context' = [context EXCEPT ![b] = @ \cup {"Containerfile"}]
        /\ \/ To(b, "canonicalize") /\ UNCHANGED result
           \/ Fails(b, {"Io"})
     \/ "link" \in context[b] /\ Returns(b, "Path") /\ UNCHANGED context
     \/ Fails(b, {"Path"}) /\ UNCHANGED context
  /\ UNCHANGED guestVars

(* The rootfs and the context; another build may have removed the rootfs. *)
Canonicalize(b) ==
  /\ pc[b] = "canonicalize"
  /\ \/ To(b, "output_dir") /\ UNCHANGED result
     \/ Fails(b, {"Path"})
  /\ UNCHANGED <<context, guestVars>>

(* The name in the output path, and its directory, which is made. *)
OutputDir(b) ==
  /\ pc[b] = "output_dir"
  /\ \/ To(b, "run_vm") /\ UNCHANGED result
     \/ Fails(b, {"Path", "Io"})
  /\ UNCHANGED <<context, guestVars>>

(* Mutant: the child is there before the threads are counted. *)
RunVmThenCheck(b) ==
  /\ pc[b] = "run_vm"
  /\ \/ To(b, "wait") /\ UNCHANGED result
     \/ Fails(b, {"Unsupported", "MultiThreaded", "Path", "Io"})
  /\ step' = [step EXCEPT ![b] = 1]
  /\ UNCHANGED <<context, code, mounts, conf, litter, shared, resolver, tarball, packed>>

(* The runner: its arguments, the count of threads and the fork, which may be
   refused, and the set-up of the VM in the child, which may fail there. *)
RunVm(b) ==
  /\ pc[b] = "run_vm"
  /\ \/ /\ To(b, "wait") /\ UNCHANGED result
        /\ \/ step' = [step EXCEPT ![b] = 1] /\ UNCHANGED code
           \/ "host" \in Faults /\ code' = [code EXCEPT ![b] = 119] /\ UNCHANGED step
     \/ Fails(b, {"Unsupported", "MultiThreaded", "Path", "Io"}) /\ UNCHANGED <<step, code>>
  /\ UNCHANGED <<context, mounts, conf, litter, shared, resolver, tarball, packed>>

(* Mutant: do not wait for the VM. *)
WaitVmInBackground(b) ==
  /\ pc[b] = "wait"
  /\ Returns(b, "Ok")
  /\ UNCHANGED <<context, guestVars>>

(* Mutant: wait for a VM that succeeds. *)
WaitVmForSuccess(b) ==
  /\ pc[b] = "wait" /\ code[b] = 0
  /\ Returns(b, "Ok")
  /\ UNCHANGED <<context, guestVars>>

(* Mutant: the sentinel of the child is taken for a code of the guest. *)
WaitVmWithoutSentinel(b) ==
  /\ pc[b] = "wait" /\ code[b] # None
  /\ Returns(b, IF code[b] = 0 THEN "Ok" ELSE "Failed")
  /\ UNCHANGED <<context, guestVars>>

(* wait_for: the exit code of the child, when it can be had at all. *)
WaitVm(b) ==
  /\ pc[b] = "wait" /\ code[b] # None
  /\ \/ Returns(b, CASE code[b] = 0 -> "Ok" [] code[b] = 119 -> "Krun" [] OTHER -> "Failed")
     \/ Fails(b, {"Io"})
  /\ UNCHANGED <<context, guestVars>>

(* The temporary context goes when run returns, but an error of its removal is
   ignored and leaves any part of it behind; a caller of the library keeps its
   own. *)
DropContext(b) ==
  /\ pc[b] = "drop"
  /\ To(b, IF result[b] = "Ok" THEN "ok" ELSE "failed")
  /\ \/ b \in Library /\ UNCHANGED context
     \/ /\ b \notin Library
        /\ \E rest \in IF "host" \in Faults THEN SUBSET context[b] ELSE {{}} :
             context' = [context EXCEPT ![b] = rest]
  /\ UNCHANGED <<result, guestVars>>

(* The host process is killed, and the forked child with it when the signal
   goes to the process group; otherwise the guest runs on. *)
Kill(b) ==
  /\ "kill" \in Faults /\ pc[b] \notin {"ok", "failed", "killed"}
  /\ To(b, "killed")
  /\ \/ UNCHANGED <<step, code, mounts>>
     \/ /\ step' = [step EXCEPT ![b] = 0]
        /\ mounts' = [mounts EXCEPT ![b] = {}]
        /\ UNCHANGED code
  /\ UNCHANGED <<context, result, conf, litter, shared, resolver, tarball, packed>>

HostStep(b) ==
  \/ TempDir(b) \/ Generate(b) \/ CheckRootfs(b) \/ WriteContainerfile(b)
  \/ Canonicalize(b) \/ OutputDir(b) \/ RunVm(b) \/ WaitVm(b) \/ DropContext(b)

(***************************************************************************)
(* vm-build, command by command.  `set -e` ends it at the first command    *)
(* that fails.                                                             *)
(***************************************************************************)

(* Mutant: write the guest's resolv.conf before /run is its own. *)
ScriptResolvFirst ==
  <<"context", "output", "storage", "resolv", "bind", "run", "tmp", "bud", "from", "tar",
    "tar_end", "rm">>

Script ==
  <<"context", "output", "storage", "run", "resolv", "bind", "tmp", "bud", "from", "tar",
    "tar_end", "rm">>

Running(b) == step[b] # 0

At(b, c) == Running(b) /\ Script[step[b]] = c

Onward(b) ==
  IF step[b] = Len(Script)
    THEN /\ step' = [step EXCEPT ![b] = 0]
         /\ code' = [code EXCEPT ![b] = 0]
    ELSE /\ step' = [step EXCEPT ![b] = @ + 1]
         /\ UNCHANGED code

(* Files that a command writes below a directory that should be a mount. *)
Spill(b, dirs) == {<<b, d>> : d \in dirs \ mounts[b]}

(* The virtiofs shares and the tmpfs mounts. *)
Mount(b) ==
  /\ \E m \in {"context", "output", "storage", "run", "tmp"} :
       At(b, m) /\ mounts' = [mounts EXCEPT ![b] = @ \cup {m}]
  /\ Onward(b)
  /\ UNCHANGED <<hostVars, conf, litter, shared, resolver, tarball, packed>>

(* OPENSHELL_VM_DNS to /run/resolv.conf, when there is any. *)
WriteResolv(b) ==
  /\ At(b, "resolv")
  /\ litter' = litter \cup IF b \in WithDns THEN Spill(b, {"run"}) ELSE {}
  /\ shared' = IF b \in WithDns /\ "run" \notin mounts[b] THEN b ELSE shared
  /\ Onward(b)
  /\ UNCHANGED <<hostVars, mounts, conf, resolver, tarball, packed>>

BindResolv(b) ==
  /\ At(b, "bind")
  /\ conf' = [conf EXCEPT ![b] = IF b \notin WithDns THEN @
                                 ELSE IF "run" \in mounts[b] THEN "own" ELSE "shared"]
  /\ Onward(b)
  /\ UNCHANGED <<hostVars, mounts, litter, shared, resolver, tarball, packed>>

(* buildah bud: reads the context, resolves names, and writes layers, lock
   files and blobs. *)
Bud(b) ==
  /\ At(b, "bud")
  /\ litter' = litter \cup Spill(b, {"storage", "run", "tmp"})
  /\ resolver' = [resolver EXCEPT ![b] = CASE conf[b] = "own" -> b
                                           [] conf[b] = "shared" -> shared
                                           [] OTHER -> "shipped"]
  /\ Onward(b)
  /\ UNCHANGED <<hostVars, mounts, conf, shared, tarball, packed>>

FromImage(b) ==
  /\ At(b, "from")
  /\ Onward(b)
  /\ UNCHANGED <<hostVars, mounts, conf, litter, shared, resolver, tarball, packed>>

(* tar -cf truncates the file before it writes it. *)
TarBegin(b) ==
  /\ At(b, "tar")
  /\ tarball' = [tarball EXCEPT ![out[b]] = [of |-> {b}, whole |-> FALSE]]
  /\ packed' = packed \cup {b}
  /\ Onward(b)
  /\ UNCHANGED <<hostVars, mounts, conf, litter, shared, resolver>>

(* Another tar that has written the same file in between leaves a mixture. *)
TarEnd(b) ==
  /\ At(b, "tar_end")
  /\ tarball' = [tarball EXCEPT ![out[b]] =
                   [of |-> @.of \cup {b}, whole |-> @ = [of |-> {b}, whole |-> FALSE]]]
  /\ Onward(b)
  /\ UNCHANGED <<hostVars, mounts, conf, litter, shared, resolver, packed>>

(* buildah umount and rm; the script ends and the VM with it. *)
Finish(b) ==
  /\ At(b, "rm")
  /\ mounts' = [mounts EXCEPT ![b] = {}]
  /\ Onward(b)
  /\ UNCHANGED <<hostVars, conf, litter, shared, resolver, tarball, packed>>

(* Mutant: no `set -e`: a tar that cannot go on is passed over. *)
GuestFailsSoftly(b) ==
  /\ "guest" \in Faults /\ At(b, "tar_end")
  /\ Onward(b)
  /\ UNCHANGED <<hostVars, mounts, conf, litter, shared, resolver, tarball, packed>>

GuestFails(b) ==
  /\ "guest" \in Faults /\ Running(b)
  /\ step' = [step EXCEPT ![b] = 0]
  /\ code' = [code EXCEPT ![b] = 1]
  /\ mounts' = [mounts EXCEPT ![b] = {}]
  /\ UNCHANGED <<hostVars, conf, litter, shared, resolver, tarball, packed>>

GuestStep(b) ==
  \/ Mount(b) \/ WriteResolv(b) \/ BindResolv(b) \/ Bud(b) \/ FromImage(b) \/ TarBegin(b)
  \/ TarEnd(b) \/ Finish(b) \/ GuestFails(b)

Ended ==
  /\ \A b \in Build : pc[b] \in {"ok", "failed", "killed"} /\ ~Running(b)
  /\ UNCHANGED vars

Next == (\E b \in Build : HostStep(b) \/ GuestStep(b) \/ Kill(b)) \/ Ended

(* The host processes are scheduled, and a guest ends after some time. *)
Spec ==
  /\ Init /\ [][Next]_vars
  /\ \A b \in Build : WF_vars(HostStep(b)) /\ WF_vars(GuestStep(b))

-----------------------------------------------------------------------------
(* The build context exists, with its Containerfile, as long as a guest that
   mounts it runs, also when its host process has been killed. *)
ContextOutlivesVm == \A b \in Build : Running(b) => "Containerfile" \in context[b]

(* "A bad rootfs leaves context_dir untouched" (build): what a caller of the
   library gets back is the context it gave. *)
BadRootfsLeavesContext ==
  \A b \in Library : result[b] = "Rootfs" => context[b] = given[b]

(* An error that refuses a build means that no VM was started for it: none
   runs and the file at the output path was not touched. *)
RefusedMeansNoVm ==
  \A b \in Build :
    result[b] \in {"Rootfs", "Path", "Unsupported", "MultiThreaded"} =>
      ~Running(b) /\ b \notin packed

(* A build that reports success has its own complete image at its output
   path, whatever the others do, unless one that was given the same path has
   begun to write there too. *)
OkMeansWholeTarball ==
  \A b \in Build :
    pc[b] = "ok" /\ (\A c \in packed \ {b} : out[c] # out[b]) =>
      tarball[out[b]] = [of |-> {b}, whole |-> TRUE]

(* Every guest resolves through the nameservers its own host gave it, also
   when guests that share a rootfs start at the same time (vm-build). *)
ResolvesThroughItsOwn ==
  \A b \in Build : resolver[b] # None => resolver[b] = IF b \in WithDns THEN b ELSE "shipped"

(* Nothing a build writes gets onto the rootfs that all builds share, but for
   the empty mount points that mkdir -p makes there: buildah's storage, lock
   files and blobs and the resolv.conf are on the mounts of its own guest. *)
RootfsStaysClean == litter = {}

(* Every build ends, with a verdict unless its host process was killed. *)
BuildsEnd == \A b \in Build : <>(pc[b] \in {"ok", "failed", "killed"} /\ ~Running(b))

(* A build as a call of a VmRunner, with its guest as the VM. *)
Phase(b) ==
  IF pc[b] = "killed" THEN "abandoned"
  ELSE IF pc[b] \in {"drop", "ok", "failed"} THEN "returned"
  ELSE IF pc[b] # "wait" THEN "called"
  ELSE IF code[b] = None THEN "running" ELSE "over"

Ending(b) ==
  IF pc[b] = "killed" \/ code[b] = None THEN None
  ELSE IF code[b] = 0 THEN "Ok" ELSE IF code[b] = 119 THEN "Krun" ELSE "Failed"

Contract == INSTANCE VmRunner WITH
  Call <- Build, phase <- [b \in Build |-> Phase(b)], end <- [b \in Build |-> Ending(b)],
  answer <- [b \in Build |-> IF pc[b] = "killed" THEN None ELSE result[b]]

(* What build takes the runner to do is what the trait promises, and build
   promises the same: every error ahead of the runner is a refusal, and what
   it returns after the VM is the runner's answer. *)
BuildImplementsRunner == Contract!Spec
=============================================================================
