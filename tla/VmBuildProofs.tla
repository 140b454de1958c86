--------------------------- MODULE VmBuildProofs ---------------------------
(***************************************************************************)
(* Proofs about VmBuild, for any number of builds of either kind of        *)
(* caller, any output paths and whatever fails or is killed: contexts,     *)
(* refusals, tarballs, resolvers and the rootfs that all guests share.     *)
(***************************************************************************)
EXTENDS VmBuild, TLAPS

(***************************************************************************)
(* The inductive invariant, in parts.                                      *)
(***************************************************************************)
Before ==
  {"start", "generate", "check_rootfs", "write_containerfile", "canonicalize", "output_dir",
   "run_vm"}

Label == Before \cup {"wait", "drop", "ok", "failed", "killed"}

ContextFile == {"dir", "link", "Containerfile", "build-containerfile"}

Refusal == {"Rootfs", "Path", "Unsupported", "MultiThreaded"}

Types ==
  /\ pc \in [Build -> Label]
  /\ context \in [Build -> SUBSET ContextFile]
  /\ result \in [Build -> Result \cup {None}]
  /\ step \in [Build -> 0..12]
  /\ code \in [Build -> {None, 0, 1, 119}]
  /\ mounts \in [Build -> SUBSET {"context", "output", "storage", "run", "tmp"}]
  /\ conf \in [Build -> {"shipped", "own", "shared"}]
  /\ resolver = [b \in Build |-> resolver[b]]
  /\ tarball = [f \in {out[b] : b \in Build} |-> tarball[f]]

(* Where a guest is, given where its host process is: it is started once, its
   host waits for it or was killed, and it leaves a code when it ends. *)
HostAndGuest ==
  \A b \in Build :
    /\ pc[b] \in Before => step[b] = 0 /\ code[b] = None /\ b \notin packed
    /\ pc[b] \in Before \cup {"wait"} => result[b] = None
    /\ step[b] # 0 => pc[b] \in {"wait", "killed"} /\ code[b] = None
    /\ step[b] > 10 => b \in packed

(* What a result says of the guest. *)
ResultOfGuest ==
  \A b \in Build :
    /\ result[b] \in Refusal => step[b] = 0 /\ b \notin packed
    /\ result[b] = "Ok" => code[b] # None /\ code[b] = 0
    /\ pc[b] = "ok" => result[b] = "Ok"

(* The context has its Containerfile from the write to the end of the VM;
   the one of a library's caller is not touched before that. *)
Contexts ==
  \A b \in Build :
    /\ pc[b] \in {"canonicalize", "output_dir", "run_vm", "wait"} \/ step[b] # 0
         => "Containerfile" \in context[b]
    /\ b \in Library => pc[b] \notin {"start", "generate"}
    /\ b \in Library /\ (pc[b] = "check_rootfs" \/ result[b] = "Rootfs")
         => context[b] = given[b]

(* The mounts of a guest that has come this far in its script. *)
Mounted ==
  \A b \in Build :
    /\ step[b] > 3 => "storage" \in mounts[b]
    /\ step[b] > 4 => "run" \in mounts[b]
    /\ step[b] > 7 => "tmp" \in mounts[b]

(* The resolv.conf of a guest, once it is bound, is its own. *)
Resolving ==
  \A b \in Build :
    /\ b \notin WithDns => conf[b] = "shipped"
    /\ b \in WithDns /\ step[b] > 6 => conf[b] = "own"

(* No other build has begun to write to the output path of b. *)
Alone(b) == \A c \in packed \ {b} : out[c] # out[b]

(* The file at a path that only one build writes to, from the truncation to
   the last byte. *)
Packing ==
  \A b \in Build :
    Alone(b) =>
      /\ step[b] = 11 => tarball[out[b]] = [of |-> {b}, whole |-> FALSE]
      /\ step[b] = 12 \/ (code[b] # None /\ code[b] = 0)
           => tarball[out[b]] = [of |-> {b}, whole |-> TRUE]

Inv ==
  /\ Types /\ HostAndGuest /\ ResultOfGuest /\ Contexts
  /\ Mounted /\ Resolving /\ ResolvesThroughItsOwn /\ RootfsStaysClean /\ Packing
-----------------------------------------------------------------------------
(* Which step of the script a command is. *)
LEMMA Commands ==
  ASSUME Types, NEW b \in Build
  PROVE  /\ Len(Script) = 12
         /\ At(b, "context") <=> step[b] = 1
         /\ At(b, "output") <=> step[b] = 2
         /\ At(b, "storage") <=> step[b] = 3
         /\ At(b, "run") <=> step[b] = 4
         /\ At(b, "resolv") <=> step[b] = 5
         /\ At(b, "bind") <=> step[b] = 6
         /\ At(b, "tmp") <=> step[b] = 7
         /\ At(b, "bud") <=> step[b] = 8
         /\ At(b, "from") <=> step[b] = 9
         /\ At(b, "tar") <=> step[b] = 10
         /\ At(b, "tar_end") <=> step[b] = 11
         /\ At(b, "rm") <=> step[b] = 12
  BY DEF At, Running, Script, Types

(* A command that succeeds takes its guest to the next one, or to the end
   with exit code zero. *)
LEMMA OnwardMoves ==
  ASSUME Types, NEW b \in Build, step[b] # 0, Onward(b)
  PROVE  /\ step' \in [Build -> 0..12] /\ code' \in [Build -> {None, 0, 1, 119}]
         /\ step[b] = 12 => step'[b] = 0 /\ code'[b] = 0
         /\ step[b] # 12 => step'[b] = step[b] + 1 /\ code'[b] = code[b]
         /\ \A c \in Build \ {b} : step'[c] = step[c] /\ code'[c] = code[c]
<1>1. Len(Script) = 12
  BY Commands
<1>2. CASE step[b] = 12
  BY <1>1, <1>2 DEF Onward, Types
<1>3. CASE step[b] # 12
  BY <1>1, <1>3 DEF Onward, Types
<1>4. QED
  BY <1>2, <1>3

(* The builds before their first step satisfy the invariant. *)
LEMMA InitInv == Init => Inv
<1> SUFFICES ASSUME Init PROVE Inv
  OBVIOUS
<1>1. Types
  <2>1. context \in [Build -> SUBSET ContextFile]
    BY DEF Init, CallersContext, ContextFile
  <2>2. /\ resolver = [b \in Build |-> resolver[b]]
        /\ tarball = [f \in {out[b] : b \in Build} |-> tarball[f]]
    BY DEF Init
  <2>3. pc \in [Build -> Label]
    BY DEF Init, Label, Before
  <2>4. result \in [Build -> Result \cup {None}] /\ conf \in [Build -> {"shipped", "own", "shared"}]
    BY DEF Init
  <2>5. step \in [Build -> 0..12] /\ code \in [Build -> {None, 0, 1, 119}]
    BY DEF Init
  <2>6. mounts \in [Build -> SUBSET {"context", "output", "storage", "run", "tmp"}]
    BY DEF Init
  <2>7. QED
    BY <2>1, <2>2, <2>3, <2>4, <2>5, <2>6 DEF Types
<1>2. HostAndGuest /\ ResultOfGuest
  BY NoneIsNoResult DEF Init, HostAndGuest, ResultOfGuest, Before, Refusal, Result
<1>3. Contexts
  BY NoneIsNoResult DEF Init, Contexts, Result
<1>4. Mounted /\ Packing
  BY DEF Init, Mounted, Packing
<1>5. Resolving /\ ResolvesThroughItsOwn /\ RootfsStaysClean
  BY DEF Init, Resolving, ResolvesThroughItsOwn, RootfsStaysClean
<1>6. QED
  BY <1>1, <1>2, <1>3, <1>4, <1>5 DEF Inv

(***************************************************************************)
(* The host process up to the start of the VM                              *)
(***************************************************************************)
Prepare(b) ==
  TempDir(b) \/ Generate(b) \/ CheckRootfs(b) \/ WriteContainerfile(b) \/ Canonicalize(b)
    \/ OutputDir(b)

(* Such a step concerns its own build and no guest, and goes on or ends with
   an error. *)
LEMMA PrepareMoves ==
  ASSUME Types, NEW b \in Build, Prepare(b)
  PROVE  /\ UNCHANGED <<guestVars, given, out>>
         /\ pc' \in [Build -> Label] /\ result' \in [Build -> Result \cup {None}]
         /\ context' \in [Build -> SUBSET ContextFile]
         /\ \A c \in Build \ {b} :
              pc'[c] = pc[c] /\ result'[c] = result[c] /\ context'[c] = context[c]
         /\ pc[b] \in Before
         /\ \/ pc'[b] \in Before /\ result'[b] = result[b]
            \/ pc'[b] = "drop" /\ result'[b] \in Result \ {"Ok"}
<1>1. CASE TempDir(b)
  BY <1>1 DEF TempDir, To, Fails, Returns, Types, Label, Before, Result, ContextFile
<1>2. CASE Generate(b)
  <2>1. \A f \in {{}, {"build-containerfile"}} : context[b] \cup f \in SUBSET ContextFile
    BY DEF Types, ContextFile
  <2>2. QED
    BY <1>2, <2>1 DEF Generate, To, Fails, Returns, Types, Label, Before, Result
<1>3. CASE CheckRootfs(b)
  BY <1>3 DEF CheckRootfs, To, Fails, Returns, Types, Label, Before, Result
<1>4. CASE WriteContainerfile(b)
  <2>1. context[b] \cup {"Containerfile"} \in SUBSET ContextFile
    BY DEF Types, ContextFile
  <2>2. QED
    BY <1>4, <2>1 DEF WriteContainerfile, To, Fails, Returns, Types, Label, Before, Result
<1>5. CASE Canonicalize(b)
  BY <1>5 DEF Canonicalize, To, Fails, Returns, Types, Label, Before, Result
<1>6. CASE OutputDir(b)
  BY <1>6 DEF OutputDir, To, Fails, Returns, Types, Label, Before, Result
<1>7. QED
  BY <1>1, <1>2, <1>3, <1>4, <1>5, <1>6 DEF Prepare

(* Up to the start of the VM the invariant is preserved: the Containerfile is
   written after the rootfs was checked and before there is a guest. *)
LEMMA PrepareInv ==
  ASSUME Inv, NEW b \in Build, Prepare(b)
  PROVE  Inv'
<1> USE DEF Inv
<1>1. Types'
  <2>1. UNCHANGED <<guestVars, out>>
    BY PrepareMoves
  <2>2. /\ pc' \in [Build -> Label] /\ result' \in [Build -> Result \cup {None}]
        /\ context' \in [Build -> SUBSET ContextFile]
    BY PrepareMoves
  <2>3. QED
    BY <2>1, <2>2 DEF Types, guestVars
<1>2. HostAndGuest' /\ ResultOfGuest'
  BY PrepareMoves DEF HostAndGuest, ResultOfGuest, guestVars, Before
<1>3. Contexts'
  <2>1. Contexts!(b)'
    <3>0. result[b] = None /\ step'[b] = 0 /\ None # "Rootfs"
      BY PrepareMoves, NoneIsNoResult DEF HostAndGuest, guestVars, Result
    <3>1. CASE TempDir(b) \/ Generate(b)
      BY <3>0, <3>1, PrepareMoves DEF TempDir, Generate, To, Fails, Returns, Types, Contexts
    <3>2. CASE CheckRootfs(b)
      BY <3>0, <3>2, PrepareMoves DEF CheckRootfs, To, Fails, Returns, Types, Contexts
    <3>3. CASE WriteContainerfile(b)
      BY <3>0, <3>3, PrepareMoves DEF WriteContainerfile, To, Fails, Returns, Types, Contexts
    <3>4. CASE Canonicalize(b) \/ OutputDir(b)
      BY <3>0, <3>4, PrepareMoves DEF Canonicalize, OutputDir, To, Fails, Returns, Types, Contexts
    <3>5. QED
      BY <3>1, <3>2, <3>3, <3>4 DEF Prepare
  <2>2. ASSUME NEW c \in Build, c # b PROVE Contexts!(c)'
    BY <2>2, PrepareMoves DEF Contexts, guestVars
  <2>3. QED
    BY <2>1, <2>2 DEF Contexts
<1>4. Mounted' /\ Resolving' /\ ResolvesThroughItsOwn' /\ RootfsStaysClean'
  BY PrepareMoves DEF Mounted, Resolving, ResolvesThroughItsOwn, RootfsStaysClean, guestVars
<1>5. Packing'
  BY PrepareMoves DEF Packing, Alone, guestVars
<1>6. QED
  BY <1>1, <1>2, <1>3, <1>4, <1>5

(***************************************************************************)
(* The start of the VM, its end, and the ways out                          *)
(***************************************************************************)

(* The start of the VM: the guest is at its first command, or there is none
   and the host knows. *)
LEMMA RunVmInv ==
  ASSUME Inv, NEW b \in Build, RunVm(b)
  PROVE  Inv'
<1> USE DEF Inv
<1>1. /\ step[b] = 0 /\ code[b] = None /\ b \notin packed /\ result[b] = None
      /\ "Containerfile" \in context[b]
  BY DEF RunVm, HostAndGuest, Contexts, Before
<1>2. /\ pc' \in [Build -> Label] /\ result' \in [Build -> Result \cup {None}]
      /\ step' \in [Build -> 0..12] /\ code' \in [Build -> {None, 0, 1, 119}]
      /\ UNCHANGED <<given, out, context, mounts, conf, litter, shared, resolver, tarball, packed>>
      /\ \A c \in Build \ {b} :
           pc'[c] = pc[c] /\ result'[c] = result[c] /\ step'[c] = step[c] /\ code'[c] = code[c]
      /\ \/ pc'[b] = "wait" /\ result'[b] = None /\ step'[b] = 1 /\ code'[b] = None
         \/ pc'[b] = "wait" /\ result'[b] = None /\ step'[b] = 0 /\ code'[b] = 119
         \/ /\ pc'[b] = "drop" /\ result'[b] \in Result \ {"Ok", "Rootfs"}
            /\ step'[b] = 0 /\ code'[b] = None
  BY <1>1 DEF RunVm, To, Fails, Returns, Types, Label, Before, Result
<1>3. Types'
  BY <1>2 DEF Types
<1>4. HostAndGuest'
  BY <1>1, <1>2 DEF HostAndGuest, Before
<1>5. ResultOfGuest'
  BY <1>1, <1>2, NoneIsNoResult DEF ResultOfGuest, Refusal, Result
<1>6. Contexts'
  BY <1>1, <1>2, NoneIsNoResult DEF Contexts, Result
<1>7. Mounted' /\ Resolving' /\ ResolvesThroughItsOwn' /\ RootfsStaysClean'
  BY <1>1, <1>2 DEF Mounted, Resolving, ResolvesThroughItsOwn, RootfsStaysClean
<1>8. Packing'
  BY <1>1, <1>2 DEF Packing, Alone
<1>9. QED
  BY <1>3, <1>4, <1>5, <1>6, <1>7, <1>8

(* The end of the VM: the host goes on when its guest has left a code, so
   that there is none any more. *)
LEMMA WaitVmInv ==
  ASSUME Inv, NEW b \in Build, WaitVm(b)
  PROVE  Inv'
<1> USE DEF Inv
<1>1. code[b] # None /\ step[b] = 0
  BY DEF WaitVm, HostAndGuest
<1>2. /\ pc' \in [Build -> Label] /\ result' \in [Build -> Result \cup {None}]
      /\ UNCHANGED <<guestVars, given, out, context>>
      /\ \A c \in Build \ {b} : pc'[c] = pc[c] /\ result'[c] = result[c]
      /\ pc[b] = "wait" /\ pc'[b] = "drop"
      /\ (result'[b] = "Ok" /\ code[b] = 0) \/ result'[b] \in {"Krun", "Failed", "Io"}
  BY DEF WaitVm, To, Fails, Returns, Types, Label, Before, Result
<1>3. Types'
  BY <1>2 DEF Types, guestVars
<1>4. HostAndGuest'
  BY <1>1, <1>2 DEF HostAndGuest, Before, guestVars
<1>5. ResultOfGuest'
  BY <1>1, <1>2 DEF ResultOfGuest, Refusal, guestVars
<1>6. Contexts'
  BY <1>1, <1>2 DEF Contexts, guestVars
<1>7. Mounted' /\ Resolving' /\ ResolvesThroughItsOwn' /\ RootfsStaysClean' /\ Packing'
  BY <1>2 DEF Mounted, Resolving, ResolvesThroughItsOwn, RootfsStaysClean, Packing, Alone, guestVars
<1>8. QED
  BY <1>3, <1>4, <1>5, <1>6, <1>7

(* The context goes when no guest needs it. *)
LEMMA DropContextInv ==
  ASSUME Inv, NEW b \in Build, DropContext(b)
  PROVE  Inv'
<1> USE DEF Inv
<1>1. step[b] = 0
  BY DEF DropContext, HostAndGuest
<1>2. /\ pc' \in [Build -> Label] /\ context' \in [Build -> SUBSET ContextFile]
      /\ UNCHANGED <<guestVars, given, out, result>>
      /\ \A c \in Build \ {b} : pc'[c] = pc[c] /\ context'[c] = context[c]
      /\ pc'[b] = IF result[b] = "Ok" THEN "ok" ELSE "failed"
      /\ b \in Library => context'[b] = context[b]
  BY DEF DropContext, To, Types, Label, Before
<1>3. Types'
  BY <1>2 DEF Types, guestVars
<1>4. HostAndGuest' /\ ResultOfGuest'
  BY <1>1, <1>2 DEF HostAndGuest, ResultOfGuest, Before, guestVars
<1>5. Contexts'
  BY <1>1, <1>2 DEF Contexts, guestVars
<1>6. Mounted' /\ Resolving' /\ ResolvesThroughItsOwn' /\ RootfsStaysClean' /\ Packing'
  BY <1>2 DEF Mounted, Resolving, ResolvesThroughItsOwn, RootfsStaysClean, Packing, Alone, guestVars
<1>7. QED
  BY <1>3, <1>4, <1>5, <1>6

(* A kill of the host leaves the context where it is, for the guest that may
   run on. *)
LEMMA KillInv ==
  ASSUME Inv, NEW b \in Build, Kill(b)
  PROVE  Inv'
<1> USE DEF Inv
<1>1. /\ pc' \in [Build -> Label]
      /\ step' \in [Build -> 0..12]
      /\ mounts' \in [Build -> SUBSET {"context", "output", "storage", "run", "tmp"}]
      /\ UNCHANGED <<given, out, context, result, code, conf, litter, shared, resolver, tarball,
                     packed>>
      /\ \A c \in Build \ {b} :
           pc'[c] = pc[c] /\ step'[c] = step[c] /\ mounts'[c] = mounts[c]
      /\ pc'[b] = "killed"
      /\ step'[b] = 0 \/ (step'[b] = step[b] /\ mounts'[b] = mounts[b])
  BY DEF Kill, To, Types, Label
<1>2. Types'
  BY <1>1 DEF Types
<1>3. HostAndGuest'
  BY <1>1 DEF HostAndGuest, Before
<1>4. ResultOfGuest' /\ Contexts'
  BY <1>1 DEF ResultOfGuest, Contexts
<1>5. Mounted' /\ Resolving' /\ ResolvesThroughItsOwn' /\ RootfsStaysClean'
  BY <1>1 DEF Mounted, Resolving, ResolvesThroughItsOwn, RootfsStaysClean
<1>6. Packing'
  BY <1>1 DEF Packing, Alone
<1>7. QED
  BY <1>2, <1>3, <1>4, <1>5, <1>6

(***************************************************************************)
(* The guest                                                               *)
(***************************************************************************)

(* A step of a guest: to the next command, or to the end with a code, which
   is zero only after the last one; who is about to finish a tarball has
   begun it. *)
LEMMA GuestMoves ==
  ASSUME Types, NEW b \in Build, GuestStep(b)
  PROVE  /\ UNCHANGED hostVars /\ step[b] # 0
         /\ step' \in [Build -> 0..12] /\ code' \in [Build -> {None, 0, 1, 119}]
         /\ \A c \in Build \ {b} : step'[c] = step[c] /\ code'[c] = code[c]
         /\ \/ step[b] # 12 /\ step'[b] = step[b] + 1 /\ code'[b] = code[b]
            \/ step[b] = 12 /\ step'[b] = 0 /\ code'[b] = 0
            \/ step'[b] = 0 /\ code'[b] = 1
         /\ packed \subseteq packed' /\ packed' \subseteq packed \cup {b}
         /\ step[b] = 10 => step'[b] = 0 \/ b \in packed'
<1> USE Commands
<1>1. CASE Mount(b)
  BY <1>1, OnwardMoves DEF Mount
<1>2. CASE WriteResolv(b) \/ BindResolv(b) \/ Bud(b) \/ FromImage(b)
  BY <1>2, OnwardMoves DEF WriteResolv, BindResolv, Bud, FromImage
<1>3. CASE TarBegin(b)
  BY <1>3, OnwardMoves DEF TarBegin
<1>4. CASE TarEnd(b) \/ Finish(b)
  BY <1>4, OnwardMoves DEF TarEnd, Finish
<1>5. CASE GuestFails(b)
  BY <1>5 DEF GuestFails, Running, Types
<1>6. QED
  BY <1>1, <1>2, <1>3, <1>4, <1>5 DEF GuestStep

(* A guest runs while its host waits or was killed, before there is a code
   or a result. *)
LEMMA GuestKeepsHost ==
  ASSUME Inv, NEW b \in Build, GuestStep(b)
  PROVE  HostAndGuest' /\ ResultOfGuest' /\ Contexts'
<1> USE DEF Inv
<1>1. /\ pc[b] \in {"wait", "killed"} /\ code[b] = None
      /\ result[b] \notin Refusal /\ result[b] # "Ok"
  BY GuestMoves DEF HostAndGuest, ResultOfGuest
<1>2. HostAndGuest'
  BY <1>1, GuestMoves DEF HostAndGuest, hostVars, Before, Types
<1>3. ResultOfGuest'
  BY <1>1, GuestMoves DEF ResultOfGuest, hostVars
<1>4. Contexts'
  BY <1>1, GuestMoves DEF Contexts, hostVars
<1>5. QED
  BY <1>2, <1>3, <1>4

(* The mounts come before the commands that need them. *)
LEMMA GuestMounts ==
  ASSUME Types, Mounted, NEW b \in Build, GuestStep(b)
  PROVE  /\ Mounted'
         /\ mounts' \in [Build -> SUBSET {"context", "output", "storage", "run", "tmp"}]
<1>1. CASE Mount(b)
  <2>1. PICK m \in {"context", "output", "storage", "run", "tmp"} :
          At(b, m) /\ mounts' = [mounts EXCEPT ![b] = @ \cup {m}]
    BY <1>1 DEF Mount
  <2>2. /\ mounts' \in [Build -> SUBSET {"context", "output", "storage", "run", "tmp"}]
        /\ mounts'[b] = mounts[b] \cup {m}
        /\ \A c \in Build \ {b} : mounts'[c] = mounts[c]
    BY <2>1 DEF Types
  <2>3. /\ step[b] = 3 => m = "storage"
        /\ step[b] = 4 => m = "run"
        /\ step[b] = 7 => m = "tmp"
    BY <2>1, Commands
  <2>4. QED
    BY <2>2, <2>3, GuestMoves DEF Types, Mounted
<1>2. CASE WriteResolv(b) \/ BindResolv(b) \/ Bud(b) \/ FromImage(b) \/ TarBegin(b) \/ TarEnd(b)
  <2>1. mounts' = mounts /\ step[b] \notin {3, 4, 7}
    BY <1>2, Commands DEF WriteResolv, BindResolv, Bud, FromImage, TarBegin, TarEnd
  <2>2. QED
    BY <2>1, GuestMoves DEF Types, Mounted
<1>3. CASE Finish(b) \/ GuestFails(b)
  <2>1. step'[b] = 0
    BY <1>3, Commands, OnwardMoves DEF Finish, GuestFails, Types
  <2>2. QED
    BY <1>3, <2>1, GuestMoves DEF Finish, GuestFails, Types, Mounted
<1>4. QED
  BY <1>1, <1>2, <1>3 DEF GuestStep

(* What a guest writes is on mounts of its own, and it resolves through a
   resolv.conf on one of them. *)
LEMMA GuestKeepsApart ==
  ASSUME Types, Mounted, Resolving, ResolvesThroughItsOwn, RootfsStaysClean,
         NEW b \in Build, GuestStep(b)
  PROVE  /\ Resolving' /\ ResolvesThroughItsOwn' /\ RootfsStaysClean'
         /\ conf' \in [Build -> {"shipped", "own", "shared"}]
         /\ resolver' = [c \in Build |-> resolver'[c]]
<1>1. CASE WriteResolv(b)
  <2>1. "run" \in mounts[b] /\ step[b] = 5
    BY <1>1, Commands DEF WriteResolv, Mounted
  <2>2. UNCHANGED <<litter, conf, resolver>>
    BY <1>1, <2>1 DEF WriteResolv, Spill, RootfsStaysClean
  <2>3. QED
    BY <2>1, <2>2, GuestMoves DEF Types, Resolving, ResolvesThroughItsOwn, RootfsStaysClean
<1>2. CASE BindResolv(b)
  <2>1. "run" \in mounts[b] /\ step[b] = 6
    BY <1>2, Commands DEF BindResolv, Mounted
  <2>2. /\ UNCHANGED <<litter, resolver>>
        /\ conf' \in [Build -> {"shipped", "own", "shared"}]
        /\ conf'[b] = IF b \in WithDns THEN "own" ELSE "shipped"
        /\ \A c \in Build \ {b} : conf'[c] = conf[c]
    BY <1>2, <2>1 DEF BindResolv, Types, Resolving
  <2>3. QED
    BY <2>1, <2>2, GuestMoves DEF Types, Resolving, ResolvesThroughItsOwn, RootfsStaysClean
<1>3. CASE Bud(b)
  <2>1. {"storage", "run", "tmp"} \subseteq mounts[b] /\ step[b] = 8
    BY <1>3, Commands DEF Bud, Mounted
  <2>2. UNCHANGED <<litter, conf>>
    BY <1>3, <2>1 DEF Bud, Spill, RootfsStaysClean
  <2>3. conf[b] = IF b \in WithDns THEN "own" ELSE "shipped"
    BY <2>1 DEF Resolving
  <2>4. /\ resolver' = [c \in Build |-> resolver'[c]]
        /\ resolver'[b] = IF b \in WithDns THEN b ELSE "shipped"
        /\ \A c \in Build \ {b} : resolver'[c] = resolver[c]
    BY <1>3, <2>3 DEF Bud, Types
  <2>5. QED
    BY <2>1, <2>2, <2>4, GuestMoves DEF Types, Resolving, ResolvesThroughItsOwn, RootfsStaysClean
<1>4. CASE Mount(b) \/ FromImage(b) \/ TarBegin(b) \/ TarEnd(b) \/ Finish(b) \/ GuestFails(b)
  <2>1. UNCHANGED <<litter, conf, resolver>>
    BY <1>4 DEF Mount, FromImage, TarBegin, TarEnd, Finish, GuestFails
  <2>2. step[b] = 6 => step'[b] = 0
    BY <1>4, Commands DEF Mount, FromImage, TarBegin, TarEnd, Finish, GuestFails, Types
  <2>3. QED
    BY <2>1, <2>2, GuestMoves DEF Types, Resolving, ResolvesThroughItsOwn, RootfsStaysClean
<1>5. QED
  BY <1>1, <1>2, <1>3, <1>4 DEF GuestStep

(* A guest writes to its own output path only, and has begun to before it
   ends, so a path with one writer holds what that one wrote. *)
LEMMA GuestPacks ==
  ASSUME Inv, NEW b \in Build, GuestStep(b)
  PROVE  Packing' /\ tarball' = [f \in {out[c] : c \in Build} |-> tarball'[f]]
<1> USE DEF Inv
<1>1. /\ code[b] = None /\ out' = out
      /\ \A c \in Build : Alone(c)' => Alone(c)
  BY GuestMoves DEF HostAndGuest, Alone, hostVars
<1>2. CASE TarBegin(b) \/ TarEnd(b)
  <2>1. \/ TarBegin(b) /\ step[b] = 10 /\ step'[b] = 11
        \/ TarEnd(b) /\ step[b] = 11 /\ step'[b] = 12
    BY <1>2, Commands, OnwardMoves DEF TarBegin, TarEnd
  <2>2. b \in packed' /\ code'[b] = None
    BY <1>1, <2>1, GuestMoves DEF HostAndGuest
  <2>3. /\ tarball' = [f \in {out[c] : c \in Build} |-> tarball'[f]]
        /\ \A c \in Build : out[c] # out[b] => tarball'[out[c]] = tarball[out[c]]
    BY <1>2 DEF TarBegin, TarEnd, Types
  <2>4. ASSUME NEW c \in Build, c # b, Alone(c)'
        PROVE  /\ step'[c] = 11 => tarball'[out[c]] = [of |-> {c}, whole |-> FALSE]
               /\ step'[c] = 12 \/ (code'[c] # None /\ code'[c] = 0)
                    => tarball'[out[c]] = [of |-> {c}, whole |-> TRUE]
    <3>1. out[c] # out[b]
      BY <1>1, <2>2, <2>4 DEF Alone
    <3>2. tarball'[out[c]] = tarball[out[c]] /\ step'[c] = step[c] /\ code'[c] = code[c]
      BY <2>3, <2>4, <3>1, GuestMoves
    <3>3. QED
      BY <1>1, <2>4, <3>2 DEF Packing
  <2>5. CASE TarBegin(b)
    <3>1. tarball'[out[b]] = [of |-> {b}, whole |-> FALSE] /\ step'[b] = 11
      BY <2>1, <2>5, Commands DEF TarBegin, Types
    <3>2. step'[b] # 12 /\ ~(code'[b] # None /\ code'[b] = 0)
      BY <2>2, <3>1
    <3>3. Packing'
      <4> SUFFICES ASSUME NEW c \in Build, Alone(c)'
                   PROVE  /\ step'[c] = 11 => tarball'[out'[c]] = [of |-> {c}, whole |-> FALSE]
                          /\ step'[c] = 12 \/ (code'[c] # None /\ code'[c] = 0)
                               => tarball'[out'[c]] = [of |-> {c}, whole |-> TRUE]
        BY DEF Packing
      <4>1. CASE c = b
        BY <1>1, <3>1, <3>2, <4>1
      <4>2. CASE c # b
        BY <1>1, <2>4, <4>2
      <4>3. QED
        BY <4>1, <4>2
    <3>4. QED
      BY <2>3, <3>3
  <2>6. CASE TarEnd(b)
    <3>1. step'[b] = 12 /\ step[b] = 11
      BY <2>1, <2>6, Commands DEF TarEnd
    <3>2. Alone(b) => tarball[out[b]] = [of |-> {b}, whole |-> FALSE]
      BY <3>1 DEF Packing
    <3>3. Alone(b) => tarball'[out[b]] = [of |-> {b}, whole |-> TRUE]
      <4> DEFINE begun == [of |-> {b}, whole |-> FALSE]
      <4>1. out[b] \in {out[c] : c \in Build}
        OBVIOUS
      <4>2. tarball'[out[b]] = [of |-> tarball[out[b]].of \cup {b}, whole |-> tarball[out[b]] = begun]
        BY <2>6, <4>1 DEF TarEnd, Types
      <4>3. ASSUME Alone(b)
            PROVE  tarball[out[b]].of \cup {b} = {b} /\ (tarball[out[b]] = begun) = TRUE
        <5>1. tarball[out[b]] = begun
          BY <4>3, <3>2
        <5>2. begun.of = {b}
          OBVIOUS
        <5>3. QED
          BY <5>1, <5>2
      <4>4. QED
        BY <4>2, <4>3
    <3>4. Packing'
      BY <1>1, <2>2, <2>4, <3>1, <3>3 DEF Packing
    <3>5. QED
      BY <2>3, <3>4
  <2>7. QED
    BY <1>2, <2>5, <2>6
<1>3. CASE \/ Mount(b) \/ WriteResolv(b) \/ BindResolv(b) \/ Bud(b) \/ FromImage(b) \/ Finish(b)
           \/ GuestFails(b)
  <2>1. tarball' = tarball
    BY <1>3 DEF Mount, WriteResolv, BindResolv, Bud, FromImage, Finish, GuestFails
  <2>2. \/ step'[b] = 0 /\ code'[b] = 1
        \/ step'[b] \notin {11, 12} /\ code'[b] = None
        \/ step[b] = 12 /\ step'[b] = 0 /\ code'[b] = 0
    <3>1. CASE GuestFails(b)
      BY <3>1 DEF GuestFails, Types
    <3>2. CASE Mount(b) \/ WriteResolv(b) \/ BindResolv(b) \/ Bud(b) \/ FromImage(b) \/ Finish(b)
      <4>1. step[b] \notin {10, 11}
        BY <3>2, Commands DEF Mount, WriteResolv, BindResolv, Bud, FromImage, Finish
      <4>2. QED
        BY <4>1, <1>1, GuestMoves DEF Types
    <3>3. QED
      BY <1>3, <3>1, <3>2
  <2>3. QED
    BY <1>1, <2>1, <2>2, GuestMoves DEF Packing, Types
<1>4. QED
  BY <1>2, <1>3 DEF GuestStep

(* A step of a guest preserves the invariant. *)
LEMMA GuestInv ==
  ASSUME Inv, NEW b \in Build, GuestStep(b)
  PROVE  Inv'
<1> USE DEF Inv
<1>1. UNCHANGED hostVars
  BY GuestMoves
<1>2. tarball' = [f \in {out'[c] : c \in Build} |-> tarball'[f]]
  BY <1>1, GuestPacks DEF hostVars
<1>3. /\ pc' \in [Build -> Label] /\ context' \in [Build -> SUBSET ContextFile]
      /\ result' \in [Build -> Result \cup {None}]
  BY <1>1 DEF Types, hostVars
<1>4. Types'
  BY <1>2, <1>3, GuestMoves, GuestMounts, GuestKeepsApart DEF Types
<1>5. QED
  BY <1>4, GuestKeepsHost, GuestMounts, GuestKeepsApart, GuestPacks

(* Every step preserves the invariant. *)
LEMMA NextInv == Inv /\ [Next]_vars => Inv'
<1> SUFFICES ASSUME Inv, [Next]_vars PROVE Inv'
  OBVIOUS
<1>1. ASSUME NEW b \in Build, HostStep(b) PROVE Inv'
  BY <1>1, PrepareInv, RunVmInv, WaitVmInv, DropContextInv DEF HostStep, Prepare
<1>2. ASSUME NEW b \in Build, GuestStep(b) \/ Kill(b) PROVE Inv'
  BY <1>2, GuestInv, KillInv
<1>3. CASE UNCHANGED vars
  <2>1. Types'
    BY <1>3 DEF vars, hostVars, guestVars, Inv, Types
  <2>2. HostAndGuest' /\ ResultOfGuest' /\ Contexts'
    BY <1>3 DEF vars, hostVars, guestVars, Inv, HostAndGuest, ResultOfGuest, Contexts
  <2>3. Mounted' /\ Resolving' /\ ResolvesThroughItsOwn' /\ RootfsStaysClean'
    BY <1>3 DEF vars, guestVars, Inv, Mounted, Resolving, ResolvesThroughItsOwn, RootfsStaysClean
  <2>4. Packing'
    BY <1>3 DEF vars, hostVars, guestVars, Inv, Packing, Alone
  <2>5. QED
    BY <2>1, <2>2, <2>3, <2>4 DEF Inv
<1>4. QED
  BY <1>1, <1>2, <1>3 DEF Next, Ended

(* The invariant holds throughout. *)
LEMMA AlwaysInv == Spec => []Inv
  BY InitInv, NextInv, PTL DEF Spec
-----------------------------------------------------------------------------
(* As long as a guest runs, its context is there with the Containerfile: the
   temporary directory of run in main.rs lives across build, which waits for
   the VM, and a host process that is killed removes nothing. *)
THEOREM ContextsOutliveVms == Spec => []ContextOutlivesVm
<1>1. Inv => ContextOutlivesVm
  BY DEF Inv, Contexts, ContextOutlivesVm, Running
<1>2. QED
  BY <1>1, AlwaysInv, PTL

(* A bad rootfs leaves the context of a library's caller as it was: build
   checks the rootfs before it writes the Containerfile. *)
THEOREM BadRootfsIsHarmless == Spec => []BadRootfsLeavesContext
<1>1. Inv => BadRootfsLeavesContext
  BY LibraryIsOfBuilds DEF Inv, Contexts, BadRootfsLeavesContext
<1>2. QED
  BY <1>1, AlwaysInv, PTL

(* An error that refuses a build means that no VM was started for it, on any
   path through build and the runner. *)
THEOREM RefusedBuildsRunNothing == Spec => []RefusedMeansNoVm
<1>1. Inv => RefusedMeansNoVm
  BY DEF Inv, ResultOfGuest, Refusal, RefusedMeansNoVm, Running
<1>2. QED
  BY <1>1, AlwaysInv, PTL

(* Success means that the guest has written its complete tarball, however
   many builds run, unless another one writes to the same path: set -e in
   vm-build, and the exit code that wait_for turns into a result. *)
THEOREM SuccessIsAWholeTarball == Spec => []OkMeansWholeTarball
<1>1. Inv => OkMeansWholeTarball
  BY DEF Inv, ResultOfGuest, Packing, Alone, OkMeansWholeTarball
<1>2. QED
  BY <1>1, AlwaysInv, PTL

(* However many guests share the rootfs, each resolves through the servers
   its own host gave it: vm-build writes and binds its resolv.conf when /run
   is its own. *)
THEOREM GuestsResolveApart == Spec => []ResolvesThroughItsOwn
<1>1. Inv => ResolvesThroughItsOwn
  BY DEF Inv
<1>2. QED
  BY <1>1, AlwaysInv, PTL

(* However many guests share the rootfs, none writes to it: vm-build mounts
   its storage, /run and tmp before the first command that writes there. *)
THEOREM SharedRootfsStaysClean == Spec => []RootfsStaysClean
<1>1. Inv => RootfsStaysClean
  BY DEF Inv
<1>2. QED
  BY <1>1, AlwaysInv, PTL

-----------------------------------------------------------------------------
(***************************************************************************)
(* A build is a call of a VmRunner.  The variables of the contract:        *)
(***************************************************************************)
Phases == [b \in Build |-> Phase(b)]

Ends == [b \in Build |-> Ending(b)]

Answers == [b \in Build |-> IF pc[b] = "killed" THEN None ELSE result[b]]

(* A step that leaves the other builds where they are sets one entry of each. *)
LEMMA OneCall ==
  ASSUME NEW b \in Build,
         \A c \in Build \ {b} : pc'[c] = pc[c] /\ code'[c] = code[c] /\ result'[c] = result[c]
  PROVE  /\ Phases' = [Phases EXCEPT ![b] = Phase(b)']
         /\ Ends' = [Ends EXCEPT ![b] = Ending(b)']
         /\ Answers' = [Answers EXCEPT ![b] = IF pc'[b] = "killed" THEN None ELSE result'[b]]
         /\ Phase(b)' = Phase(b) => Phases' = Phases
         /\ Ending(b)' = Ending(b) => Ends' = Ends
         /\ result'[b] = result[b] /\ pc[b] # "killed" /\ pc'[b] # "killed" => Answers' = Answers
         /\ Phases[b] = Phase(b) /\ Ends[b] = Ending(b)
<1>1. ASSUME NEW c \in Build \ {b} PROVE Phase(c)' = Phase(c) /\ Ending(c)' = Ending(c)
  BY <1>1 DEF Phase, Ending
<1>2. QED
  BY <1>1 DEF Phases, Ends, Answers

(* Every error ahead of the runner is a refusal. *)
LEMMA PrepareRefuses ==
  ASSUME NEW b \in Build, Prepare(b), Types, pc'[b] = "drop"
  PROVE  result'[b] \in {"Io", "Path", "Rootfs", "Unsupported", "MultiThreaded"}
  BY DEF Prepare, TempDir, Generate, CheckRootfs, WriteContainerfile, Canonicalize, OutputDir,
     To, Fails, Returns, Types

LEMMA PrepareRefines ==
  ASSUME Inv, NEW b \in Build, Prepare(b)
  PROVE  Contract!Next \/ UNCHANGED <<Phases, Ends, Answers>>
<1> USE DEF Inv
<1>1. /\ pc[b] \in Before /\ code' = code /\ code[b] = None /\ result[b] = None
      /\ \A c \in Build \ {b} : pc'[c] = pc[c] /\ code'[c] = code[c] /\ result'[c] = result[c]
      /\ (pc'[b] \in Before /\ result'[b] = None) \/ pc'[b] = "drop"
  BY PrepareMoves DEF HostAndGuest, guestVars
<1>2. Phase(b) = "called" /\ Ending(b) = None /\ Ending(b)' = None
  BY <1>1 DEF Phase, Ending, Before
<1>3. CASE pc'[b] \in Before /\ result'[b] = None
  <2>1. Phase(b)' = "called" /\ pc'[b] # "killed" /\ pc[b] # "killed"
    BY <1>1, <1>3 DEF Phase, Before
  <2>2. QED
    BY <1>1, <1>2, <1>3, <2>1, OneCall
<1>4. CASE pc'[b] = "drop"
  <2>1. Phase(b)' = "returned"
    BY <1>4 DEF Phase
  <2>2. /\ Phases[b] = "called" /\ Phases' = [Phases EXCEPT ![b] = "returned"] /\ Ends' = Ends
        /\ Answers' = [Answers EXCEPT ![b] = result'[b]]
    BY <1>1, <1>2, <1>4, <2>1, OneCall
  <2>3. Contract!Refuse(b)
    BY <1>4, <2>2, PrepareRefuses DEF Contract!Refuse, Contract!Goto, Phases, Ends, Answers
  <2>4. QED
    BY <2>3 DEF Contract!Next
<1>5. QED
  BY <1>1, <1>3, <1>4

(* The runner starts the guest, has a child that cannot set it up, or refuses. *)
LEMMA RunVmRefines ==
  ASSUME Inv, NEW b \in Build, RunVm(b)
  PROVE  Contract!Next
<1> USE DEF Inv
<1>1. /\ pc[b] = "run_vm" /\ code[b] = None /\ result[b] = None
      /\ \A c \in Build \ {b} : pc'[c] = pc[c] /\ code'[c] = code[c] /\ result'[c] = result[c]
      /\ \/ pc'[b] = "wait" /\ result'[b] = None /\ code'[b] \in {None, 119}
         \/ /\ pc'[b] = "drop" /\ code'[b] = None
            /\ result'[b] \in {"Unsupported", "MultiThreaded", "Path", "Io"}
  BY DEF RunVm, To, Fails, Returns, Types, HostAndGuest, Before
<1>2. Phase(b) = "called" /\ Ending(b) = None
  BY <1>1 DEF Phase, Ending
<1>3. CASE pc'[b] = "wait" /\ code'[b] = None /\ result'[b] = None
  <2>1. Phase(b)' = "running" /\ Ending(b)' = None
    BY <1>3 DEF Phase, Ending
  <2>2. /\ Phases[b] = "called" /\ Phases' = [Phases EXCEPT ![b] = "running"]
        /\ Ends' = Ends /\ Answers' = Answers
    BY <1>1, <1>2, <1>3, <2>1, OneCall
  <2>3. Contract!Begin(b)
    BY <2>2 DEF Contract!Begin, Contract!Goto, Phases, Ends, Answers
  <2>4. QED
    BY <2>3 DEF Contract!Next
<1>4. CASE pc'[b] = "wait" /\ code'[b] = 119 /\ code'[b] # None /\ result'[b] = None
  <2>1. Phase(b)' = "over" /\ Ending(b)' = "Krun"
    BY <1>4 DEF Phase, Ending
  <2>2. /\ Phases[b] = "called" /\ Phases' = [Phases EXCEPT ![b] = "over"]
        /\ Ends' = [Ends EXCEPT ![b] = "Krun"] /\ Answers' = Answers
    BY <1>1, <1>2, <1>4, <2>1, OneCall
  <2>3. Contract!End(b)
    BY <2>2 DEF Contract!End, Contract!Goto, Phases, Ends, Answers
  <2>4. QED
    BY <2>3 DEF Contract!Next
<1>5. CASE /\ pc'[b] = "drop" /\ code'[b] = None
           /\ result'[b] \in {"Unsupported", "MultiThreaded", "Path", "Io"}
  <2>1. Phase(b)' = "returned" /\ Ending(b)' = None
    BY <1>5 DEF Phase, Ending
  <2>2. /\ Phases[b] = "called" /\ Phases' = [Phases EXCEPT ![b] = "returned"] /\ Ends' = Ends
        /\ Answers' = [Answers EXCEPT ![b] = result'[b]]
    BY <1>1, <1>2, <1>5, <2>1, OneCall
  <2>3. Contract!Refuse(b)
    BY <1>5, <2>2 DEF Contract!Refuse, Contract!Goto, Phases, Ends, Answers
  <2>4. QED
    BY <2>3 DEF Contract!Next
<1>6. QED
  BY <1>1, <1>3, <1>4, <1>5, NoneIsNoResult

(* The host answers for a guest that has left its code. *)
LEMMA WaitVmRefines ==
  ASSUME Inv, NEW b \in Build, WaitVm(b)
  PROVE  Contract!Next
<1> USE DEF Inv
<1>1. /\ pc[b] = "wait" /\ code[b] # None /\ code' = code /\ pc'[b] = "drop"
      /\ \A c \in Build \ {b} : pc'[c] = pc[c] /\ code'[c] = code[c] /\ result'[c] = result[c]
  BY DEF WaitVm, To, Fails, Returns, Types, guestVars
<1>2. Phase(b) = "over" /\ Phase(b)' = "returned" /\ Ending(b)' = Ending(b)
  BY <1>1 DEF Phase, Ending
<1>3. result'[b] \in {Ending(b), "Io"}
  BY <1>1 DEF WaitVm, Fails, Returns, Types, Ending
<1>4. Contract!Answer(b)
  BY <1>1, <1>2, <1>3, OneCall DEF Contract!Answer, Contract!Goto, Phases, Ends, Answers
<1>5. QED
  BY <1>4 DEF Contract!Next

(* Dropping the context is no concern of the runner; a kill abandons the call. *)
LEMMA LastRefines ==
  ASSUME Inv, NEW b \in Build, DropContext(b) \/ Kill(b)
  PROVE  Contract!Next \/ UNCHANGED <<Phases, Ends, Answers>>
<1> USE DEF Inv
<1>1. /\ code' = code /\ result' = result
      /\ \A c \in Build \ {b} : pc'[c] = pc[c] /\ code'[c] = code[c] /\ result'[c] = result[c]
  BY DEF DropContext, Kill, To, Types, guestVars
<1>2. CASE DropContext(b)
  <2>1. pc[b] = "drop" /\ pc'[b] \in {"ok", "failed"}
    BY <1>2 DEF DropContext, To, Types
  <2>2. Phase(b)' = Phase(b) /\ Ending(b)' = Ending(b)
    BY <1>1, <2>1 DEF Phase, Ending
  <2>3. QED
    BY <1>1, <2>1, <2>2, OneCall DEF Phases, Ends, Answers
<1>3. CASE Kill(b)
  <2>1. pc[b] # "killed" /\ pc'[b] = "killed"
    BY <1>3 DEF Kill, To, Types
  <2>2. Phase(b)' = "abandoned" /\ Phase(b) # "abandoned" /\ Ending(b)' = None
    BY <2>1 DEF Phase, Ending
  <2>3. Contract!Abandon(b)
    BY <1>1, <2>1, <2>2, OneCall DEF Contract!Abandon, Contract!Goto, Phases, Ends, Answers
  <2>4. QED
    BY <2>3 DEF Contract!Next
<1>4. QED
  BY <1>2, <1>3

(* The guest goes on, ends, or has nobody any more who waits for it. *)
LEMMA GuestRefines ==
  ASSUME Inv, NEW b \in Build, GuestStep(b)
  PROVE  Contract!Next \/ UNCHANGED <<Phases, Ends, Answers>>
<1> USE DEF Inv
<1>1. /\ pc' = pc /\ result' = result /\ pc[b] \in {"wait", "killed"} /\ code[b] = None
      /\ \A c \in Build \ {b} : pc'[c] = pc[c] /\ code'[c] = code[c] /\ result'[c] = result[c]
      /\ code'[b] = None \/ code'[b] \in {0, 1}
  BY GuestMoves DEF HostAndGuest, hostVars
<1>2. CASE pc[b] = "killed" \/ code'[b] = None
  <2>1. Phase(b)' = Phase(b) /\ Ending(b)' = Ending(b)
    BY <1>1, <1>2 DEF Phase, Ending
  <2>2. QED
    BY <1>1, <2>1, OneCall DEF Phases, Ends, Answers
<1>3. CASE pc[b] = "wait" /\ code'[b] \in {0, 1} /\ code'[b] # None
  <2>1. Phase(b) = "running" /\ Phase(b)' = "over" /\ Ending(b)' \in {"Ok", "Failed"}
    BY <1>1, <1>3 DEF Phase, Ending
  <2>2. Contract!End(b)
    BY <1>1, <1>3, <2>1, OneCall DEF Contract!End, Contract!Goto, Phases, Ends, Answers
  <2>3. QED
    BY <2>2 DEF Contract!Next
<1>4. QED
  BY <1>1, <1>2, <1>3, NoneIsNoResult

(* Any number of builds, each with the runner as VmBuild has it, keep the
   promise of the VmRunner trait, the one that KrunRunner::run is proved to
   keep as well: what build relies on is what the runner does. *)
THEOREM BuildsKeepThePromise == Spec => BuildImplementsRunner
<1>1. Init => Contract!Init
  <2> SUFFICES ASSUME Init PROVE Contract!Init
    OBVIOUS
  <2>1. ASSUME NEW b \in Build
        PROVE  pc[b] \in {"check_rootfs", "start"} /\ code[b] = None /\ result[b] = None
    BY DEF Init
  <2>2. ASSUME NEW b \in Build PROVE Phase(b) = "called" /\ Ending(b) = None
    BY <2>1 DEF Phase, Ending
  <2>3. QED
    BY <2>1, <2>2 DEF Contract!Init
<1>2. Inv /\ [Next]_vars => [Contract!Next]_<<Phases, Ends, Answers>>
  <2> SUFFICES ASSUME Inv, [Next]_vars PROVE Contract!Next \/ UNCHANGED <<Phases, Ends, Answers>>
    OBVIOUS
  <2>1. CASE UNCHANGED vars
    BY <2>1 DEF vars, hostVars, guestVars, Phases, Ends, Answers, Phase, Ending
  <2>2. ASSUME NEW b \in Build, HostStep(b)
        PROVE  Contract!Next \/ UNCHANGED <<Phases, Ends, Answers>>
    BY <2>2, PrepareRefines, RunVmRefines, WaitVmRefines, LastRefines DEF HostStep, Prepare
  <2>3. QED
    BY <2>1, <2>2, GuestRefines, LastRefines DEF Next, Ended
<1>3. QED
  BY <1>1, <1>2, AlwaysInv, PTL DEF Spec, BuildImplementsRunner, Contract!Spec, Phases, Ends, Answers
=============================================================================
