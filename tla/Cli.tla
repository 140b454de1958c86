-------------------------------- MODULE Cli --------------------------------
(***************************************************************************)
(* One invocation of openshell-build-image: src/main.rs, the generation of *)
(* the Containerfile in src/containerfile.rs, and the build of             *)
(* crates/container-image-builder.  The rootfs cache and the VM behind     *)
(* --runtime vm are modelled in RootfsCache, VmBuild and KrunRunner; here  *)
(* each is one call with its outcomes, but the output path is followed     *)
(* from the tag to the file.                                               *)
(*                                                                         *)
(* A tag, an image reference, a path and the Containerfile are sequences   *)
(* of symbols: a symbol stands for a character, or for text that no        *)
(* definition takes apart.                                                 *)
(***************************************************************************)
EXTENDS Naturals, Sequences, FiniteSets

Seqs == INSTANCE SequencesExt

CONSTANTS
  CommandLines,  \* the command lines to be considered
  Faults,        \* calls that may fail: "temp", "spawn", "build"
  None

(* The values of --runtime. *)
Runtime == {"podman", "docker", "container", "vm"}

ContainerCli(r) == IF r = "vm" THEN None ELSE r

Unsafe == {":", "/", "@"}
Blank == {" ", "newline", "control"}
Symbol == {"a", "b", ".", "-"} \cup Unsafe \cup Blank

(* The arguments; the --vm-* ones are None when they are not given. *)
Options ==
  [tag : Seq(Symbol), runtime : Runtime, from : Seq(Symbol), copy : BOOLEAN,
   rootfs : {None, "dir"}, output : Seq(Symbol) \cup {None}, cpus : 0..255 \cup {None},
   memory : Nat \cup {None}, dns : {None, "reachable", "unreachable"}]

ASSUME CommandLinesAreTyped == CommandLines \subseteq Options

ASSUME NoneIsNoValue ==
  None \notin Runtime \cup {"Path"} /\ None # 0 /\ None \notin Seq(Symbol \cup {".tar"})

Host ==
  [inPath : BOOLEAN,      \* the container CLI is in PATH
   supported : BOOLEAN,   \* KrunRunner.check_supported
   installs : BOOLEAN,    \* ensure_extracted succeeds
   rootfsOk : BOOLEAN]    \* check_rootfs of the directory that is used

VARIABLES
  pc,        \* where main is
  opt,       \* the command line
  host,      \* the host
  unpacked,  \* whether the embedded rootfs was made available
  selected,  \* what select_runtime has settled: Selected::Cli or Selected::Vm
  context,   \* the files of the build context, None when there is none
  text,      \* the generated Containerfile
  seen,      \* what the backend was given: Containerfile and context
  result,    \* Ok, or the error of the build
  product,   \* what was built: {"image"}, a tarball {<<directory, name>>}, or {}
  exit       \* the exit code, None while main runs

vars == <<pc, opt, host, unpacked, selected, context, text, seen, result, product, exit>>

Init ==
  /\ pc = "parse"
  /\ opt \in CommandLines /\ host \in Host
  /\ unpacked = FALSE /\ selected = None
  /\ context = None /\ text = None /\ seen = None
  /\ result = None /\ product = {} /\ exit = None

runVars == <<context, text, seen, result, product>>

To(l) == pc' = l /\ UNCHANGED <<opt, host, exit>>

Exit(c) == pc' = "exited" /\ exit' = c /\ UNCHANGED <<opt, host>>

(* Goes on when ok, else prints the error and exits. *)
Require(ok, l) == IF ok THEN To(l) ELSE Exit(1)

(***************************************************************************)
(* The command line                                                        *)
(***************************************************************************)

(* Mutant: only a blank is looked for. *)
ParseImageReferenceBlanks(s) == s # <<>> /\ \A i \in DOMAIN s : s[i] # " "

ParseImageReference(s) == s # <<>> /\ \A i \in DOMAIN s : s[i] \notin Blank

(* clap refuses an image reference that does not parse, no vCPUs and no
   memory before main looks at anything else. *)
Parse ==
  /\ pc = "parse"
  /\ IF ParseImageReference(opt.from) /\ opt.cpus # 0 /\ opt.memory # 0
       THEN To("check_vm_flags") ELSE Exit(2)
  /\ UNCHANGED <<unpacked, selected, runVars>>

VmFlagGiven == \E f \in {"rootfs", "output", "cpus", "memory", "dns"} : opt[f] # None

CheckVmFlags ==
  /\ pc = "check_vm_flags"
  /\ Require(opt.runtime = "vm" \/ ~VmFlagGiven, "select_runtime")
  /\ UNCHANGED <<unpacked, selected, runVars>>

(***************************************************************************)
(* select_runtime.  What the host is asked before anything is made:        *)
(* whether the container CLI is installed, whether libkrun runs here, and  *)
(* whether the directory that is to be the rootfs has the helper in it.    *)
(***************************************************************************)
CheckInPath == host.inPath

CheckSupported == host.supported

CheckRootfs == host.rootfsOk

(* Mutant: a host without libkrun is noticed when the VM is started. *)
SelectRuntimeUnchecked ==
  /\ pc = "select_runtime"
  /\ IF ContainerCli(opt.runtime) # None
       THEN /\ Require(CheckInPath, "run")
            /\ selected' = IF CheckInPath THEN [cli |-> ContainerCli(opt.runtime)] ELSE None
       ELSE To("vm_nameservers") /\ UNCHANGED selected
  /\ UNCHANGED <<unpacked, runVars>>

SelectRuntime ==
  /\ pc = "select_runtime"
  /\ IF ContainerCli(opt.runtime) # None
       THEN /\ Require(CheckInPath, "run")
            /\ selected' = IF CheckInPath THEN [cli |-> ContainerCli(opt.runtime)] ELSE None
       ELSE Require(CheckSupported, "vm_nameservers") /\ UNCHANGED selected
  /\ UNCHANGED <<unpacked, runVars>>

VmNameservers ==
  /\ pc = "vm_nameservers"
  /\ Require(opt.dns # "unreachable", "vm_config")
  /\ UNCHANGED <<unpacked, selected, runVars>>

DEFAULT_CPUS == 2

DEFAULT_MEMORY_MIB == 4096

Or(given, default) == IF given = None THEN default ELSE given

Config ==
  [rootfs |-> Or(opt.rootfs, "embedded"), cpus |-> Or(opt.cpus, DEFAULT_CPUS),
   memory_mib |-> Or(opt.memory, DEFAULT_MEMORY_MIB)]

VmConfig ==
  /\ pc = "vm_config"
  /\ IF opt.rootfs # None
       THEN To("select_vm") /\ UNCHANGED unpacked
       ELSE Require(host.installs, "select_vm") /\ unpacked' = host.installs
  /\ UNCHANGED <<selected, runVars>>

(* Mutant: the tag is taken as it is. *)
VmOutputPathOfTag(tag) == tag \o <<".tar">>

(* vm_output_path: the default name of the tarball. *)
VmOutputPath(tag) ==
  [i \in DOMAIN tag |-> IF tag[i] \in {"a", "b", ".", "-"} THEN tag[i] ELSE "-"] \o <<".tar">>

SelectVm ==
  /\ pc = "select_vm"
  /\ Require(CheckRootfs, "run")
  /\ selected' = IF CheckRootfs
                   THEN [config |-> Config, output |-> Or(opt.output, VmOutputPath(opt.tag))]
                   ELSE None
  /\ UNCHANGED <<unpacked, runVars>>

(***************************************************************************)
(* run                                                                     *)
(***************************************************************************)

(* Which of the two kinds of backend it was given. *)
IsCli(backend) == "cli" \in DOMAIN backend

TempDir ==
  /\ pc = "run"
  /\ \/ To("generate") /\ context' = {} /\ UNCHANGED result
     \/ "temp" \in Faults /\ To("return") /\ result' = "Io" /\ UNCHANGED context
  /\ UNCHANGED <<unpacked, selected, text, seen, product>>

FinalStage(copy) ==
  <<"FROM", " ", "system", " ", "AS", " ", "final", "newline">>
    \o IF copy THEN <<"COPY", " ", "build-containerfile", "newline", "RUN", " ", "cp", "newline">>
       ELSE <<>>

Generate(from, copy) ==
  <<"FROM", " ">> \o from \o <<" ", "AS", " ", "system", "newline", "USER", " ", "0", "newline">>
    \o FinalStage(copy)

(* Mutant: the copy is left to the container build. *)
GenerateTextOnly ==
  /\ pc = "generate"
  /\ To("backend") /\ text' = Generate(opt.from, opt.copy)
  /\ UNCHANGED <<unpacked, selected, context, seen, result, product>>

(* The Containerfile, and its copy in the context for --copy-containerfile. *)
GenerateStep ==
  /\ pc = "generate"
  /\ text' = Generate(opt.from, opt.copy)
  /\ \/ /\ To("backend") /\ UNCHANGED result
        /\ context' = IF opt.copy THEN {"build-containerfile"} ELSE {}
     \/ "temp" \in Faults /\ opt.copy /\ To("return") /\ result' = "Io" /\ UNCHANGED context
  /\ UNCHANGED <<unpacked, selected, seen, product>>

(* The container build keeps its Containerfile in a file of its own. *)
NamedTempFile ==
  /\ pc = "backend" /\ IsCli(selected)
  /\ \/ To("spawn") /\ UNCHANGED result
     \/ "temp" \in Faults /\ To("return") /\ result' = "Io"
  /\ UNCHANGED <<unpacked, selected, context, text, seen, product>>

(* Mutant: a status without a code counts as zero. *)
BuildResultOfCode(status) == IF status \in {0, None} THEN "Ok" ELSE "Failed"

(* The result of a status, whose code is None after a signal. *)
BuildResult(status) == IF status = 0 THEN "Ok" ELSE "Failed"

(* The container CLI runs and ends well, or with an error, a signal or a status
   that cannot be had, and then it may have committed its image before; or it
   cannot be run although it was in PATH. *)
Spawn ==
  /\ pc = "spawn"
  /\ To("return")
  /\ \/ /\ seen' = [text |-> text, context |-> context]
        /\ \/ result' = BuildResult(0) /\ product' = {"image"}
           \/ /\ "build" \in Faults
              /\ result' \in {BuildResult(1), BuildResult(None), "Io"}
              /\ product' \in {product, {"image"}}
     \/ "spawn" \in Faults /\ result' = "Io" /\ UNCHANGED <<seen, product>>
  /\ UNCHANGED <<unpacked, selected, context, text>>

(***************************************************************************)
(* Paths, as std::path takes them apart: the root and the components       *)
(* between separators, and no file name when the last one is no name.      *)
(* Spans: where the components are, by their first and last symbol; what   *)
(* is empty or a single dot between two separators is none.                *)
(***************************************************************************)
Spans(p) ==
  LET Splits(i) == i \in {0, Len(p) + 1} \/ p[i] = "/"
  IN {s \in (DOMAIN p) \X (DOMAIN p) :
        /\ s[1] <= s[2] /\ Splits(s[1] - 1) /\ Splits(s[2] + 1)
        /\ \A i \in s[1]..s[2] : p[i] # "/"
        /\ SubSeq(p, s[1], s[2]) # <<".">>}

Nth(spans, n) == CHOOSE s \in spans : Cardinality({t \in spans : t[1] < s[1]}) = n - 1

Components(p) ==
  LET Part(s) == SubSeq(p, s[1], s[2])
      Root == IF p # <<>> /\ p[1] = "/" THEN <<<<"/">>>> ELSE <<>>
  IN Root \o [n \in 1..Cardinality(Spans(p)) |-> Part(Nth(Spans(p), n))]

FileName(p) ==
  LET c == Components(p)
  IN IF c = <<>> \/ Seqs!Last(c) \in {<<".", ".">>, <<"/">>} THEN None ELSE Seqs!Last(c)

Parent(p) == Seqs!Front(Components(p))

Tarball(p) == {<<Parent(p), FileName(p)>>}

(* The VM build adds its Containerfile to the context, refuses an output path
   without a name, and has the guest write to the name in the directory.  A
   build that fails may have failed after the whole tarball was written. *)
VmBuild ==
  /\ pc = "backend" /\ ~IsCli(selected)
  /\ To("return")
  /\ \/ "temp" \in Faults /\ result' = "Io" /\ UNCHANGED <<context, seen, product>>
     \/ /\ context' = context \cup {"Containerfile"}
        /\ FileName(selected.output) = None
        /\ result' = "Path" /\ UNCHANGED <<seen, product>>
     \/ /\ context' = context \cup {"Containerfile"}
        /\ FileName(selected.output) # None
        /\ seen' = [text |-> text, context |-> context']
        /\ \/ result' = "Ok" /\ product' = Tarball(selected.output)
           \/ /\ "build" \in Faults /\ result' \in {"Failed", "Io"}
              /\ product' \in {product, Tarball(selected.output)}
  /\ UNCHANGED <<unpacked, selected, text>>

(* run returns, dropping what it made, and main exits with the result. *)
Return ==
  /\ pc = "return"
  /\ context' = None
  /\ Exit(IF result = "Ok" THEN 0 ELSE 1)
  /\ UNCHANGED <<unpacked, selected, text, seen, result, product>>

Done == pc = "exited" /\ UNCHANGED vars

Next ==
  \/ Parse \/ CheckVmFlags \/ SelectRuntime \/ VmNameservers \/ VmConfig \/ SelectVm
  \/ TempDir \/ GenerateStep \/ NamedTempFile \/ Spawn \/ VmBuild \/ Return \/ Done

Spec == Init /\ [][Next]_vars

-----------------------------------------------------------------------------
(* Nothing is unpacked or staged for a build that clap, check_vm_flags or
   select_runtime refuses, whichever check it is: each backend validates what it
   needs there, and the cheap checks of --runtime vm come before the extraction
   of the embedded rootfs.  One thing of the command line is refused later, by
   build, a --vm-output without a file name: the context is staged by then, and
   the embedded rootfs may have been unpacked, but no backend was started. *)
OnlyTheOutputNameIsLate ==
  /\ unpacked \/ context # None =>
       ParseImageReference(opt.from) /\ opt.cpus # 0 /\ opt.memory # 0
  /\ unpacked => /\ opt.runtime = "vm" /\ host.supported
                 /\ opt.dns # "unreachable" /\ opt.rootfs = None
  /\ context # None => IF opt.runtime = "vm"
                         THEN host.supported /\ host.rootfsOk /\ opt.dns # "unreachable"
                         ELSE host.inPath /\ ~VmFlagGiven
  /\ result = "Path" => /\ opt.output # None /\ FileName(opt.output) = None
                        /\ seen = None /\ product = {}

(* The lines of a text and the words of its first line, as a builder reads
   them: a line break ends an instruction, blanks end a word. *)
Breaks(t) == {i \in DOMAIN t : t[i] = "newline"}

WordsOfFirstLine(t) ==
  {i \in DOMAIN t : /\ t[i] \notin Blank /\ (i = 1 \/ t[i - 1] \in Blank)
                    /\ \A b \in Breaks(t) : i < b}

(* Whatever image reference is accepted, the generated Containerfile has the
   instructions that were meant, and its first one is FROM with one image. *)
FromIsOneInstruction ==
  text # None =>
    /\ Cardinality(Breaks(text)) = Cardinality(Breaks(Generate(<<"a">>, opt.copy)))
    /\ Cardinality(WordsOfFirstLine(text)) = 4

(* A backend that is told to copy build-containerfile finds it in its
   context, and only then. *)
CopyFindsItsFile ==
  seen # None =>
    ((\E i \in DOMAIN seen.text : seen.text[i] = "build-containerfile")
        <=> "build-containerfile" \in seen.context)

(* Exit code zero means that there is an image or a tarball, also when the
   container CLI is killed by a signal and has no exit code.  The converse does
   not hold: the last steps of a build can fail after its product is there. *)
ExitZeroMeansBuilt == exit = 0 => product # {}

(* Without --vm-output the tarball is a file of the current directory (README,
   Options), whatever the tag is, and its name is never what stops a build. *)
DefaultIsInCurrentDirectory ==
  opt.output = None /\ opt.runtime = "vm" =>
    result # "Path" /\ (exit = 0 => \A f \in product : f[1] = <<>>)
=============================================================================
