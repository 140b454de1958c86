----------------------------- MODULE CliProofs -----------------------------
(***************************************************************************)
(* Proofs about Cli, for every command line and every host: the order of   *)
(* the checks, what the generated Containerfile says for every image       *)
(* reference that is accepted, and what the exit code means.               *)
(***************************************************************************)
EXTENDS Cli, FiniteSetTheorems, FunctionTheorems, SequenceTheorems, TLAPS

(***************************************************************************)
(* The inductive invariant, in parts.                                      *)
(***************************************************************************)
Running == {"run", "generate", "backend", "spawn", "return"}

Output == Or(opt.output, VmOutputPath(opt.tag))

(* What holds once select_runtime has succeeded. *)
Settled ==
  IF opt.runtime = "vm"
    THEN /\ host.supported /\ host.rootfsOk /\ opt.dns # "unreachable"
         /\ selected = [config |-> Config, output |-> Output]
    ELSE host.inPath /\ ~VmFlagGiven /\ selected = [cli |-> opt.runtime]

(* Each check has been passed by the time of what follows it. *)
Checked ==
  /\ opt \in Options
  /\ pc \notin {"parse", "exited"} \/ unpacked =>
       ParseImageReference(opt.from) /\ opt.cpus # 0 /\ opt.memory # 0
  /\ pc \notin {"parse", "check_vm_flags", "exited"} => opt.runtime = "vm" \/ ~VmFlagGiven
  /\ pc \in {"vm_nameservers", "vm_config", "select_vm"} => opt.runtime = "vm" /\ host.supported
  /\ pc \in {"vm_config", "select_vm"} => opt.dns # "unreachable"
  /\ pc \in Running => Settled
  /\ pc = "spawn" => opt.runtime # "vm"
  /\ unpacked => /\ opt.runtime = "vm" /\ host.supported
                 /\ opt.dns # "unreachable" /\ opt.rootfs = None

Copied == IF opt.copy THEN {"build-containerfile"} ELSE {}

(* The context exists during run only, and what a backend gets agrees with the
   Containerfile. *)
Staged ==
  /\ context # None => pc \in Running
  /\ pc = "generate" => context = {}
  /\ pc \in {"backend", "spawn"} => text = Generate(opt.from, opt.copy) /\ context = Copied
  /\ text # None => text = Generate(opt.from, opt.copy) /\ ParseImageReference(opt.from)
  /\ seen # None => /\ seen.text = Generate(opt.from, opt.copy)
                    /\ "build-containerfile" \in seen.context <=> opt.copy

(* What was built, and what is said of it. *)
Told ==
  /\ pc # "exited" => exit = None
  /\ pc \notin {"return", "exited"} => product = {} /\ result = None
  /\ (pc = "return" /\ result = "Ok") \/ exit = 0 => product # {}
  /\ pc \notin {"return", "exited"} => seen = None
  /\ opt.runtime = "vm" => product \in {{}, Tarball(Output)}
  /\ result = "Path" => FileName(Output) = None /\ seen = None /\ product = {}

Inv == Checked /\ Staged /\ Told

(* Init establishes Inv. *)
LEMMA InitInv == Init => Inv
  BY CommandLinesAreTyped, NoneIsNoValue DEF Init, Inv, Checked, Running, Staged, Told

(* The command line and the host stay as they are. *)
LEMMA Fixed == Next => opt' = opt /\ host' = host
  BY DEF Next, Parse, CheckVmFlags, SelectRuntime, VmNameservers, VmConfig, SelectVm, TempDir,
     GenerateStep, NamedTempFile, Spawn, VmBuild, Return, Done, Require, To, Exit, vars

(* run is given a container CLI for every runtime but the VM. *)
LEMMA Backends ==
  ASSUME Settled
  PROVE  /\ IsCli(selected) <=> opt.runtime # "vm"
         /\ opt.runtime = "vm" => selected.output = Output
  BY DEF Settled, IsCli

(* Each step of main preserves the parts of Inv. *)
LEMMA CheckedInv == Inv /\ Next => Checked'
<1> SUFFICES ASSUME Inv, Next
             PROVE  Checked'
  OBVIOUS
<1> USE DEF Inv, Checked, Running
<1>0. opt' = opt /\ host' = host
  BY Fixed
<1>1. CASE Parse
  BY <1>0, <1>1 DEF Parse, To, Exit, VmFlagGiven
<1>2. CASE CheckVmFlags
  BY <1>0, <1>2 DEF CheckVmFlags, Require, To, Exit, VmFlagGiven
<1>3. CASE SelectRuntime
  <2>1. opt.runtime \in Runtime
    BY DEF Options
  <2>2. CASE opt.runtime = "vm"
    BY <1>0, <1>3, <2>2 DEF SelectRuntime, ContainerCli, CheckSupported, Require, To, Exit, VmFlagGiven
  <2>3. CASE opt.runtime # "vm"
    BY <1>0, <1>3, <2>1, <2>3, NoneIsNoValue
       DEF SelectRuntime, ContainerCli, CheckInPath, Require, To, Exit, VmFlagGiven, Settled
  <2>4. QED
    BY <2>2, <2>3
<1>4. CASE VmNameservers
  BY <1>0, <1>4 DEF VmNameservers, Require, To, Exit, VmFlagGiven
<1>5. CASE VmConfig
  BY <1>0, <1>5 DEF VmConfig, Require, To, Exit, VmFlagGiven
<1>6. CASE SelectVm
  BY <1>0, <1>6 DEF SelectVm, CheckRootfs, Require, To, Exit, VmFlagGiven, Settled, Config, Output
<1>7. CASE TempDir \/ GenerateStep \/ NamedTempFile \/ Spawn \/ VmBuild
  <2>1. pc \in Running /\ pc' \in Running /\ UNCHANGED <<selected, unpacked>>
    BY <1>7 DEF TempDir, GenerateStep, NamedTempFile, Spawn, VmBuild, To
  <2>2. pc' = "spawn" => IsCli(selected)
    BY <1>7 DEF TempDir, GenerateStep, NamedTempFile, Spawn, VmBuild, To
  <2>3. pc' = "spawn" => opt.runtime # "vm"
    BY <2>1, <2>2, Backends
  <2>4. QED
    BY <1>0, <2>1, <2>3 DEF VmFlagGiven, Settled, Config, Output
<1>8. CASE Return
  BY <1>0, <1>8 DEF Return, Exit, VmFlagGiven
<1>9. CASE Done
  BY <1>9 DEF Done, vars, VmFlagGiven, Settled, Config, Output
<1>10. QED
  BY <1>1, <1>2, <1>3, <1>4, <1>5, <1>6, <1>7, <1>8, <1>9 DEF Next

(* The checks that main makes before it calls run. *)
Validation == Parse \/ CheckVmFlags \/ SelectRuntime \/ VmNameservers \/ VmConfig \/ SelectVm

(* The steps before run touch nothing that run works with. *)
LEMMA BeforeRun ==
  ASSUME Inv, Validation
  PROVE  /\ UNCHANGED runVars
         /\ pc \notin Running \cup {"exited"}
         /\ \/ pc' = "exited" /\ exit' \in {1, 2}
            \/ pc' \notin (Running \ {"run"}) \cup {"exited"} /\ exit' = exit
  BY DEF Validation, Parse, CheckVmFlags, SelectRuntime, VmNameservers, VmConfig, SelectVm,
     Require, To, Exit, Running

(* The context and the Containerfile stay in step. *)
LEMMA StagedInv == Inv /\ Next => Staged'
<1> SUFFICES ASSUME Inv, Next
             PROVE  Staged'
  OBVIOUS
<1>0. opt' = opt /\ host' = host
  BY Fixed
<1>1. CASE Validation
  BY <1>0, <1>1, BeforeRun DEF Inv, Staged, Running, runVars
<1> USE DEF Inv, Staged, Running
<1>2. CASE TempDir
  BY <1>0, <1>2 DEF TempDir, To
<1>3. CASE GenerateStep
  <2>1. ParseImageReference(opt.from)
    BY <1>3 DEF Checked, GenerateStep
  <2>2. QED
    BY <1>0, <1>3, <2>1 DEF GenerateStep, To, Copied
<1>4. CASE NamedTempFile
  BY <1>0, <1>4 DEF NamedTempFile, To, Copied
<1>5. CASE Spawn
  <2>1. pc' = "return" /\ pc = "spawn" /\ UNCHANGED <<context, text>>
    BY <1>5 DEF Spawn, To
  <2>2. seen' = seen \/ seen' = [text |-> text, context |-> context]
    BY <1>5 DEF Spawn
  <2>3. QED
    BY <1>0, <2>1, <2>2 DEF Copied
<1>6. CASE VmBuild
  <2>1. /\ pc' = "return" /\ pc = "backend" /\ UNCHANGED text
        /\ context' \in {context, context \cup {"Containerfile"}}
    BY <1>6 DEF VmBuild, To
  <2>2. seen' = seen \/ seen' = [text |-> text, context |-> context']
    BY <1>6 DEF VmBuild
  <2>3. QED
    BY <1>0, <2>1, <2>2 DEF Copied
<1>7. CASE Return
  BY <1>0, <1>7 DEF Return, Exit
<1>8. CASE Done
  BY <1>8 DEF Done, vars, Copied
<1>9. QED
  BY <1>1, <1>2, <1>3, <1>4, <1>5, <1>6, <1>7, <1>8 DEF Next, Validation

(* What was built and why a build was refused stays true to the end. *)
LEMMA ToldInv == Inv /\ Next => Told'
<1> SUFFICES ASSUME Inv, Next
             PROVE  Told'
  OBVIOUS
<1>0. opt' = opt /\ Output' = Output
  BY Fixed DEF Output
<1>1. CASE Validation
  BY <1>0, <1>1, BeforeRun DEF Inv, Told, Running, runVars
<1> USE DEF Inv, Told
<1>2. CASE TempDir \/ GenerateStep \/ NamedTempFile
  <2>1. /\ pc \in {"run", "generate", "backend"} /\ pc' \in {"generate", "backend", "spawn", "return"}
        /\ UNCHANGED <<product, seen, exit>>
        /\ \/ result' = "Io" /\ pc' = "return"
           \/ pc' # "return" /\ result' = result
    BY <1>2 DEF TempDir, GenerateStep, NamedTempFile, To
  <2>2. QED
    BY <1>0, <2>1
<1>3. CASE Spawn
  <2>1. pc' = "return" /\ pc = "spawn" /\ exit' = exit
    BY <1>3 DEF Spawn, To
  <2>2. opt.runtime # "vm"
    BY <2>1 DEF Checked
  <2>3. result' \in {"Ok", "Failed", "Io"} /\ (result' = "Ok" => product' # {})
    BY <1>3, NoneIsNoValue DEF Spawn, BuildResult
  <2>4. QED
    BY <1>0, <2>1, <2>2, <2>3
<1>4. CASE VmBuild
  <2>1. pc' = "return" /\ pc = "backend" /\ exit' = exit /\ ~IsCli(selected)
    BY <1>4 DEF VmBuild, To
  <2>2. opt.runtime = "vm" /\ selected.output = Output
    BY <2>1, Backends DEF Checked, Running
  <2>3. \/ result' = "Io" /\ product' = product /\ seen' = seen
        \/ result' = "Path" /\ FileName(Output) = None /\ product' = product /\ seen' = seen
        \/ result' = "Ok" /\ product' = Tarball(Output)
        \/ result' \in {"Failed", "Io"} /\ product' \in {product, Tarball(Output)}
    BY <1>4, <2>2 DEF VmBuild
  <2>4. Tarball(Output) # {}
    BY DEF Tarball
  <2>5. QED
    BY <1>0, <2>1, <2>2, <2>3, <2>4
<1>5. CASE Return
  <2>1. pc' = "exited" /\ pc = "return" /\ UNCHANGED <<product, seen, result>>
    BY <1>5 DEF Return, Exit
  <2>2. exit' = IF result = "Ok" THEN 0 ELSE 1
    BY <1>5 DEF Return, Exit
  <2>3. QED
    BY <1>0, <2>1, <2>2
<1>6. CASE Done
  BY <1>0, <1>6 DEF Done, vars
<1>7. QED
  BY <1>1, <1>2, <1>3, <1>4, <1>5, <1>6 DEF Next, Validation

(* Inv is an invariant of the specification. *)
LEMMA Invariance == Spec => []Inv
<1>1. Inv /\ UNCHANGED vars => Inv'
  BY DEF Inv, Checked, Settled, Config, Output, VmFlagGiven, Staged, Copied, Told, Tarball, vars
<1>2. Inv /\ [Next]_vars => Inv'
  BY <1>1, CheckedInv, StagedInv, ToldInv DEF Inv
<1>3. QED
  BY InitInv, <1>2, PTL DEF Spec

-----------------------------------------------------------------------------
(* Exit code zero means that something was built, on every path through run and
   however the container CLI ends. *)
THEOREM SuccessIsTrue == Spec => []ExitZeroMeansBuilt
<1>1. Inv => ExitZeroMeansBuilt
  BY DEF Inv, Told, ExitZeroMeansBuilt
<1>2. QED
  BY Invariance, <1>1, PTL

-----------------------------------------------------------------------------
(***************************************************************************)
(* The default path of the tarball.                                        *)
(***************************************************************************)

(* A path without a separator is one component. *)
LEMMA OneSpan ==
  ASSUME NEW S, NEW p \in Seq(S), p # <<>>, p # <<".">>, \A i \in DOMAIN p : p[i] # "/"
  PROVE  Spans(p) = {<<1, Len(p)>>}
<1>1. DOMAIN p = 1..Len(p) /\ Len(p) \in Nat \ {0}
  OBVIOUS
<1>2. ASSUME NEW s \in Spans(p) PROVE s = <<1, Len(p)>>
  <2>1. s = <<s[1], s[2]>> /\ s[1] \in 1..Len(p) /\ s[2] \in 1..Len(p)
    BY <1>1 DEF Spans
  <2>2. s[1] - 1 \in {0, Len(p) + 1} \/ p[s[1] - 1] = "/"
    BY DEF Spans
  <2>3. s[2] + 1 \in {0, Len(p) + 1} \/ p[s[2] + 1] = "/"
    BY DEF Spans
  <2>4. QED
    BY <1>1, <2>1, <2>2, <2>3
<1>3. <<1, Len(p)>> \in Spans(p)
  <2>1. SubSeq(p, 1, Len(p)) # <<".">>
    BY SubSeqFull
  <2>2. <<1, Len(p)>> \in (DOMAIN p) \X (DOMAIN p) /\ \A i \in 1..Len(p) : p[i] # "/"
    BY <1>1
  <2>3. 1 - 1 \in {0, Len(p) + 1} /\ Len(p) + 1 \in {0, Len(p) + 1} /\ 1 <= Len(p)
    BY <1>1
  <2>4. QED
    BY <2>1, <2>2, <2>3 DEF Spans
<1>4. QED
  BY <1>2, <1>3

(* It is a file of that name in the current directory, unless it is `..`. *)
LEMMA NameInCurrentDirectory ==
  ASSUME NEW S, NEW p \in Seq(S), p \notin {<<>>, <<".">>, <<".", ".">>},
         \A i \in DOMAIN p : p[i] # "/"
  PROVE  Parent(p) = <<>> /\ FileName(p) = p
<1>1. Spans(p) = {<<1, Len(p)>>}
  BY OneSpan
<1>2. Cardinality(Spans(p)) = 1
  BY <1>1, FS_Singleton
<1>3. {t \in Spans(p) : t[1] < 1} = {}
  BY <1>1
<1>4. Nth(Spans(p), 1) = <<1, Len(p)>>
  <2>1. \A s \in Spans(p) : s = <<1, Len(p)>> /\ s[1] = 1
    BY <1>1
  <2>2. \A s \in Spans(p) : Cardinality({t \in Spans(p) : t[1] < s[1]}) = 1 - 1
    <3>1. \A s \in Spans(p) : {t \in Spans(p) : t[1] < s[1]} = {}
      BY <1>3, <2>1
    <3>2. Cardinality({}) = 1 - 1
      BY FS_EmptySet
    <3>3. QED
      BY <3>1, <3>2, Zenon
  <2>3. PICK s \in Spans(p) : TRUE
    BY <1>1
  <2>4. Nth(Spans(p), 1) \in Spans(p)
    BY <2>2, <2>3 DEF Nth
  <2>5. QED
    BY <2>1, <2>4
<1>5. SubSeq(p, 1, Len(p)) = p
  BY SubSeqFull
<1>6. p[1] # "/"
  OBVIOUS
<1>7. Components(p) = <<p>>
  <2> DEFINE parts == [n \in 1..Cardinality(Spans(p)) |->
                         SubSeq(p, Nth(Spans(p), n)[1], Nth(Spans(p), n)[2])]
  <2>1. Components(p) = <<>> \o parts
    BY <1>6 DEF Components
  <2>2. parts = [n \in 1..1 |-> p]
    BY <1>2, <1>4, <1>5
  <2>3. [n \in 1..1 |-> p] = <<p>> /\ <<p>> \in Seq({p})
    OBVIOUS
  <2> HIDE DEF parts
  <2>4. QED
    BY <2>1, <2>2, <2>3
<1>8. Seqs!Last(<<p>>) = p /\ Seqs!Front(<<p>>) = <<>>
  BY DEF Seqs!Last, Seqs!Front
<1>9. p # <<"/">>
  OBVIOUS
<1>10. QED
  BY <1>7, <1>8, <1>9 DEF Parent, FileName

(* What vm_output_path makes of a tag is such a path. *)
LEMMA DefaultIsAName ==
  ASSUME NEW tag \in Seq(Symbol)
  PROVE  Parent(VmOutputPath(tag)) = <<>> /\ FileName(VmOutputPath(tag)) # None
<1> DEFINE safe == [i \in DOMAIN tag |-> IF tag[i] \in {"a", "b", ".", "-"} THEN tag[i] ELSE "-"]
           S == Symbol \cup {".tar"}
           p == VmOutputPath(tag)
<1>1. safe \in Seq(S) /\ Len(safe) = Len(tag) /\ \A i \in DOMAIN safe : safe[i] \notin {"/", ".tar"}
  BY DEF Symbol
<1>2. <<".tar">> \in Seq(S) /\ Len(<<".tar">>) = 1 /\ <<".tar">>[1] = ".tar"
  OBVIOUS
<1>3. p = safe \o <<".tar">>
  BY DEF VmOutputPath
<1> HIDE DEF safe, S, p
<1>4. p \in Seq(S) /\ Len(p) = Len(safe) + 1 /\ p[Len(p)] = ".tar"
  BY <1>1, <1>2, <1>3
<1>5. \A i \in DOMAIN p : p[i] # "/"
  <2> SUFFICES ASSUME NEW i \in 1..Len(p) PROVE p[i] # "/"
    BY <1>4
  <2>1. CASE i = Len(p)
    BY <1>4, <2>1
  <2>2. CASE i # Len(p)
    <3>1. i \in 1..Len(safe) /\ p[i] = safe[i]
      BY <1>1, <1>2, <1>3, <1>4, <2>2
    <3>2. QED
      BY <1>1, <3>1
  <2>3. QED
    BY <2>1, <2>2
<1>6. p \notin {<<>>, <<".">>, <<".", ".">>}
  BY <1>1, <1>4
<1>7. Parent(p) = <<>> /\ FileName(p) = p
  BY <1>4, <1>5, <1>6, NameInCurrentDirectory
<1>8. p # None
  BY <1>4, NoneIsNoValue DEF S
<1>9. QED
  BY <1>7, <1>8 DEF p

(* A build for which no output path was given is not refused for its name. *)
LEMMA NameIsFine ==
  ASSUME Inv, opt.output = None
  PROVE  Parent(Output) = <<>> /\ result # "Path"
<1>1. Parent(Output) = <<>> /\ FileName(Output) # None
  BY DefaultIsAName DEF Inv, Checked, Options, Output, Or
<1>2. QED
  BY <1>1 DEF Inv, Told

(* Nothing is unpacked or staged for a build that clap, check_vm_flags or
   select_runtime refuses, for every command line and host, and what is refused
   later is a --vm-output without a file name and nothing else. *)
THEOREM ChecksComeFirst == Spec => []OnlyTheOutputNameIsLate
<1>1. Inv => OnlyTheOutputNameIsLate
  <2> SUFFICES ASSUME Inv
               PROVE  OnlyTheOutputNameIsLate
    OBVIOUS
  <2>1. result = "Path" => opt.output # None /\ FileName(opt.output) = None /\ seen = None /\ product = {}
    BY NameIsFine DEF Inv, Told, Output, Or
  <2>2. QED
    BY <2>1 DEF Inv, Checked, Staged, Settled, Running, OnlyTheOutputNameIsLate
<1>2. QED
  BY Invariance, <1>1, PTL

(* Without --vm-output the tarball is a file of the current directory, for
   every tag, and its name stops no build. *)
THEOREM DefaultIsAFileHere == Spec => []DefaultIsInCurrentDirectory
<1>1. Inv => DefaultIsInCurrentDirectory
  <2> SUFFICES ASSUME Inv, opt.output = None, opt.runtime = "vm"
               PROVE  result # "Path" /\ (exit = 0 => \A f \in product : f[1] = <<>>)
    BY DEF DefaultIsInCurrentDirectory
  <2>1. Parent(Output) = <<>> /\ result # "Path"
    BY NameIsFine
  <2>2. product \in {{}, Tarball(Output)}
    BY DEF Inv, Told
  <2>3. QED
    BY <2>1, <2>2 DEF Tarball
<1>2. QED
  BY Invariance, <1>1, PTL

-----------------------------------------------------------------------------
(***************************************************************************)
(* The Containerfile, place by place: FROM, the image reference, and what  *)
(* follows it, which does not depend on the reference.                     *)
(***************************************************************************)
Word == Symbol \cup {"FROM", "AS", "system", "final", "USER", "0", "COPY", "RUN", "cp"}

Text == Word \cup {"build-containerfile"}

From == <<"FROM", " ">>

AsSystem == <<" ", "AS", " ", "system", "newline", "USER", " ", "0", "newline">>

FromSystem == <<"FROM", " ", "system", " ", "AS", " ", "final", "newline">>

CopyAndRun == <<"COPY", " ", "build-containerfile", "newline", "RUN", " ", "cp", "newline">>

Rest(copy) == AsSystem \o FinalStage(copy)

Places(x, s) == {i \in DOMAIN s : s[i] = x}

(* The places of a concatenation. *)
LEMMA Concatenation ==
  ASSUME NEW S, NEW s \in Seq(S), NEW t \in Seq(S)
  PROVE  /\ s \o t \in Seq(S) /\ Len(s \o t) = Len(s) + Len(t)
         /\ \A i \in 1..Len(s) : (s \o t)[i] = s[i]
         /\ \A i \in 1..Len(t) : (s \o t)[Len(s) + i] = t[i]
  OBVIOUS

(* A symbol occurs in a concatenation if it does in one of the parts, *)
LEMMA PlacesOfBoth ==
  ASSUME NEW S, NEW s \in Seq(S), NEW t \in Seq(S), NEW x
  PROVE  Places(x, s \o t) = {} <=> Places(x, s) = {} /\ Places(x, t) = {}
<1>1. DOMAIN s = 1..Len(s) /\ DOMAIN t = 1..Len(t) /\ Len(s) \in Nat /\ Len(t) \in Nat
  OBVIOUS
<1>2. DOMAIN (s \o t) = 1..(Len(s) + Len(t))
  OBVIOUS
<1>3. /\ \A i \in DOMAIN s : i \in DOMAIN (s \o t) /\ (s \o t)[i] = s[i]
      /\ \A i \in DOMAIN t : Len(s) + i \in DOMAIN (s \o t) /\ (s \o t)[Len(s) + i] = t[i]
  BY <1>1, <1>2, Concatenation
<1>4. \A i \in DOMAIN (s \o t) : i \in DOMAIN s \/ \E j \in DOMAIN t : i = Len(s) + j
  <2> SUFFICES ASSUME NEW i \in 1..(Len(s) + Len(t)), i \notin 1..Len(s)
               PROVE  i - Len(s) \in 1..Len(t) /\ i = Len(s) + (i - Len(s))
    BY <1>1, <1>2
  <2>1. QED
    BY <1>1
<1>5. Places(x, s \o t) # {} => Places(x, s) # {} \/ Places(x, t) # {}
  <2> SUFFICES ASSUME NEW i \in DOMAIN (s \o t), (s \o t)[i] = x
               PROVE  (\E j \in DOMAIN s : s[j] = x) \/ (\E j \in DOMAIN t : t[j] = x)
    BY Zenon DEF Places
  <2>1. QED
    BY <1>3, <1>4, Zenon
<1>6. Places(x, s) # {} \/ Places(x, t) # {} => Places(x, s \o t) # {}
  <2>1. ASSUME NEW i \in DOMAIN s, s[i] = x
        PROVE  i \in Places(x, s \o t)
    BY <1>3, <2>1, Zenon DEF Places
  <2>2. ASSUME NEW i \in DOMAIN t, t[i] = x
        PROVE  Len(s) + i \in Places(x, s \o t)
    BY <1>3, <2>2, Zenon DEF Places
  <2>3. QED
    BY <2>1, <2>2, Zenon DEF Places
<1>7. QED
  BY <1>5, <1>6

(* and as often in it as in the second part when it does not in the first. *)
LEMMA PlacesOfSecond ==
  ASSUME NEW S, NEW s \in Seq(S), NEW t \in Seq(S), NEW x, Places(x, s) = {}
  PROVE  Cardinality(Places(x, s \o t)) = Cardinality(Places(x, t))
<1> DEFINE A == Places(x, t)
           B == Places(x, s \o t)
           f == [i \in A |-> Len(s) + i]
<1>1. DOMAIN s = 1..Len(s) /\ DOMAIN t = 1..Len(t) /\ Len(s) \in Nat /\ Len(t) \in Nat
  OBVIOUS
<1>2. DOMAIN (s \o t) = 1..(Len(s) + Len(t))
  OBVIOUS
<1>3. \A i \in A : i \in Nat /\ i \in 1..Len(t) /\ t[i] = x
  BY <1>1 DEF Places
<1>4. \A i \in A : Len(s) + i \in B
  BY <1>1, <1>2, <1>3, Concatenation DEF Places
<1>5. \A j \in B : \E i \in A : j = Len(s) + i
  <2> SUFFICES ASSUME NEW j \in B
               PROVE  \E i \in A : j = Len(s) + i
    OBVIOUS
  <2>1. j \in 1..(Len(s) + Len(t)) /\ (s \o t)[j] = x
    BY <1>2 DEF Places
  <2>2. j \notin 1..Len(s)
    BY <1>1, <2>1, Concatenation DEF Places
  <2>3. j - Len(s) \in 1..Len(t) /\ j = Len(s) + (j - Len(s))
    BY <1>1, <2>1, <2>2
  <2>4. t[j - Len(s)] = x
    BY <2>1, <2>3, Concatenation
  <2>5. j - Len(s) \in A
    BY <1>1, <2>3, <2>4 DEF Places
  <2>6. QED
    BY <2>3, <2>5
<1>6. f \in [A -> B] /\ \A i, j \in A : f[i] = f[j] => i = j
  BY <1>1, <1>3, <1>4
<1>7. \A j \in B : \E i \in A : f[i] = j
  BY <1>5
<1>8. f \in Bijection(A, B)
  BY <1>6, <1>7, Fun_IsBij
<1>9. IsFiniteSet(A)
  <2>1. A \subseteq 1..Len(t) /\ IsFiniteSet(1..Len(t))
    BY <1>1, <1>3, FS_Interval
  <2>2. QED
    BY <2>1, FS_Subset
<1>10. ExistsBijection(A, B)
  BY <1>8 DEF ExistsBijection
<1> HIDE DEF A, B
<1>11. Cardinality(B) = Cardinality(A)
  BY <1>9, <1>10, FS_Bijection
<1>12. QED
  BY <1>11 DEF A, B

(* What follows the image reference: the rest of its line, then other lines,
   with build-containerfile among the words exactly when it is copied. *)
LEMMA RestOfText ==
  ASSUME NEW copy \in BOOLEAN
  PROVE  /\ FinalStage(copy) \in Seq(Text) /\ AsSystem \in Seq(Text)
         /\ Rest(copy) \in Seq(Text) /\ Len(Rest(copy)) \in Nat /\ Len(Rest(copy)) >= 9
         /\ Rest(copy)[1] = " " /\ Rest(copy)[2] = "AS" /\ Rest(copy)[3] = " "
         /\ Rest(copy)[4] = "system" /\ Rest(copy)[5] = "newline"
         /\ Places("build-containerfile", Rest(copy)) # {} <=> copy
<1>1. AsSystem \in Seq(Word) /\ AsSystem \in Seq(Text)
  BY DEF AsSystem, Word, Text, Symbol, Blank
<1>2. /\ Len(AsSystem) = 9 /\ AsSystem[1] = " " /\ AsSystem[2] = "AS" /\ AsSystem[3] = " "
      /\ AsSystem[4] = "system" /\ AsSystem[5] = "newline"
  BY DEF AsSystem
<1>3. FromSystem \in Seq(Word) /\ FromSystem \in Seq(Text)
  BY DEF FromSystem, Word, Text, Symbol, Blank
<1>4. CopyAndRun \in Seq(Text) /\ 3 \in DOMAIN CopyAndRun /\ CopyAndRun[3] = "build-containerfile"
  BY DEF CopyAndRun, Word, Text, Symbol, Blank
<1>5. ASSUME NEW s \in Seq(Word)
      PROVE  Places("build-containerfile", s) = {}
  <2>1. \A i \in DOMAIN s : s[i] \in Word
    OBVIOUS
  <2>2. "build-containerfile" \notin Word
    BY DEF Word, Symbol, Unsafe, Blank
  <2>3. QED
    BY <2>1, <2>2, Zenon DEF Places
<1>6. /\ FinalStage(copy) \in Seq(Text)
      /\ Places("build-containerfile", FinalStage(copy)) # {} <=> copy
  <2>1. CASE copy
    <3>1. FinalStage(copy) = FromSystem \o CopyAndRun
      BY <2>1 DEF FinalStage, FromSystem, CopyAndRun
    <3>2. Places("build-containerfile", CopyAndRun) # {}
      BY <1>4, Zenon DEF Places
    <3>3. Places("build-containerfile", FromSystem \o CopyAndRun) # {}
      BY <1>3, <1>4, <3>2, PlacesOfBoth, Zenon
    <3>4. FromSystem \o CopyAndRun \in Seq(Text)
      BY <1>3, <1>4, ConcatProperties, Zenon
    <3>5. QED
      BY <2>1, <3>1, <3>3, <3>4, Zenon
  <2>2. CASE ~copy
    <3>1. FinalStage(copy) = FromSystem \o <<>>
      BY <2>2 DEF FinalStage, FromSystem
    <3>2. FinalStage(copy) = FromSystem
      BY <1>3, <3>1, ConcatEmptySeq, Zenon
    <3>3. QED
      BY <1>3, <1>5, <2>2, <3>2, Zenon
  <2>3. QED
    BY <2>1, <2>2
<1>7. /\ Rest(copy) \in Seq(Text) /\ Len(Rest(copy)) = 9 + Len(FinalStage(copy))
      /\ \A i \in 1..9 : Rest(copy)[i] = AsSystem[i]
  <2>1. /\ Rest(copy) \in Seq(Text) /\ Len(Rest(copy)) = Len(AsSystem) + Len(FinalStage(copy))
        /\ \A i \in 1..Len(AsSystem) : Rest(copy)[i] = AsSystem[i]
    BY <1>1, <1>6, Concatenation, Zenon DEF Rest
  <2>2. QED
    BY <1>2, <2>1, Zenon
<1>8. Places("build-containerfile", Rest(copy)) # {} <=> copy
  <2>1. Places("build-containerfile", AsSystem) = {}
    BY <1>1, <1>5, Zenon
  <2>2. Places("build-containerfile", AsSystem \o FinalStage(copy)) = {}
          <=> Places("build-containerfile", FinalStage(copy)) = {}
    <3>1. AsSystem \in Seq(Text) /\ FinalStage(copy) \in Seq(Text)
      BY <1>1, <1>6
    <3>2. Places("build-containerfile", AsSystem \o FinalStage(copy)) = {}
            <=> /\ Places("build-containerfile", AsSystem) = {}
                /\ Places("build-containerfile", FinalStage(copy)) = {}
      BY <3>1, PlacesOfBoth
    <3>3. QED
      BY <2>1, <3>2
  <2>3. QED
    BY <1>6, <2>2, Zenon DEF Rest
<1>9. \A n \in Nat : 9 + n \in Nat /\ 9 + n >= 9
  OBVIOUS
<1>10. Len(FinalStage(copy)) \in Nat
  BY <1>6
<1>11. 1 \in 1..9 /\ 2 \in 1..9 /\ 3 \in 1..9 /\ 4 \in 1..9 /\ 5 \in 1..9
  OBVIOUS
<1>12. /\ Rest(copy)[1] = " " /\ Rest(copy)[2] = "AS" /\ Rest(copy)[3] = " "
       /\ Rest(copy)[4] = "system" /\ Rest(copy)[5] = "newline"
  BY <1>2, <1>7, <1>11, Zenon
<1>13. Len(Rest(copy)) \in Nat /\ Len(Rest(copy)) >= 9
  BY <1>7, <1>9, <1>10, Zenon
<1>14. QED
  BY <1>1, <1>6, <1>7, <1>8, <1>12, <1>13, Zenon

(* The text begins with FROM and a blank. *)
LEMMA FromText ==
  /\ From \in Seq(Text) /\ Len(From) = 2 /\ From[1] = "FROM" /\ From[2] = " "
  /\ \A i \in DOMAIN From : From[i] \in {"FROM", " "}
<1>1. From \in Seq({"FROM", " "}) /\ Len(From) = 2 /\ From[1] = "FROM" /\ From[2] = " "
  BY DEF From
<1>2. {"FROM", " "} \subseteq Text
  BY DEF Text, Word, Symbol, Blank
<1>3. \A S, T : S \subseteq T => \A s \in Seq(S) : s \in Seq(T)
  OBVIOUS
<1>4. \A S : \A s \in Seq(S) : \A i \in DOMAIN s : s[i] \in S
  OBVIOUS
<1>5. QED
  BY <1>1, <1>2, <1>3, <1>4, Zenon

(* Concatenation is associative. *)
LEMMA Regroup == \A a, b, c \in Seq(Text) : (a \o b) \o c = a \o (b \o c)
  OBVIOUS

(* The whole text: FROM, the image reference, and the rest. *)
LEMMA WholeText ==
  ASSUME NEW from \in Seq(Symbol), NEW copy \in BOOLEAN
  PROVE  /\ From \o from \in Seq(Text) /\ Len(From \o from) = 2 + Len(from)
         /\ (From \o from)[1] = "FROM" /\ (From \o from)[2] = " "
         /\ \A i \in 1..Len(from) : (From \o from)[2 + i] = from[i]
         /\ Generate(from, copy) = (From \o from) \o Rest(copy)
<1>1. From \in Seq(Text) /\ Len(From) = 2 /\ From[1] = "FROM" /\ From[2] = " "
  BY FromText
<1>2. Symbol \subseteq Text
  BY DEF Text, Word
<1>3. \A S, T : S \subseteq T => \A s \in Seq(S) : s \in Seq(T)
  OBVIOUS
<1>4. from \in Seq(Text)
  BY <1>2, <1>3, Zenon
<1>5. 1 \in 1..2 /\ 2 \in 1..2
  OBVIOUS
<1>6. /\ From \o from \in Seq(Text) /\ Len(From \o from) = 2 + Len(from)
      /\ (From \o from)[1] = "FROM" /\ (From \o from)[2] = " "
      /\ \A i \in 1..Len(from) : (From \o from)[2 + i] = from[i]
  <2>1. /\ From \o from \in Seq(Text) /\ Len(From \o from) = Len(From) + Len(from)
        /\ \A i \in 1..Len(From) : (From \o from)[i] = From[i]
        /\ \A i \in 1..Len(from) : (From \o from)[Len(From) + i] = from[i]
    <3>1. From \in Seq(Text)
      BY <1>1
    <3>2. QED
      BY <1>4, <3>1, Concatenation
  <2>2. QED
    BY <1>1, <1>5, <2>1, Zenon
<1>7. Generate(from, copy) = ((From \o from) \o AsSystem) \o FinalStage(copy)
  BY Zenon DEF Generate, From, AsSystem
<1>8. ((From \o from) \o AsSystem) \o FinalStage(copy) = (From \o from) \o Rest(copy)
  <2>1. AsSystem \in Seq(Text) /\ FinalStage(copy) \in Seq(Text)
    BY RestOfText
  <2>2. From \o from \in Seq(Text)
    BY <1>6
  <2>3. QED
    BY <2>1, <2>2, Regroup, Zenon DEF Rest
<1>9. QED
  BY <1>6, <1>7, <1>8, Zenon

(* An image reference that is accepted brings no line break of its own, and
   none brings build-containerfile. *)
LEMMA BeforeRest ==
  ASSUME NEW from \in Seq(Symbol)
  PROVE  /\ Places("build-containerfile", From \o from) = {}
         /\ ParseImageReference(from) => Places("newline", From \o from) = {}
<1>1. From \in Seq(Text) /\ from \in Seq(Text)
  <2>1. Symbol \subseteq Text
    BY DEF Text, Word
  <2>2. \A S, T : S \subseteq T => \A s \in Seq(S) : s \in Seq(T)
    OBVIOUS
  <2>3. QED
    BY <2>1, <2>2, FromText, Zenon
<1>2. \A x : x \in {"FROM", " "} => x # "build-containerfile" /\ x # "newline"
  OBVIOUS
<1>3. Places("build-containerfile", From) = {} /\ Places("newline", From) = {}
  BY <1>2, FromText, Zenon DEF Places
<1>4. \A i \in DOMAIN from : from[i] \in Symbol
  OBVIOUS
<1>5. "build-containerfile" \notin Symbol /\ "newline" \in Blank
  BY DEF Symbol, Unsafe, Blank
<1>6. Places("build-containerfile", from) = {}
  BY <1>4, <1>5, Zenon DEF Places
<1>7. ParseImageReference(from) => Places("newline", from) = {}
  BY <1>5, Zenon DEF ParseImageReference, Places
<1>8. Places("build-containerfile", From \o from) = {}
  BY <1>1, <1>3, <1>6, PlacesOfBoth
<1>9. ParseImageReference(from) => Places("newline", From \o from) = {}
  BY <1>1, <1>3, <1>7, PlacesOfBoth
<1>10. QED
  BY <1>8, <1>9

(* The number of instructions does not depend on the image reference. *)
LEMMA SameBreaks ==
  ASSUME NEW from \in Seq(Symbol), NEW copy \in BOOLEAN, ParseImageReference(from)
  PROVE  Cardinality(Breaks(Generate(from, copy))) = Cardinality(Places("newline", Rest(copy)))
<1> DEFINE h == From \o from
           r == Rest(copy)
<1>1. h \in Seq(Text) /\ Generate(from, copy) = h \o r
  BY WholeText
<1>2. r \in Seq(Text)
  BY RestOfText
<1>3. Places("newline", h) = {}
  BY BeforeRest
<1> HIDE DEF h, r
<1>4. Cardinality(Places("newline", h \o r)) = Cardinality(Places("newline", r))
  BY <1>1, <1>2, <1>3, PlacesOfSecond
<1>5. Breaks(Generate(from, copy)) = Places("newline", h \o r)
  BY <1>1, Zenon DEF Breaks, Places
<1>6. QED
  BY <1>4, <1>5, Zenon DEF r

(* Four different things are four. *)
LEMMA FourElements ==
  ASSUME NEW a, NEW b, NEW c, NEW d,
         a # b, a # c, a # d, b # c, b # d, c # d
  PROVE  Cardinality({a, b, c, d}) = 4
<1>1. IsFiniteSet({a}) /\ Cardinality({a}) = 1
  BY FS_Singleton
<1>2. IsFiniteSet({a} \cup {b}) /\ Cardinality({a} \cup {b}) = 2
  BY <1>1, FS_AddElement
<1>3. {a} \cup {b} = {a, b}
  OBVIOUS
<1>4. IsFiniteSet({a, b} \cup {c}) /\ Cardinality({a, b} \cup {c}) = 3
  BY <1>2, <1>3, FS_AddElement
<1>5. {a, b} \cup {c} = {a, b, c}
  OBVIOUS
<1>6. Cardinality({a, b, c} \cup {d}) = 4
  BY <1>4, <1>5, FS_AddElement
<1>7. {a, b, c} \cup {d} = {a, b, c, d}
  OBVIOUS
<1>8. QED
  BY <1>6, <1>7

(* Places of blanks B and of line breaks N on a line of four words, of which
   the second has length L. *)
LEMMA FourWords ==
  ASSUME NEW L \in Nat, L >= 1, NEW M \in Nat, M >= L + 7,
         NEW B \in SUBSET (1..M), NEW N \in SUBSET (1..M),
         1 \notin B, 2 \in B, \A i \in 3..(L + 2) : i \notin B,
         L + 3 \in B, L + 4 \notin B, L + 5 \in B, L + 6 \notin B, L + 7 \in B,
         L + 7 \in N, \A i \in N : i >= L + 7
  PROVE  Cardinality({i \in 1..M : /\ i \notin B /\ (i = 1 \/ i - 1 \in B)
                                   /\ \A b \in N : i < b}) = 4
<1> DEFINE W == {i \in 1..M : i \notin B /\ (i = 1 \/ i - 1 \in B) /\ \A b \in N : i < b}
<1>1. \A i \in W : i \in {1, 3, L + 4, L + 6}
  <2> SUFFICES ASSUME NEW i \in W
               PROVE  i = 1 \/ i = 3 \/ i = L + 4 \/ i = L + 6
    OBVIOUS
  <2>1. i \in Nat /\ i >= 1 /\ i < L + 7 /\ i \notin B /\ (i = 1 \/ i - 1 \in B)
    OBVIOUS
  <2>2. i \in 4..(L + 2) => i - 1 \in 3..(L + 2)
    BY <2>1
  <2>3. i # 2 /\ i # L + 3 /\ i # L + 5 /\ ~(i \in 4..(L + 2))
    BY <2>1, <2>2
  <2>4. QED
    BY <2>1, <2>3
<1>2. 1 \in W /\ 3 \in W /\ L + 4 \in W /\ L + 6 \in W
  <2>1. 3 \notin B /\ 3 - 1 \in B
    OBVIOUS
  <2>2. (L + 4) - 1 \in B /\ (L + 6) - 1 \in B
    <3>1. (L + 4) - 1 = L + 3 /\ (L + 6) - 1 = L + 5
      OBVIOUS
    <3>2. QED
      BY <3>1
  <2>3. \A b \in N : 1 < b /\ 3 < b /\ L + 4 < b /\ L + 6 < b
    OBVIOUS
  <2>4. QED
    BY <2>1, <2>2, <2>3
<1>3. W = {1, 3, L + 4, L + 6}
  BY <1>1, <1>2
<1>4. 1 # 3 /\ 1 # L + 4 /\ 1 # L + 6 /\ 3 # L + 4 /\ 3 # L + 6 /\ L + 4 # L + 6
  OBVIOUS
<1>5. Cardinality({1, 3, L + 4, L + 6}) = 4
  BY <1>4, FourElements, Zenon
<1>6. QED
  BY <1>3, <1>5

(* The first line of the text has the words FROM, the image reference, AS and
   system, whatever the reference is. *)
LEMMA FirstLine ==
  ASSUME NEW from \in Seq(Symbol), NEW copy \in BOOLEAN, ParseImageReference(from)
  PROVE  Cardinality(WordsOfFirstLine(Generate(from, copy))) = 4
<1> DEFINE h == From \o from
           r == Rest(copy)
           t == Generate(from, copy)
           L == Len(from)
           M == Len(t)
           B == {i \in DOMAIN t : t[i] \in Blank}
           N == Breaks(t)
<1>1. /\ h \in Seq(Text) /\ Len(h) = 2 + L /\ h[1] = "FROM" /\ h[2] = " "
      /\ \A i \in 1..L : h[2 + i] = from[i]
      /\ t = h \o r
  BY WholeText
<1>2. /\ r \in Seq(Text) /\ Len(r) \in Nat /\ Len(r) >= 9
      /\ r[1] = " " /\ r[2] = "AS" /\ r[3] = " " /\ r[4] = "system" /\ r[5] = "newline"
  BY RestOfText
<1>3. L \in Nat /\ L >= 1
  <2>1. L \in Nat /\ from # <<>>
    BY DEF ParseImageReference
  <2>2. L # 0
    BY <2>1
  <2>3. QED
    BY <2>1, <2>2
<1>4. \A i \in 1..L : from[i] \notin Blank
  BY DEF ParseImageReference
<1>5. Places("newline", h) = {}
  BY BeforeRest
<1> HIDE DEF h, r, L
<1>6. /\ t \in Seq(Text) /\ M = Len(h) + Len(r)
      /\ \A i \in 1..Len(h) : t[i] = h[i]
      /\ \A i \in 1..Len(r) : t[Len(h) + i] = r[i]
  <2>1. h \in Seq(Text) /\ r \in Seq(Text)
    BY <1>1, <1>2
  <2>2. /\ h \o r \in Seq(Text) /\ Len(h \o r) = Len(h) + Len(r)
        /\ \A i \in 1..Len(h) : (h \o r)[i] = h[i]
        /\ \A i \in 1..Len(r) : (h \o r)[Len(h) + i] = r[i]
    BY <2>1, Concatenation
  <2> HIDE DEF t
  <2>3. QED
    BY <1>1, <2>2, Zenon
<1>7. /\ M = (2 + L) + Len(r)
      /\ \A i \in 1..(2 + L) : t[i] = h[i]
      /\ \A i \in 1..Len(r) : t[(2 + L) + i] = r[i]
  BY <1>1, <1>6, Zenon
<1>8. DOMAIN t = 1..M /\ DOMAIN h = 1..(2 + L)
  <2>1. \A S : \A s \in Seq(S) : DOMAIN s = 1..Len(s)
    OBVIOUS
  <2>2. QED
    BY <1>1, <1>6, <2>1, Zenon
<1> HIDE DEF t, M
<1>9. M \in Nat /\ M >= L + 7
  <2>1. \A n \in Nat : n >= 9 => (2 + L) + n \in Nat /\ (2 + L) + n >= L + 7
    BY <1>3
  <2>2. QED
    BY <1>2, <1>7, <2>1, Zenon
<1>10. t[1] = "FROM" /\ t[2] = " " /\ \A i \in 3..(L + 2) : t[i] \notin Blank
  <2>1. 1 \in 1..(2 + L) /\ 2 \in 1..(2 + L)
    BY <1>3
  <2>2. ASSUME NEW i \in 3..(L + 2)
        PROVE  t[i] \notin Blank
    <3>1. i \in 1..(2 + L) /\ i - 2 \in 1..L /\ 2 + (i - 2) = i
      BY <1>3
    <3>2. h[2 + (i - 2)] = from[i - 2]
      BY <1>1, <3>1, Zenon
    <3>3. t[i] = h[i]
      BY <1>7, <3>1, Zenon
    <3>4. QED
      BY <1>4, <3>1, <3>2, <3>3, Zenon
  <2>3. QED
    BY <1>1, <1>7, <2>1, <2>2, Zenon
<1>11. /\ t[L + 3] = " " /\ t[L + 4] = "AS" /\ t[L + 5] = " "
       /\ t[L + 6] = "system" /\ t[L + 7] = "newline"
  <2>1. /\ (2 + L) + 1 = L + 3 /\ (2 + L) + 2 = L + 4 /\ (2 + L) + 3 = L + 5
        /\ (2 + L) + 4 = L + 6 /\ (2 + L) + 5 = L + 7
    BY <1>3
  <2>2. 1 \in 1..Len(r) /\ 2 \in 1..Len(r) /\ 3 \in 1..Len(r) /\ 4 \in 1..Len(r) /\ 5 \in 1..Len(r)
    <3>1. \A n \in Nat : n >= 9 => 1 \in 1..n /\ 2 \in 1..n /\ 3 \in 1..n /\ 4 \in 1..n /\ 5 \in 1..n
      OBVIOUS
    <3>2. QED
      BY <1>2, <3>1, Zenon
  <2>3. QED
    BY <1>2, <1>7, <2>1, <2>2, Zenon
<1>12. "FROM" \notin Blank /\ "AS" \notin Blank /\ "system" \notin Blank
       /\ " " \in Blank /\ "newline" \in Blank
  BY DEF Blank
<1>13. /\ 1 \in DOMAIN t /\ 2 \in DOMAIN t /\ L + 3 \in DOMAIN t /\ L + 5 \in DOMAIN t
       /\ L + 7 \in DOMAIN t
  BY <1>3, <1>8, <1>9
<1>14. /\ 1 \notin B /\ 2 \in B /\ \A i \in 3..(L + 2) : i \notin B
       /\ L + 3 \in B /\ L + 4 \notin B /\ L + 5 \in B /\ L + 6 \notin B /\ L + 7 \in B
  BY <1>10, <1>11, <1>12, <1>13, Zenon
<1>15. L + 7 \in N
  BY <1>11, <1>13, Zenon DEF Breaks
<1>16. \A i \in N : i >= L + 7
  <2> SUFFICES ASSUME NEW i \in 1..M, t[i] = "newline", i < L + 7
               PROVE  FALSE
    BY <1>3, <1>8, <1>9 DEF Breaks
  <2>1. i \in 1..(2 + L) \/ i = L + 3 \/ i = L + 4 \/ i = L + 5 \/ i = L + 6
    BY <1>3, <1>9
  <2>2. i \notin 1..(2 + L)
    BY <1>5, <1>7, <1>8, Zenon DEF Places
  <2>3. "newline" # " " /\ "newline" # "AS" /\ "newline" # "system"
    OBVIOUS
  <2>4. QED
    BY <1>11, <2>1, <2>2, <2>3, Zenon
<1>17. B \in SUBSET (1..M) /\ N \in SUBSET (1..M)
  BY <1>8, Zenon DEF Breaks
<1>18. WordsOfFirstLine(t)
         = {i \in 1..M : i \notin B /\ (i = 1 \/ i - 1 \in B) /\ \A b \in N : i < b}
  <2>1. ASSUME NEW i \in 1..M
        PROVE  /\ i \in B <=> t[i] \in Blank
               /\ i # 1 => (i - 1 \in B <=> t[i - 1] \in Blank)
    <3>1. i # 1 => i - 1 \in 1..M
      BY <1>9
    <3>2. QED
      BY <1>8, <3>1, Zenon
  <2> HIDE DEF B, N
  <2>2. QED
    BY <1>8, <2>1 DEF WordsOfFirstLine, N
<1> HIDE DEF B, N
<1>19. Cardinality({i \in 1..M : /\ i \notin B /\ (i = 1 \/ i - 1 \in B)
                                 /\ \A b \in N : i < b}) = 4
  BY <1>3, <1>9, <1>14, <1>15, <1>16, <1>17, FourWords
<1>20. QED
  BY <1>18, <1>19 DEF t

-----------------------------------------------------------------------------
(* build-containerfile is in a backend's context exactly when the
   Containerfile copies it, for every image reference. *)
THEOREM CopyHasItsFile == Spec => []CopyFindsItsFile
<1>1. Inv => CopyFindsItsFile
  <2> SUFFICES ASSUME Inv, seen # None
               PROVE  (\E i \in DOMAIN seen.text : seen.text[i] = "build-containerfile")
                        <=> "build-containerfile" \in seen.context
    BY DEF CopyFindsItsFile
  <2>1. opt.from \in Seq(Symbol) /\ opt.copy \in BOOLEAN
    BY DEF Inv, Checked, Options
  <2>2. /\ seen.text = Generate(opt.from, opt.copy)
        /\ "build-containerfile" \in seen.context <=> opt.copy
    BY DEF Inv, Staged
  <2> DEFINE h == From \o opt.from
             r == Rest(opt.copy)
  <2>3. h \in Seq(Text) /\ Generate(opt.from, opt.copy) = h \o r
    BY <2>1, WholeText
  <2>4. r \in Seq(Text) /\ (Places("build-containerfile", r) # {} <=> opt.copy)
    BY <2>1, RestOfText
  <2>5. Places("build-containerfile", h) = {}
    BY <2>1, BeforeRest
  <2> HIDE DEF h, r
  <2>6. Places("build-containerfile", h \o r) # {} <=> opt.copy
    BY <2>3, <2>4, <2>5, PlacesOfBoth
  <2>7. QED
    BY <2>2, <2>3, <2>6, Zenon DEF Places
<1>2. QED
  BY Invariance, <1>1, PTL

(* A letter is an image reference. *)
LEMMA ShortestReference == <<"a">> \in Seq(Symbol) /\ ParseImageReference(<<"a">>)
<1>1. \A S : \A a \in S : <<a>> \in Seq(S) /\ <<a>> # <<>> /\ \A i \in DOMAIN <<a>> : <<a>>[i] = a
  OBVIOUS
<1>2. "a" \in Symbol /\ "a" \notin Blank
  BY DEF Symbol, Blank
<1>3. QED
  BY <1>1, <1>2, Zenon DEF ParseImageReference

(* Every image reference that parse_image_reference accepts gives a
   Containerfile with the instructions that were meant, the first of which is
   FROM with that one image. *)
THEOREM ReferencesAddNothing == Spec => []FromIsOneInstruction
<1>1. Inv => FromIsOneInstruction
  <2> SUFFICES ASSUME Inv, text # None
               PROVE  /\ Cardinality(Breaks(text)) = Cardinality(Breaks(Generate(<<"a">>, opt.copy)))
                      /\ Cardinality(WordsOfFirstLine(text)) = 4
    BY DEF FromIsOneInstruction
  <2>1. /\ opt.from \in Seq(Symbol) /\ opt.copy \in BOOLEAN
        /\ text = Generate(opt.from, opt.copy) /\ ParseImageReference(opt.from)
    BY DEF Inv, Checked, Staged, Options
  <2>2. <<"a">> \in Seq(Symbol) /\ ParseImageReference(<<"a">>)
    BY ShortestReference
  <2>3. Cardinality(Breaks(Generate(<<"a">>, opt.copy))) = Cardinality(Places("newline", Rest(opt.copy)))
    BY <2>1, <2>2, SameBreaks, Zenon
  <2>4. Cardinality(Breaks(Generate(opt.from, opt.copy))) = Cardinality(Places("newline", Rest(opt.copy)))
    BY <2>1, SameBreaks, Zenon
  <2>5. Cardinality(WordsOfFirstLine(Generate(opt.from, opt.copy))) = 4
    BY <2>1, FirstLine, Zenon
  <2>6. QED
    BY <2>1, <2>3, <2>4, <2>5, Zenon
<1>2. QED
  BY Invariance, <1>1, PTL
=============================================================================
