---------------------------- MODULE EmbedRootfs ----------------------------
(***************************************************************************)
(* How a rootfs gets into the binary: build.rs, run by cargo whenever what *)
(* it was run for has changed, and the two files of OUT_DIR that           *)
(* src/vm_rootfs.rs includes at compile time.                              *)
(*                                                                         *)
(* Tarballs are packed, compressed, cut short, damaged and removed at any  *)
(* time, also while the script runs; the script may fail or be killed at   *)
(* any of its writes, and cargo is called again and again.                 *)
(***************************************************************************)
CONSTANTS
  Path,    \* the files that ARCHIVE_ENV may name
  Tree,    \* the file systems that are packed
  Faults,  \* "read", "zstd", "write": a call of the script fails; "kill"
  None,    \* no value: variable unset, no such file, an archive of nothing
  Cut      \* what a file holds between its truncation and its last byte

ASSUME NoValueIsATree == {None, Cut} \cap (Tree \cup Path) = {}

(* A plain tarball, or one in a zstd frame that is intact or not, of all of a
   tree or a part.  An empty file is a plain tarball of nothing. *)
File ==
  {f \in [zstd : BOOLEAN, tree : Tree \cup {None}, whole : BOOLEAN, intact : BOOLEAN] :
     /\ f.tree = None => ~f.whole /\ f.intact
     /\ ~f.zstd => f.intact}

Empty == [zstd |-> FALSE, tree |-> None, whole |-> FALSE, intact |-> TRUE]

(* SHA-256, which tells any two files apart. *)
Digest(f) == <<"sha256", f>>

VARIABLES
  archive,  \* what each path holds, None when there is no such file
  env,      \* ARCHIVE_ENV in the shell that calls cargo
  pc,       \* where cargo and the script are
  asked,    \* ARCHIVE_ENV as the current call of cargo has it
  embed,    \* the bytes the script is to write, Empty for placeholders
  out,      \* OUT_DIR: the archive and its digest
  last,     \* what the last successful run of the script asked cargo to watch
  changed,  \* the watched file was written since that run began
  quiet,    \* nothing was written to the file this call of cargo is about
  binary    \* what the last compilation included

vars == <<archive, env, pc, asked, embed, out, last, changed, quiet, binary>>

Init ==
  /\ archive = [p \in Path |-> None]
  /\ env = None /\ asked = None
  /\ pc = "idle"
  /\ embed = Empty
  /\ out = [archive |-> None, digest |-> None]
  /\ last = None
  /\ changed = FALSE /\ quiet = TRUE
  /\ binary = None

(***************************************************************************)
(* Whoever prepares the build                                              *)
(***************************************************************************)

(* make-rootfs.sh writes its tarball in place, so every stage of it can be
   seen; a pipeline may compress it. *)
Pack(p) ==
  /\ \E f \in (File \cup {None}) \ {archive[p]} : archive' = [archive EXCEPT ![p] = f]
  /\ changed' = (changed \/ (last # None /\ last.file = p) \/ (pc # "idle" /\ asked = p))
  /\ quiet' = (quiet /\ asked # p)
  /\ UNCHANGED <<env, pc, asked, embed, out, last, binary>>

SetEnv ==
  /\ pc = "idle"
  /\ \E e \in (Path \cup {None}) \ {env} : env' = e
  /\ UNCHANGED <<archive, pc, asked, embed, out, last, changed, quiet, binary>>

(***************************************************************************)
(* cargo: the script is run unless its last run succeeded and nothing that *)
(* it asked to be watched has changed since that run began.                *)
(***************************************************************************)
Stale == last = None \/ (last.env /\ last.var # env) \/ (last.file # None /\ changed)

Cargo ==
  /\ pc = "idle"
  /\ asked' = env /\ quiet' = TRUE
  /\ IF Stale
       THEN pc' = "main" /\ last' = None /\ changed' = FALSE
       ELSE pc' = "compile" /\ UNCHANGED <<last, changed>>
  /\ UNCHANGED <<archive, env, embed, out, binary>>

To(l) == pc' = l /\ UNCHANGED <<archive, env, asked, last, changed, quiet, binary>>

(* A panic of the script ends the call of cargo. *)
Panic == To("idle") /\ UNCHANGED <<embed, out>>

(***************************************************************************)
(* main of build.rs                                                        *)
(***************************************************************************)

(* Mutant: nothing is said of the archive itself. *)
DirectivesWithoutFile(e) == [env |-> TRUE, var |-> e, file |-> None]

(* rerun-if-env-changed, and rerun-if-changed for the file it names. *)
Directives(e) == [env |-> TRUE, var |-> e, file |-> e]

Main ==
  /\ pc = "main"
  /\ IF asked = None
       THEN To("archive") /\ embed' = Empty
       ELSE To("read") /\ UNCHANGED embed
  /\ UNCHANGED out

(* Mutant: the magic is enough. *)
VerifyFrameByMagic(f) == f.zstd

VerifyFrame(f) == f.intact /\ f.tree # None

Compress(f) == [f EXCEPT !.zstd = TRUE]

(* A missing or empty file, or a frame that does not decode to something,
   stops the build. *)
ReadArchive ==
  /\ pc = "read"
  /\ LET contents == archive[asked] IN
     \/ /\ contents \notin {None, Empty}
        /\ contents.zstd => VerifyFrame(contents)
        /\ To("archive")
        /\ embed' = IF contents.zstd THEN contents ELSE Compress(contents)
        /\ UNCHANGED out
     \/ contents \in {None, Empty} /\ Panic
     \/ contents \notin {None, Empty} /\ contents.zstd /\ ~VerifyFrame(contents) /\ Panic
     \/ {"read", "zstd"} \cap Faults # {} /\ Panic

(* The digest is of the compressed bytes; the placeholder has none. *)
DigestOut == IF embed = Empty THEN Empty ELSE Digest(embed)

(* fs::write truncates the file and then fills it; when it fails, or cargo is
   interrupted, the file may be as it was or cut short. *)
WriteOut(name, data, next) ==
  /\ pc = name /\ UNCHANGED embed
  /\ \/ To(next) /\ out' = [out EXCEPT ![name] = data]
     \/ /\ {"write", "kill"} \cap Faults # {}
        /\ To("idle")
        /\ \E left \in {out[name], Cut} : out' = [out EXCEPT ![name] = left]

WriteArchive == WriteOut("archive", embed, "digest")

(* Mutant: a digest that cannot be written is only warned about. *)
WriteDigestAnyway ==
  \/ WriteOut("digest", DigestOut, "exit")
  \/ "write" \in Faults /\ pc = "digest" /\ To("exit") /\ UNCHANGED <<embed, out>>

WriteDigest == WriteOut("digest", DigestOut, "exit")

(* The script ends, and cargo keeps what it printed. *)
ScriptExits ==
  /\ pc = "exit"
  /\ pc' = "compile"
  /\ last' = Directives(asked)
  /\ UNCHANGED <<archive, env, asked, embed, out, changed, quiet, binary>>

(* include_bytes! and include_str! of src/vm_rootfs.rs. *)
Compile ==
  /\ pc = "compile"
  /\ pc' = "built"
  /\ binary' = out
  /\ UNCHANGED <<archive, env, asked, embed, out, last, changed, quiet>>

Finish == pc = "built" /\ To("idle") /\ UNCHANGED <<embed, out>>

(* cargo and the script with it are interrupted. *)
Kill == "kill" \in Faults /\ pc \notin {"idle", "built"} /\ Panic

Next ==
  \/ \E p \in Path : Pack(p)
  \/ SetEnv \/ Cargo
  \/ Main \/ ReadArchive \/ WriteArchive \/ WriteDigest \/ ScriptExits \/ Compile \/ Finish
  \/ Kill

Spec == Init /\ [][Next]_vars

-----------------------------------------------------------------------------
(* A binary carries an archive together with the digest of that very archive,
   or two empty files, whatever happened to the script between its two
   writes: the digest is the key under which vm_rootfs.rs caches the tree. *)
DigestIsOfTheArchive ==
  binary # None =>
    \/ binary = [archive |-> Empty, digest |-> Empty]
    \/ binary.archive \in File \ {Empty} /\ binary.digest = Digest(binary.archive)

(* An archive that is embedded decodes, to more than nothing, on every user's
   machine (verify_frame: a truncated or corrupt one must not surface there
   as a failed extraction). *)
EmbeddedArchiveDecodes ==
  binary # None /\ binary.archive # Empty =>
    binary.archive.zstd /\ binary.archive.intact /\ binary.archive.tree # None

(* A call of cargo that succeeds embeds the archive the variable names as it
   is now, and nothing when it is not set, unless the file is written to
   while cargo runs; no earlier, failed or killed run can hide a change. *)
Current == IF asked = None THEN Empty
           ELSE IF archive[asked] = None THEN None
           ELSE IF archive[asked].zstd THEN archive[asked] ELSE Compress(archive[asked])

BuildIsUpToDate == pc = "built" /\ quiet => binary.archive = Current
=============================================================================
