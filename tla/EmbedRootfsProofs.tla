------------------------- MODULE EmbedRootfsProofs -------------------------
(***************************************************************************)
(* Proofs about EmbedRootfs, for any paths and file systems, whatever      *)
(* fails and whatever is written when: what gets into a binary decodes,    *)
(* carries its own digest and is the archive that was asked for.           *)
(***************************************************************************)
EXTENDS EmbedRootfs, TLAPS

(***************************************************************************)
(* The inductive invariant, in parts.                                      *)
(***************************************************************************)

(* What may be embedded: nothing, or an intact frame of something. *)
Embeddable == {Empty} \cup {f \in File : f.zstd /\ f.intact /\ f.tree # None}

(* What the script has written to OUT_DIR when it succeeds. *)
Pair(e) == [archive |-> e, digest |-> IF e = Empty THEN Empty ELSE Digest(e)]

InScript == {"main", "read", "archive", "digest", "exit"}

Types ==
  /\ archive \in [Path -> File \cup {None}]
  /\ env \in Path \cup {None} /\ asked \in Path \cup {None}
  /\ pc \in {"idle", "compile", "built"} \cup InScript
  /\ DOMAIN out = {"archive", "digest"} /\ out = [n \in {"archive", "digest"} |-> out[n]]
  /\ changed \in BOOLEAN /\ quiet \in BOOLEAN

(* The two writes of the script, one after the other. *)
Written ==
  /\ pc = "read" => asked # None
  /\ pc \in {"archive", "digest", "exit"} => embed \in Embeddable
  /\ pc \in {"digest", "exit"} => out.archive = embed
  /\ pc = "exit" => out.digest = DigestOut

(* cargo forgets the last success before it runs the script again, so what
   it remembers always stands behind OUT_DIR; and what is compiled was. *)
Consistent ==
  /\ pc \in InScript => last = None
  /\ last # None \/ pc = "compile" => \E e \in Embeddable : out = Pair(e)
  /\ binary # None \/ pc = "built" => \E e \in Embeddable : binary = Pair(e)

(* The bytes that the script makes of the file at p. *)
Wanted(p) ==
  IF p = None THEN Empty
  ELSE IF archive[p] = None THEN None
  ELSE IF archive[p].zstd THEN archive[p] ELSE Compress(archive[p])

(* What is embedded is what the variable names, as long as no write to that
   file is on record: for this call of cargo, or for the next one. *)
UpToDate ==
  /\ pc \in {"archive", "digest", "exit"} /\ (asked = None \/ quiet \/ ~changed) => embed = Wanted(asked)
  /\ last # None => /\ last = Directives(last.var) /\ last.var \in Path \cup {None}
                    /\ last.var = None \/ ~changed => out.archive = Wanted(last.var)
  /\ pc = "compile" /\ quiet => out.archive = Wanted(asked)
  /\ pc = "built" /\ quiet => binary.archive = Wanted(asked)

Inv == Types /\ Written /\ Consistent /\ UpToDate
-----------------------------------------------------------------------------
(* A file that read accepts becomes an intact frame: by itself when
   verify_frame has decoded it, else by compress. *)
LEMMA AcceptedIsEmbeddable ==
  ASSUME NEW f \in File, f # Empty, f.zstd => VerifyFrame(f)
  PROVE  (IF f.zstd THEN f ELSE Compress(f)) \in Embeddable
<1>1. CASE f.zstd
  BY <1>1 DEF VerifyFrame, Embeddable
<1>2. CASE ~f.zstd
  <2>1. f.tree # None
    BY <1>2 DEF File, Empty
  <2>2. Compress(f) \in File /\ Compress(f).zstd /\ Compress(f).intact
    BY <1>2, <2>1 DEF File, Compress
  <2>3. Compress(f).tree = f.tree
    BY DEF File, Compress
  <2>4. QED
    BY <1>2, <2>1, <2>2, <2>3 DEF Embeddable
<1>3. QED
  BY <1>1, <1>2

(* A fresh checkout satisfies the invariant. *)
LEMMA InitInv == Init => Inv
  BY DEF Init, Inv, Types, Written, Consistent, UpToDate, InScript

(* A write to a file is put on record for whoever has asked for it. *)
LEMMA PackInv ==
  ASSUME Inv, NEW p \in Path, Pack(p)
  PROVE  Inv'
<1>1. Types'
  BY DEF Pack, Inv, Types
<1>2. Written' /\ Consistent'
  BY DEF Pack, Inv, Written, Consistent, DigestOut
<1>3. \A q \in Path \cup {None} : q # p => Wanted(q)' = Wanted(q)
  BY DEF Pack, Inv, Types, Wanted
<1>4. asked \in Path \cup {None}
  BY DEF Inv, Types
<1>5. UpToDate'
  <2>1. quiet' \/ ~changed' => (pc = "idle" \/ asked # p)
    BY DEF Pack
  <2>2. ASSUME last # None
        PROVE  /\ last = Directives(last.var) /\ last.var \in Path \cup {None}
               /\ last.var = None \/ ~changed' => out.archive = Wanted(last.var)'
    <3>1. /\ last = Directives(last.var) /\ last.var \in Path \cup {None}
          /\ last.var = None \/ ~changed => out.archive = Wanted(last.var)
      BY <2>2 DEF Inv, UpToDate
    <3>2. last.file = last.var
      BY <3>1 DEF Directives
    <3>3. last.var = None \/ ~changed' => last.var # p /\ (last.var = None \/ ~changed)
      BY <2>2, <3>2, NoValueIsATree DEF Pack
    <3>4. QED
      BY <3>1, <3>3, <1>3 DEF Pack
  <2>3. /\ pc \in {"archive", "digest", "exit"} /\ (asked = None \/ quiet' \/ ~changed')
             => embed = Wanted(asked)'
        /\ pc = "compile" /\ quiet' => out.archive = Wanted(asked)'
        /\ pc = "built" /\ quiet' => binary.archive = Wanted(asked)'
    BY <1>3, <1>4, <2>1, NoValueIsATree DEF Pack, Inv, UpToDate
  <2>4. QED
    BY <2>2, <2>3 DEF Pack, UpToDate, Wanted, Directives
<1>6. QED
  BY <1>1, <1>2, <1>5 DEF Inv

(* Setting the variable disturbs nothing: cargo compares it later. *)
LEMMA SetEnvInv ==
  ASSUME Inv, SetEnv
  PROVE  Inv'
  BY DEF SetEnv, Inv, Types, Written, Consistent, UpToDate, Wanted, Directives, DigestOut

(* cargo runs the script again, or OUT_DIR is what is wanted now. *)
LEMMA CargoInv ==
  ASSUME Inv, Cargo
  PROVE  Inv'
<1>1. Types'
  BY DEF Cargo, Inv, Types, InScript
<1>2. Written' /\ Consistent'
  BY DEF Cargo, Stale, Inv, Written, Consistent, InScript
<1>3. UpToDate'
  <2>1. CASE Stale
    BY <2>1 DEF Cargo, Inv, UpToDate
  <2>2. CASE ~Stale
    <3>1. last # None /\ last = Directives(env)
      BY <2>2 DEF Stale, Inv, UpToDate, Directives
    <3>2. env = None \/ ~changed
      BY <2>2, <3>1 DEF Stale, Directives
    <3>3. out.archive = Wanted(env)
      BY <3>1, <3>2 DEF Inv, UpToDate, Directives
    <3>4. QED
      BY <2>2, <3>3 DEF Cargo, Inv, UpToDate, Wanted
  <2>3. QED
    BY <2>1, <2>2
<1>4. QED
  BY <1>1, <1>2, <1>3 DEF Inv

(* A step of the script to its next place, or to idle when it ends early,
   that leaves OUT_DIR alone. *)
LEMMA PanicInv ==
  ASSUME Inv, Panic
  PROVE  Inv'
  BY DEF Panic, To, Inv, Types, Written, Consistent, UpToDate, Wanted, Directives, InScript

(* The decision for placeholders or an archive. *)
LEMMA MainInv ==
  ASSUME Inv, Main
  PROVE  Inv'
<1>1. Types' /\ Written'
  BY DEF Main, To, Inv, Types, Written, InScript, Embeddable
<1>2. Consistent'
  BY DEF Main, To, Inv, Consistent, InScript
<1>3. UpToDate'
  BY <1>2 DEF Main, To, Inv, UpToDate, Consistent, Wanted, InScript
<1>4. QED
  BY <1>1, <1>2, <1>3 DEF Inv

(* The archive is read, and verified or compressed. *)
LEMMA ReadArchiveInv ==
  ASSUME Inv, ReadArchive
  PROVE  Inv'
<1> DEFINE contents == archive[asked]
<1>1. CASE Panic
  BY <1>1, PanicInv
<1>2. CASE /\ contents \notin {None, Empty}
           /\ contents.zstd => VerifyFrame(contents)
           /\ To("archive")
           /\ embed' = IF contents.zstd THEN contents ELSE Compress(contents)
           /\ UNCHANGED out
  <2>1. contents \in File /\ asked # None
    BY <1>2 DEF ReadArchive, Inv, Types, Written
  <2>2. embed' \in Embeddable
    BY <1>2, <2>1, AcceptedIsEmbeddable
  <2>3. Types' /\ Written'
    BY <1>2, <2>2 DEF To, Inv, Types, Written, InScript
  <2>4. Consistent'
    BY <1>2 DEF ReadArchive, To, Inv, Consistent, InScript
  <2>5. UpToDate'
    BY <1>2, <2>1, <2>4 DEF ReadArchive, To, Inv, UpToDate, Consistent, Wanted, InScript
  <2>6. QED
    BY <2>3, <2>4, <2>5 DEF Inv
<1>3. QED
  BY <1>1, <1>2 DEF ReadArchive

(* A write to OUT_DIR, while cargo remembers no success, which completes and
   leads on or is cut short and ends the script. *)
LEMMA WriteInv ==
  ASSUME Inv, WriteArchive \/ WriteDigest
  PROVE  Inv'
<1>1. Types'
  BY DEF WriteArchive, WriteDigest, WriteOut, To, Inv, Types, InScript
<1>2. Written'
  BY DEF WriteArchive, WriteDigest, WriteOut, To, Inv, Types, Written, DigestOut
<1>3. Consistent'
  BY DEF WriteArchive, WriteDigest, WriteOut, To, Inv, Consistent, InScript
<1>4. UpToDate'
  BY <1>3 DEF WriteArchive, WriteDigest, WriteOut, To, Inv, UpToDate, Consistent, Wanted, InScript
<1>5. QED
  BY <1>1, <1>2, <1>3, <1>4 DEF Inv

(* The script has ended well: from now on cargo relies on what it wrote. *)
LEMMA ScriptExitsInv ==
  ASSUME Inv, ScriptExits
  PROVE  Inv'
<1>1. Types' /\ Written'
  BY DEF ScriptExits, Inv, Types, Written, InScript
<1>2. out = Pair(embed) /\ embed \in Embeddable
  BY DEF ScriptExits, Inv, Types, Written, Pair, DigestOut
<1>3. Consistent'
  BY <1>2 DEF ScriptExits, Inv, Consistent, InScript
<1>4. out.archive = embed /\ asked \in Path \cup {None}
  BY DEF ScriptExits, Inv, Written, Types
<1>5. UpToDate'
  <2>1. last'.var = asked /\ last' = Directives(asked) /\ Wanted(asked)' = Wanted(asked)
    BY DEF ScriptExits, Directives, Wanted
  <2>2. quiet \/ ~changed => out.archive = Wanted(asked)
    BY <1>4 DEF ScriptExits, Inv, UpToDate
  <2>3. asked = None => out.archive = Wanted(asked)
    BY <1>4 DEF ScriptExits, Inv, UpToDate, Wanted
  <2>4. QED
    BY <1>4, <2>1, <2>2, <2>3 DEF ScriptExits, UpToDate
<1>6. QED
  BY <1>1, <1>3, <1>5 DEF Inv

(* The binary includes OUT_DIR, and the call of cargo ends. *)
LEMMA CompileInv ==
  ASSUME Inv, Compile \/ Finish
  PROVE  Inv'
<1>1. Types' /\ Written'
  BY DEF Compile, Finish, To, Inv, Types, Written, InScript
<1>2. Consistent'
  BY DEF Compile, Finish, To, Inv, Consistent, InScript
<1>3. UpToDate'
  BY DEF Compile, Finish, To, Inv, UpToDate, Wanted, Directives
<1>4. QED
  BY <1>1, <1>2, <1>3 DEF Inv

(* Every step preserves the invariant. *)
LEMMA NextInv == Inv /\ [Next]_vars => Inv'
<1> SUFFICES ASSUME Inv, [Next]_vars PROVE Inv'
  OBVIOUS
<1>1. CASE \E p \in Path : Pack(p)
  BY <1>1, PackInv
<1>2. CASE SetEnv \/ Cargo \/ Main \/ ReadArchive
  BY <1>2, SetEnvInv, CargoInv, MainInv, ReadArchiveInv
<1>3. CASE WriteArchive \/ WriteDigest \/ ScriptExits \/ Compile \/ Finish
  BY <1>3, WriteInv, ScriptExitsInv, CompileInv
<1>4. CASE Kill
  BY <1>4, PanicInv DEF Kill
<1>5. CASE UNCHANGED vars
  BY <1>5 DEF vars, Inv, Types, Written, Consistent, UpToDate, Wanted, DigestOut
<1>6. QED
  BY <1>1, <1>2, <1>3, <1>4, <1>5 DEF Next

(* The invariant holds throughout. *)
LEMMA AlwaysInv == Spec => []Inv
  BY InitInv, NextInv, PTL DEF Spec

(* A binary never carries an archive with the digest of another one, or half
   a file: no kill or failure between the two writes of build.rs gets into a
   compilation, since cargo runs the script again first. *)
THEOREM BinaryHasItsDigest == Spec => []DigestIsOfTheArchive
<1>1. Inv => DigestIsOfTheArchive
  BY DEF Inv, Consistent, DigestIsOfTheArchive, Embeddable, Pair
<1>2. QED
  BY <1>1, AlwaysInv, PTL

(* An archive in a binary is an intact zstd frame of something, whatever was
   at the path when build.rs read it: compress and verify_frame. *)
THEOREM BinaryDecodes == Spec => []EmbeddedArchiveDecodes
<1>1. Inv => EmbeddedArchiveDecodes
  BY DEF Inv, Consistent, EmbeddedArchiveDecodes, Embeddable, Pair
<1>2. QED
  BY <1>1, AlwaysInv, PTL

(* A call of cargo that succeeds has embedded the file that the variable
   names, as it is, unless it was written to meanwhile: the directives that
   build.rs prints are enough, also after runs that failed or were killed. *)
THEOREM BinaryIsUpToDate == Spec => []BuildIsUpToDate
<1>1. Inv => BuildIsUpToDate
  BY DEF Inv, UpToDate, BuildIsUpToDate, Current, Wanted
<1>2. QED
  BY <1>1, AlwaysInv, PTL
=============================================================================
