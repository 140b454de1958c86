------------------------------- MODULE MCCli -------------------------------
(* Small instances of Cli for TLC. *)
EXTENDS Cli, SequencesExt

Words(n) == SeqOf({"a", ".", "/", ":"}, n)

Plain ==
  [tag |-> <<"a", ":", "b">>, runtime |-> "vm", from |-> <<"a">>, copy |-> FALSE, rootfs |-> None,
   output |-> None, cpus |-> None, memory |-> None, dns |-> None]

(* Every set of flags with every runtime, *)
Flags ==
  {[Plain EXCEPT !.runtime = r, !.rootfs = d, !.output = o, !.cpus = c, !.memory = m, !.dns = n] :
     r \in Runtime, d \in {None, "dir"}, o \in {None, <<"b">>}, c \in {None, 0, 1},
     m \in {None, 0, 1}, n \in {None, "reachable", "unreachable"}}

(* every short tag and output path, *)
Outputs ==
  {[Plain EXCEPT !.tag = t, !.output = o] :
     t \in Words(3), o \in {None, <<".", ".">>, <<"b", "/">>, <<"b", "/", "a">>}}
  \cup {[Plain EXCEPT !.output = o] : o \in Words(4)}

(* and every short image reference. *)
References ==
  {[Plain EXCEPT !.runtime = r, !.from = f, !.copy = c] :
     r \in Runtime, f \in SeqOf({"a", ":"} \cup Blank, 3), c \in BOOLEAN}

AllCommandLines == Flags \cup Outputs \cup References
=============================================================================
