------------------------------ MODULE VmRunner ------------------------------
(***************************************************************************)
(* What a caller of the VmRunner trait may rely on ("runs `build` to       *)
(* completion"), and with it a caller of build, which passes the answer    *)
(* on: a call is refused before there is a VM, or its one VM runs, ends    *)
(* and is answered for; nothing runs on once an answer was given.  Only a  *)
(* caller that is killed abandons its call.                                *)
(***************************************************************************)
CONSTANTS
  Call,  \* the calls under way
  None

VARIABLES
  phase,  \* where each call is
  end,    \* how its VM ended, once it has: the answer that fits
  answer  \* what it returned

Init ==
  /\ phase = [c \in Call |-> "called"]
  /\ end = [c \in Call |-> None]
  /\ answer = [c \in Call |-> None]

Goto(c, p) == phase' = [phase EXCEPT ![c] = p]

Refuse(c) ==
  /\ phase[c] = "called" /\ Goto(c, "returned")
  /\ \E r \in {"Io", "Path", "Rootfs", "Unsupported", "MultiThreaded"} :
       answer' = [answer EXCEPT ![c] = r]
  /\ UNCHANGED end

Begin(c) == phase[c] = "called" /\ Goto(c, "running") /\ UNCHANGED <<end, answer>>

(* A VM that cannot be set up is over before it runs. *)
End(c) ==
  /\ phase[c] \in {"called", "running"} /\ Goto(c, "over")
  /\ \E e \in {"Ok", "Krun", "Failed"} :
       /\ phase[c] = "called" => e = "Krun"
       /\ end' = [end EXCEPT ![c] = e]
  /\ UNCHANGED answer

(* How the VM ended may be lost on the way, and nothing else is said then. *)
Answer(c) ==
  /\ phase[c] = "over" /\ Goto(c, "returned")
  /\ \E a \in {end[c], "Io"} : answer' = [answer EXCEPT ![c] = a]
  /\ UNCHANGED end

Abandon(c) ==
  /\ phase[c] # "abandoned" /\ Goto(c, "abandoned")
  /\ end' = [end EXCEPT ![c] = None]
  /\ answer' = [answer EXCEPT ![c] = None]

Next == \E c \in Call : Refuse(c) \/ Begin(c) \/ End(c) \/ Answer(c) \/ Abandon(c)

Spec == Init /\ [][Next]_<<phase, end, answer>>
=============================================================================
