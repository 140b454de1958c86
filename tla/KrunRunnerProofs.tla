------------------------- MODULE KrunRunnerProofs -------------------------
(***************************************************************************)
(* Proofs about KrunRunner, for any number of other threads and whatever   *)
(* calls fail: the forked child inherits no lock, run leaves no VM behind, *)
(* and what it reports is what the workload did.                           *)
(***************************************************************************)
EXTENDS KrunRunner, TLAPS

(***************************************************************************)
(* The inductive invariant, in parts.                                      *)
(***************************************************************************)

(* A lock is held by a thread that is there: none ends with the lock. *)
HolderIsAlive == alive \subseteq Thread /\ lock \in alive \cup {None}

(* Between the count and the fork the caller is the only thread, and stays
   so: only another thread could start one. *)
AloneAtFork == pc = "fork" => alive = {}

(* The child at each point of run. *)
ChildOfRun ==
  /\ pc \in {"start", "check", "fork", "wait", "returned"}
  /\ pc \in {"start", "check", "fork"} => child = "none"
  /\ pc = "wait" => child \in {"setup", "vm", "ended"}
  /\ pc = "returned" => child \in {"none", "reaped"}

(* A child that has ended was killed or has left an exit code. *)
StatusOfChild ==
  child \in {"ended", "reaped"} =>
    status = <<"signal">> \/ \E c \in 0..255 : status = <<"exit", c>>

(* run refuses, or says what wait_for has made of the child's status. *)
ResultOfRun ==
  /\ pc # "returned" => result = None
  /\ pc = "returned" =>
       \/ result \in {<<"Io">>, <<"Path">>, <<"MultiThreaded">>}
       \/ child = "reaped" /\ result = Verdict(status)

(* A VM never outlives the call that started it, whatever run returns. *)
NoVmLeftBehind == pc = "returned" => child \in {"none", "reaped"}

Inv == HolderIsAlive /\ AloneAtFork /\ ChildOfRun /\ StatusOfChild /\ ResultOfRun /\ NoInheritedLock
-----------------------------------------------------------------------------
(* A program that is about to call run satisfies the invariant. *)
LEMMA InitInv == Init => Inv
  BY DEF Init, Inv, HolderIsAlive, AloneAtFork, ChildOfRun, StatusOfChild, ResultOfRun,
     NoInheritedLock

(* The other threads come, go and use the lock without disturbing it. *)
LEMMA ThreadInv ==
  ASSUME Inv, NEW t \in Thread, ThreadStep(t)
  PROVE  Inv'
<1>1. HolderIsAlive'
  BY CallerIsOneThread DEF ThreadStep, SpawnThread, EndThread, TakeLock, ReleaseLock, Inv, HolderIsAlive
<1>2. AloneAtFork'
  BY DEF ThreadStep, SpawnThread, EndThread, TakeLock, ReleaseLock, Inv, AloneAtFork
<1>3. ChildOfRun' /\ StatusOfChild' /\ ResultOfRun' /\ NoInheritedLock'
  BY DEF ThreadStep, SpawnThread, EndThread, TakeLock, ReleaseLock, Inv, ChildOfRun,
     StatusOfChild, ResultOfRun, NoInheritedLock, Verdict
<1>4. QED
  BY <1>1, <1>2, <1>3 DEF Inv

(* Copying the arguments and counting the threads: run goes on to the fork
   only when it is alone. *)
LEMMA PrepareInv ==
  ASSUME Inv, MakeArgs \/ CheckSingleThreaded
  PROVE  Inv'
<1>1. HolderIsAlive' /\ AloneAtFork' /\ ChildOfRun'
  BY DEF MakeArgs, CheckSingleThreaded, Return, Inv, HolderIsAlive, AloneAtFork, ChildOfRun
<1>2. StatusOfChild' /\ NoInheritedLock'
  BY DEF MakeArgs, CheckSingleThreaded, Inv, StatusOfChild, NoInheritedLock
<1>3. ResultOfRun'
  BY DEF MakeArgs, CheckSingleThreaded, Return, Inv, ChildOfRun, ResultOfRun
<1>4. QED
  BY <1>1, <1>2, <1>3 DEF Inv

(* The fork copies a lock that nobody holds: the caller is alone, and who
   holds the lock is alive. *)
LEMMA ForkInv ==
  ASSUME Inv, Fork
  PROVE  Inv'
<1>1. lock = None
  BY DEF Fork, Inv, HolderIsAlive, AloneAtFork
<1>2. NoInheritedLock'
  BY <1>1 DEF Fork, Inv, NoInheritedLock
<1>3. HolderIsAlive' /\ AloneAtFork' /\ ChildOfRun'
  BY DEF Fork, Return, Inv, HolderIsAlive, AloneAtFork, ChildOfRun
<1>4. StatusOfChild' /\ ResultOfRun'
  BY DEF Fork, Return, Inv, ChildOfRun, StatusOfChild, ResultOfRun
<1>5. QED
  BY <1>2, <1>3, <1>4 DEF Inv

(* wait_for returns only with the child reaped, and with its verdict. *)
LEMMA WaitForInv ==
  ASSUME Inv, WaitFor
  PROVE  Inv'
<1>1. HolderIsAlive' /\ AloneAtFork' /\ ChildOfRun'
  BY DEF WaitFor, Return, Inv, HolderIsAlive, AloneAtFork, ChildOfRun
<1>2. StatusOfChild' /\ NoInheritedLock'
  BY DEF WaitFor, Return, Inv, StatusOfChild, NoInheritedLock
<1>3. ResultOfRun'
  BY DEF WaitFor, Return, ResultOfRun, Verdict
<1>4. QED
  BY <1>1, <1>2, <1>3 DEF Inv

(* The child sets up its VM, runs it and ends, or is killed, while run waits
   for it. *)
LEMMA ChildInv ==
  ASSUME Inv, EnterVm \/ VmEnds \/ ChildKilled
  PROVE  Inv'
<1>1. pc = "wait"
  BY DEF EnterVm, VmEnds, ChildKilled, Inv, ChildOfRun
<1>2. HolderIsAlive' /\ AloneAtFork' /\ ChildOfRun' /\ NoInheritedLock'
  BY <1>1 DEF EnterVm, VmEnds, ChildKilled, ChildExits, Inv, HolderIsAlive, AloneAtFork,
     ChildOfRun, NoInheritedLock
<1>3. StatusOfChild'
  BY CodesAreBytes DEF EnterVm, VmEnds, ChildKilled, ChildExits, Inv, StatusOfChild,
     EXIT_SETUP_FAILED, EXIT_ENTER_FAILED
<1>4. ResultOfRun'
  BY <1>1 DEF EnterVm, VmEnds, ChildKilled, Inv, ResultOfRun
<1>5. QED
  BY <1>2, <1>3, <1>4 DEF Inv

(* Every step preserves the invariant. *)
LEMMA NextInv == Inv /\ [Next]_vars => Inv'
<1> SUFFICES ASSUME Inv, [Next]_vars PROVE Inv'
  OBVIOUS
<1>1. CASE \E t \in Thread : ThreadStep(t)
  BY <1>1, ThreadInv
<1>2. CASE RunStep
  BY <1>2, PrepareInv, ForkInv, WaitForInv DEF RunStep
<1>3. CASE EnterVm \/ VmEnds \/ ChildKilled
  BY <1>3, ChildInv
<1>4. CASE UNCHANGED vars
  BY <1>4 DEF vars, Inv, HolderIsAlive, AloneAtFork, ChildOfRun, StatusOfChild, ResultOfRun,
     NoInheritedLock, Verdict
<1>5. QED
  BY <1>1, <1>2, <1>3, <1>4 DEF Next, Idle

(* The invariant holds in every state of a call of run. *)
LEMMA AlwaysInv == Spec => []Inv
  BY InitInv, NextInv, PTL DEF Spec

(* The forked child never starts with a lock that a thread it does not have
   would have to release, whatever threads the program has and whenever they
   start, end or allocate: check_single_threaded before fork in run. *)
THEOREM ForkInheritsNoLock == Spec => []NoInheritedLock
<1>1. Inv => NoInheritedLock
  BY DEF Inv
<1>2. QED
  BY <1>1, AlwaysInv, PTL

(* When run has returned, its child was never there or has ended and was
   reaped: no error path of run or wait_for leaves a VM behind. *)
THEOREM RunLeavesNoVm == Spec => []NoVmLeftBehind
<1>1. Inv => NoVmLeftBehind
  BY DEF Inv, ChildOfRun, NoVmLeftBehind
<1>2. QED
  BY <1>1, AlwaysInv, PTL

(* Success means that the workload has ended with exit code zero, and a
   failure with a code that it has ended with this code: what wait_for makes
   of a status, sentinel codes and signals included. *)
THEOREM RunReportsTheWorkload == Spec => []ReportsTheWorkload
<1>1. Inv => ReportsTheWorkload
  <2> SUFFICES ASSUME Inv, result = <<"Ok">> \/ \E c \in 0..255 : result = <<"Failed", c>>
               PROVE  ReportsTheWorkload
    BY DEF ReportsTheWorkload
  <2>1. result = Verdict(status) /\ child = "reaped"
    BY NoneIsNoResult DEF Inv, ResultOfRun
  <2>2. CASE status = <<"signal">>
    <3>1. result = <<"Failed", None>>
      BY <2>1, <2>2 DEF Verdict
    <3>2. QED
      BY <3>1, NoneIsNoResult DEF ReportsTheWorkload
  <2>3. CASE \E c \in 0..255 : status = <<"exit", c>>
    <3>1. PICK d \in 0..255 : status = <<"exit", d>>
      BY <2>3
    <3>2. QED
      BY <3>1, <2>1 DEF Verdict, ReportsTheWorkload
  <2>4. QED
    BY <2>1, <2>2, <2>3 DEF Inv, StatusOfChild
<1>2. QED
  BY <1>1, AlwaysInv, PTL

-----------------------------------------------------------------------------
(***************************************************************************)
(* run implements the VmRunner trait.  The variables of the contract:      *)
(***************************************************************************)
Phases == [c \in {Caller} |-> Phase]

Ends == [c \in {Caller} |-> Ending]

Answers == [c \in {Caller} |-> IF result = None THEN None ELSE result[1]]

(* A step that goes from one phase to the next sets the one entry there is. *)
LEMMA OneCall ==
  ASSUME NEW x, NEW y
  PROVE  [c \in {Caller} |-> y] = [[c \in {Caller} |-> x] EXCEPT ![Caller] = y]
  OBVIOUS

(* Before the fork run gets nearer to it, or refuses. *)
LEMMA PrepareRefines ==
  ASSUME Inv, MakeArgs \/ CheckSingleThreaded \/ Fork
  PROVE  Contract!Next \/ UNCHANGED <<Phases, Ends, Answers>>
<1>1. /\ Phase = "called" /\ Ending = None /\ result = None /\ child = "none"
      /\ pc \in {"start", "check", "fork"}
  BY DEF MakeArgs, CheckSingleThreaded, Fork, Inv, ChildOfRun, ResultOfRun, Phase, Ending
<1>2. CASE pc' \in {"check", "fork"} /\ UNCHANGED <<child, result>>
  <2>1. Phase' = "called" /\ Ending' = None /\ result' = None
    BY <1>1, <1>2 DEF Phase, Ending
  <2>2. QED
    BY <1>1, <2>1 DEF Phases, Ends, Answers
<1>3. CASE pc' = "wait" /\ child' = "setup" /\ UNCHANGED result
  <2>1. Phase' = "running" /\ Ending' = None /\ result' = None
    BY <1>1, <1>3 DEF Phase, Ending
  <2>2. Contract!Begin(Caller)
    BY <1>1, <2>1, OneCall DEF Contract!Begin, Contract!Goto
  <2>3. QED
    BY <2>2 DEF Contract!Next
<1>4. ASSUME NEW r \in {"Io", "Path", "MultiThreaded"}, Return(<<r>>), UNCHANGED child
      PROVE  Contract!Next
  <2>1. Phase' = "returned" /\ Ending' = None /\ result' = <<r>> /\ result' # None
    BY <1>1, <1>4, NoneIsNoResult DEF Phase, Ending, Return
  <2>2. <<r>>[1] = r
    OBVIOUS
  <2>3. Contract!Refuse(Caller)
    BY <1>1, <1>4, <2>1, <2>2, OneCall DEF Contract!Refuse, Contract!Goto
  <2>4. QED
    BY <2>3 DEF Contract!Next
<1>5. QED
  BY <1>2, <1>3, <1>4 DEF MakeArgs, CheckSingleThreaded, Fork

(* The child goes on, or ends in some way. *)
LEMMA ChildRefines ==
  ASSUME Inv, EnterVm \/ VmEnds \/ ChildKilled
  PROVE  Contract!Next \/ UNCHANGED <<Phases, Ends, Answers>>
<1>1. /\ pc = "wait" /\ pc' = "wait" /\ child \in {"setup", "vm"} /\ result' = result
  BY DEF EnterVm, VmEnds, ChildKilled, Inv, ChildOfRun
<1>2. Phase = "running" /\ Ending = None
  BY <1>1 DEF Phase, Ending
<1>3. CASE child' = "vm"
  <2>1. Phase' = "running" /\ Ending' = None
    BY <1>1, <1>3 DEF Phase, Ending
  <2>2. QED
    BY <1>1, <1>2, <2>1 DEF Phases, Ends, Answers
<1>4. CASE child' = "ended"
  <2>1. Phase' = "over" /\ Ending' \in {"Ok", "Krun", "Failed"}
    BY <1>1, <1>4 DEF Phase, Ending
  <2>2. Contract!End(Caller)
    BY <1>1, <1>2, <2>1, OneCall DEF Contract!End, Contract!Goto
  <2>3. QED
    BY <2>2 DEF Contract!Next
<1>5. QED
  BY <1>3, <1>4 DEF EnterVm, VmEnds, ChildKilled, ChildExits

(* What wait_for makes of a status is the answer that fits it. *)
LEMMA VerdictFits ==
  ASSUME Inv, child = "ended"
  PROVE  Verdict(status)[1] = Ending /\ Verdict(status) # None
<1>1. CASE status = <<"signal">>
  <2>1. Verdict(status) = <<"Failed", None>>
    BY <1>1 DEF Verdict
  <2>2. Ending = "Failed"
    BY <1>1 DEF Ending
  <2>3. QED
    BY <2>1, <2>2, NoneIsNoResult
<1>2. ASSUME NEW c \in 0..255, status = <<"exit", c>>
      PROVE  Verdict(status)[1] = Ending /\ Verdict(status) # None
  <2>1. status # <<"signal">> /\ status[2] = c /\ \A d : status = <<"exit", d>> <=> c = d
    BY <1>2
  <2>2. CASE c = 0
    BY <2>1, <2>2, NoneIsNoResult DEF Verdict, Ending
  <2>3. CASE c \in {EXIT_SETUP_FAILED, EXIT_ENTER_FAILED}
    BY <2>1, <2>3, NoneIsNoResult DEF Verdict, Ending, EXIT_SETUP_FAILED, EXIT_ENTER_FAILED
  <2>4. CASE c # 0 /\ c \notin {EXIT_SETUP_FAILED, EXIT_ENTER_FAILED}
    <3>1. Verdict(status) = <<"Failed", c>>
      BY <2>1, <2>4 DEF Verdict
    <3>2. Ending = "Failed"
      BY <2>1, <2>4 DEF Ending
    <3>3. QED
      BY <3>1, <3>2, NoneIsNoResult
  <2>5. QED
    BY <2>2, <2>3, <2>4
<1>3. QED
  BY <1>1, <1>2 DEF Inv, StatusOfChild

(* run returns from the wait with that answer, or with none of its own. *)
LEMMA WaitRefines ==
  ASSUME Inv, WaitFor
  PROVE  Contract!Next
<1>1. pc = "wait" /\ child = "ended" /\ Phase = "over"
  BY DEF WaitFor, Phase
<1>2. Phase' = "returned" /\ Ending' = Ending
  BY <1>1 DEF WaitFor, Return, Phase, Ending
<1>3. result' # None /\ result'[1] \in {Ending, "Io"}
  BY <1>1, VerdictFits, NoneIsNoResult DEF WaitFor, Return
<1>4. Contract!Answer(Caller)
  BY <1>1, <1>2, <1>3, OneCall DEF Contract!Answer, Contract!Goto
<1>5. QED
  BY <1>4 DEF Contract!Next

(* KrunRunner::run keeps the promise of the trait, whatever threads the program
   has and whatever fails: it refuses before there is a VM, or answers once its
   VM has ended, and truly. *)
THEOREM RunKeepsItsPromise == Spec => RunImplementsRunner
<1>1. Init => Contract!Init
  BY DEF Init, Contract!Init, Phase, Ending
<1>2. Inv /\ [Next]_vars => [Contract!Next]_<<Phases, Ends, Answers>>
  <2> SUFFICES ASSUME Inv, [Next]_vars PROVE Contract!Next \/ UNCHANGED <<Phases, Ends, Answers>>
    OBVIOUS
  <2>1. CASE UNCHANGED <<pc, child, status, result>>
    BY <2>1 DEF Phases, Ends, Answers, Phase, Ending
  <2>2. CASE \E t \in Thread : ThreadStep(t)
    BY <2>1, <2>2 DEF ThreadStep, SpawnThread, EndThread, TakeLock, ReleaseLock
  <2>3. QED
    BY <2>1, <2>2, PrepareRefines, ChildRefines, WaitRefines DEF Next, RunStep, Idle, vars
<1>3. QED
  BY <1>1, <1>2, AlwaysInv, PTL DEF Spec, RunImplementsRunner, Contract!Spec, Phases, Ends, Answers
=============================================================================
