----------------------------- MODULE KrunRunner -----------------------------
(***************************************************************************)
(* Entering the microVM: run, wait_for and enter_vm of                     *)
(* crates/vm-image-builder/src/krun.rs with check_single_threaded, called  *)
(* from a program that may have other threads.                             *)
(*                                                                         *)
(* A fork copies the caller's memory, locks included, and only the thread  *)
(* that forks; libkrun then takes the child over and ends it with the      *)
(* workload's exit code, which the parent reaps and turns into a result.   *)
(***************************************************************************)
EXTENDS Naturals

CONSTANTS
  Thread,   \* the other threads the calling program may have
  Code,     \* exit codes of the workload, vm-build
  Faults,   \* calls that may fail: "args", "count", "fork", "wait", "krun"
  Caller,   \* the thread that calls run
  None

EXIT_SETUP_FAILED == 119

EXIT_ENTER_FAILED == 118

ASSUME CodesAreBytes == Code \subseteq 0..255

ASSUME CallerIsOneThread == Caller \notin Thread /\ None \notin Thread \cup {Caller}

ASSUME NoneIsNoResult ==
  /\ \A e \in {"Ok", "Io", "Path", "MultiThreaded", "Krun"} : None # <<e>>
  /\ \A c \in 0..255 : None # c /\ None # <<"Failed", c>> /\ None # <<"Failed", None>>

VARIABLES
  pc,         \* where run is
  alive,      \* the other threads
  lock,       \* the thread that holds a lock of the C library, or None
  child,      \* where the forked child is
  childLock,  \* that lock in the child's copy of the memory
  status,     \* how the child ended: <<"exit", code>> or <<"signal">>
  result      \* what run returns

vars == <<pc, alive, lock, child, childLock, status, result>>

Init ==
  /\ pc = "start"
  /\ alive \in SUBSET Thread
  /\ lock = None
  /\ child = "none" /\ childLock = None /\ status = None
  /\ result = None

Return(r) == pc' = "returned" /\ result' = r

(***************************************************************************)
(* The other threads of the program.                                       *)
(***************************************************************************)
SpawnThread(t) ==
  /\ alive # {} /\ t \notin alive
  /\ alive' = alive \cup {t}
  /\ UNCHANGED <<pc, lock, child, childLock, status, result>>

EndThread(t) ==
  /\ t \in alive /\ lock # t
  /\ alive' = alive \ {t}
  /\ UNCHANGED <<pc, lock, child, childLock, status, result>>

TakeLock(t) ==
  /\ t \in alive /\ lock = None
  /\ lock' = t
  /\ UNCHANGED <<pc, alive, child, childLock, status, result>>

ReleaseLock(t) ==
  /\ lock = t
  /\ lock' = None
  /\ UNCHANGED <<pc, alive, child, childLock, status, result>>

(***************************************************************************)
(* run, in the caller                                                      *)
(***************************************************************************)

(* Args::new copies every argument, so the caller takes the allocator's lock
   and gives it back.  A path that is not UTF-8 or an argument with a NUL
   inside cannot be handed to libkrun. *)
MakeArgs ==
  /\ pc = "start" /\ lock = None
  /\ \/ pc' = "check" /\ UNCHANGED result
     \/ "args" \in Faults /\ \E error \in {"Io", "Path"} : Return(<<error>>)
  /\ UNCHANGED <<alive, lock, child, childLock, status>>

(* Mutant: a program with one more thread is let through. *)
CheckOffByOne ==
  /\ pc = "check"
  /\ \/ "count" \in Faults /\ Return(<<"Io">>)
     \/ \E t, u \in alive : t # u /\ Return(<<"MultiThreaded">>)
     \/ (\A t, u \in alive : t = u) /\ pc' = "fork" /\ UNCHANGED result
  /\ UNCHANGED <<alive, lock, child, childLock, status>>

CheckSingleThreaded ==
  /\ pc = "check"
  /\ \/ "count" \in Faults /\ Return(<<"Io">>)
     \/ alive # {} /\ Return(<<"MultiThreaded">>)
     \/ alive = {} /\ pc' = "fork" /\ UNCHANGED result
  /\ UNCHANGED <<alive, lock, child, childLock, status>>

Fork ==
  /\ pc = "fork"
  /\ \/ /\ pc' = "wait"
        /\ child' = "setup" /\ childLock' = lock
        /\ UNCHANGED result
     \/ "fork" \in Faults /\ Return(<<"Io">>) /\ UNCHANGED <<child, childLock>>
  /\ UNCHANGED <<alive, lock, status>>

(* Mutant: a child killed by a signal has WEXITSTATUS zero. *)
VerdictOfExitStatusOnly(s) ==
  IF s = <<"signal">> \/ s = <<"exit", 0>> THEN <<"Ok">>
  ELSE IF s[2] \in {EXIT_SETUP_FAILED, EXIT_ENTER_FAILED} THEN <<"Krun">>
  ELSE <<"Failed", s[2]>>

(* What wait_for makes of the status of the child. *)
Verdict(s) ==
  IF s = <<"signal">> THEN <<"Failed", None>>
  ELSE IF s[2] = 0 THEN <<"Ok">>
  ELSE IF s[2] \in {EXIT_SETUP_FAILED, EXIT_ENTER_FAILED} THEN <<"Krun">>
  ELSE <<"Failed", s[2]>>

(* Mutant: an interrupted waitpid is taken for an error. *)
WaitForOnce ==
  /\ pc = "wait"
  /\ \/ child = "ended" /\ child' = "reaped" /\ Return(Verdict(status))
     \/ Return(<<"Io">>) /\ UNCHANGED child
  /\ UNCHANGED <<alive, lock, childLock, status>>

(* wait_for blocks until the child has ended; an interrupted waitpid is
   called again.  When the program has set SIGCHLD to be ignored the child is
   reaped by the system and waitpid reports ECHILD. *)
WaitFor ==
  /\ pc = "wait" /\ child = "ended"
  /\ child' = "reaped"
  /\ \/ Return(Verdict(status))
     \/ "wait" \in Faults /\ Return(<<"Io">>)
  /\ UNCHANGED <<alive, lock, childLock, status>>

(***************************************************************************)
(* enter_vm, in the child.  It allocates, so it needs the lock it has      *)
(* inherited; its six configuration calls all run before any is checked.   *)
(***************************************************************************)
ChildExits(c) == child' = "ended" /\ status' = <<"exit", c>>

EnterVm ==
  /\ child = "setup" /\ childLock = None
  /\ \/ child' = "vm" /\ UNCHANGED status
     \/ "krun" \in Faults /\ ChildExits(EXIT_SETUP_FAILED)
     \/ "krun" \in Faults /\ ChildExits(EXIT_ENTER_FAILED)
  /\ UNCHANGED <<pc, alive, lock, childLock, result>>

(* libkrun ends the child with the workload's exit code. *)
VmEnds ==
  /\ child = "vm"
  /\ \E c \in Code : ChildExits(c)
  /\ UNCHANGED <<pc, alive, lock, childLock, result>>

ChildKilled ==
  /\ child \in {"setup", "vm"}
  /\ child' = "ended" /\ status' = <<"signal">>
  /\ UNCHANGED <<pc, alive, lock, childLock, result>>

Idle == pc = "returned" /\ UNCHANGED vars

ThreadStep(t) == SpawnThread(t) \/ EndThread(t) \/ TakeLock(t) \/ ReleaseLock(t)

RunStep == MakeArgs \/ CheckSingleThreaded \/ Fork \/ WaitFor

Next ==
  \/ \E t \in Thread : ThreadStep(t)
  \/ RunStep
  \/ EnterVm \/ VmEnds \/ ChildKilled
  \/ Idle

(***************************************************************************)
(* The scheduler runs the caller and the child, a thread gives a lock back *)
(* after some time, and the workload ends after some time.  The caller's   *)
(* allocation gets the lock although other threads use it (strong          *)
(* fairness: it queues for a lock that is free again and again).           *)
(***************************************************************************)
Fairness ==
  /\ SF_vars(MakeArgs) /\ WF_vars(CheckSingleThreaded) /\ WF_vars(Fork) /\ WF_vars(WaitFor)
  /\ WF_vars(EnterVm) /\ WF_vars(VmEnds)
  /\ \A t \in Thread : WF_vars(ReleaseLock(t))

Spec == Init /\ [][Next]_vars /\ Fairness

-----------------------------------------------------------------------------
(* The child never starts with a lock held by a thread that it does not
   have: check_single_threaded comes immediately before the fork, and no
   thread can appear between the two. *)
NoInheritedLock == child # "none" => childLock = None

(* Success is reported only when the workload ended with exit code zero, and
   a failure carries the workload's own code. *)
ReportsTheWorkload ==
  /\ result = <<"Ok">> => status = <<"exit", 0>>
  /\ \A c \in 0..255 : result = <<"Failed", c>> => status = <<"exit", c>>

(* The call of run as its caller sees it.  The answer that fits an exit code
   is stated here once more, apart from wait_for. *)
Phase ==
  IF pc = "returned" THEN "returned"
  ELSE IF child = "none" THEN "called"
  ELSE IF child \in {"setup", "vm"} THEN "running" ELSE "over"

Ending ==
  IF child \in {"none", "setup", "vm"} THEN None
  ELSE IF status = <<"exit", 0>> THEN "Ok"
  ELSE IF status \in {<<"exit", EXIT_SETUP_FAILED>>, <<"exit", EXIT_ENTER_FAILED>>} THEN "Krun"
  ELSE "Failed"

Contract == INSTANCE VmRunner WITH
  Call <- {Caller}, phase <- [c \in {Caller} |-> Phase], end <- [c \in {Caller} |-> Ending],
  answer <- [c \in {Caller} |-> IF result = None THEN None ELSE result[1]]

(* KrunRunner::run is what the VmRunner trait promises: it refuses before the
   fork, or waits for its one VM and answers for the way it ended. *)
RunImplementsRunner == Contract!Spec

(* run never hangs: in a program with other threads too it returns, since it
   does not leave a child waiting for a lock for ever. *)
RunReturns == <>(pc = "returned")
=============================================================================
