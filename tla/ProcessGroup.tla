---------------------------- MODULE ProcessGroup ----------------------------
(***************************************************************************)
(* A command of the end-to-end tests and the process group it runs in:     *)
(* Process::group_gone, Process::stop, its Drop and command_output of      *)
(* tests/e2e/mod.rs.                                                       *)
(*                                                                         *)
(* The command is a leader with descendants that may outlive it.  The      *)
(* group's id is the leader's pid: it is taken as long as the leader is    *)
(* not reaped or a descendant lives, and after that it may be given to     *)
(* others.  Deadlines may pass at any time, but a window is long enough    *)
(* for one attempt to signal the group.                                    *)
(***************************************************************************)
EXTENDS Naturals

CONSTANTS
  Leader,  \* the process that is spawned
  Kid,     \* the descendants it may have
  Faults   \* "deny": a signal is refused (EPERM); "intr": kill is interrupted;
           \* "wait": try_wait fails

VARIABLES
  living,    \* the processes of the group that run
  reaped,    \* whether the leader has been waited for
  doomed,    \* those that were sent SIGKILL
  stranger,  \* the id is that of other processes
  pc,        \* where the test driver is
  window,    \* stop: round 1 for SIGTERM or 2 for SIGKILL, whether its signal
             \*   is sent and whether kill was answered at all
  timeout,   \* the wait for the leader has ended at its deadline
  verdict,   \* what command_output returns: "none" yet, "ok" or "error"
  obstacle,  \* the calls that have failed so far
  stray      \* a signal has reached other processes

groupVars == <<living, doomed, stranger>>
driverVars == <<reaped, pc, window, timeout, verdict, obstacle, stray>>
vars == <<groupVars, driverVars>>

Window(r) == [round |-> r, signalled |-> FALSE, answered |-> FALSE]

Init ==
  /\ living = {Leader} /\ doomed = {} /\ stranger = FALSE
  /\ reaped = FALSE /\ pc = "poll" /\ window = Window(1) /\ timeout = FALSE
  /\ verdict = "none" /\ obstacle = {} /\ stray = FALSE

(***************************************************************************)
(* The processes                                                           *)
(***************************************************************************)
Gone == living = {} /\ reaped

Exits(p) ==
  /\ p \in living
  /\ living' = living \ {p}
  /\ UNCHANGED <<doomed, stranger, driverVars>>

Spawn(k) ==
  /\ k \notin living \cup doomed /\ living \ doomed # {}
  /\ living' = living \cup {k}
  /\ UNCHANGED <<doomed, stranger, driverVars>>

(* The system gives a free id to other processes, and takes it back. *)
Others ==
  /\ Gone
  /\ stranger' = ~stranger
  /\ UNCHANGED <<living, doomed, driverVars>>

(***************************************************************************)
(* command_output                                                          *)
(***************************************************************************)
Fails(call) == call \in Faults /\ obstacle' = obstacle \cup {call}

(* try_wait reaps a leader that has ended. *)
TryWait == reaped' = (Leader \notin living)

(* Wait for the leader or for the deadline. *)
Poll ==
  /\ pc = "poll"
  /\ \/ TryWait /\ pc' = "stop" /\ timeout' = (Leader \in living)
        /\ UNCHANGED <<verdict, obstacle>>
     \/ Fails("wait") /\ verdict' = "error" /\ pc' = "drop" /\ UNCHANGED <<reaped, timeout>>
  /\ UNCHANGED <<groupVars, window, stray>>

(* stop returns to command_output, where its error is one too, or to Drop,
   where it is only printed. *)
Return(ok) ==
  IF verdict # "none" THEN pc' = "done" /\ UNCHANGED verdict
  ELSE IF ok THEN pc' = "read" /\ UNCHANGED verdict
  ELSE pc' = "drop" /\ verdict' = "error"

(* Output and log, then the status of the command and its exit code. *)
ReadOutput ==
  /\ pc = "read"
  /\ pc' = "drop"
  /\ verdict' \in IF timeout THEN {"error"} ELSE {"ok", "error"}
  /\ UNCHANGED <<groupVars, reaped, window, timeout, obstacle, stray>>

Drop ==
  /\ pc = "drop"
  /\ pc' = "stop"
  /\ UNCHANGED <<groupVars, reaped, window, timeout, verdict, obstacle, stray>>

(***************************************************************************)
(* stop                                                                    *)
(***************************************************************************)

(* Mutant: the end of the leader is taken for the end of the group. *)
GroupGoneWithLeader(waited) == Leader \notin living

(* group_gone: signal 0 finds no process of the group, and a leader that has
   ended is one until it was waited for; EPERM is the answer of a group that is
   there. *)
GroupGone(waited) == living = {} /\ waited /\ ~stranger

Stop ==
  /\ pc = "stop"
  /\ \/ /\ TryWait /\ UNCHANGED obstacle
        /\ IF GroupGone(reaped')
             THEN Return(TRUE) /\ UNCHANGED window
             ELSE pc' = "loop" /\ window' = Window(1) /\ UNCHANGED verdict
     \/ Fails("wait") /\ Return(FALSE) /\ UNCHANGED <<reaped, window>>
  /\ UNCHANGED <<groupVars, timeout, stray>>

(* One turn of the loop, within the deadline of the window. *)
LoopTurn ==
  /\ pc = "loop"
  /\ \/ /\ TryWait /\ UNCHANGED obstacle
        /\ \/ GroupGone(reaped') /\ Return(TRUE)
           \/ ~GroupGone(reaped') /\ ~window.signalled /\ pc' = "signal" /\ UNCHANGED verdict
           \/ ~GroupGone(reaped') /\ window.signalled /\ UNCHANGED <<pc, verdict>>
     \/ Fails("wait") /\ Return(FALSE) /\ UNCHANGED reaped
  /\ UNCHANGED <<groupVars, window, timeout, stray>>

(* Mutant: SIGTERM is all there is. *)
NextWindowNone ==
  Return(FALSE) /\ UNCHANGED window

(* SIGKILL after SIGTERM, and an error after SIGKILL. *)
NextWindow ==
  \/ window.round = 1 /\ window' = Window(2) /\ UNCHANGED <<pc, verdict>>
  \/ window.round = 2 /\ Return(FALSE) /\ UNCHANGED window

(* Mutant: the deadline is looked at only when the signal is out. *)
WindowEndsOnceSignalled ==
  /\ pc = "loop" /\ window.signalled
  /\ NextWindow
  /\ UNCHANGED <<groupVars, reaped, timeout, obstacle, stray>>

WindowEnds ==
  /\ pc = "loop" /\ window.answered
  /\ NextWindow
  /\ UNCHANGED <<groupVars, reaped, timeout, obstacle, stray>>

(* kill with the signal of the window, to the processes the id names now;
   ESRCH when it names none. *)
Signal ==
  /\ pc = "signal"
  /\ IF Gone /\ ~stranger THEN Return(TRUE) /\ UNCHANGED <<doomed, stray, obstacle, window>>
     ELSE /\ pc' = "loop" /\ UNCHANGED verdict
          /\ \/ /\ window' = [window EXCEPT !.signalled = TRUE, !.answered = TRUE]
                /\ doomed' = IF window.round = 2 THEN doomed \cup living ELSE doomed
                /\ stray' = (stray \/ stranger)
                /\ UNCHANGED obstacle
             \/ /\ Fails("deny") /\ window' = [window EXCEPT !.answered = TRUE]
                /\ UNCHANGED <<doomed, stray>>
             \/ "intr" \in Faults /\ UNCHANGED <<window, doomed, stray, obstacle>>
  /\ UNCHANGED <<living, stranger, reaped, timeout>>

Done == pc = "done" /\ UNCHANGED vars

Driver == Poll \/ ReadOutput \/ Drop \/ Stop \/ LoopTurn \/ WindowEnds \/ Signal

Next ==
  \/ \E p \in Kid \cup {Leader} : Exits(p)
  \/ \E k \in Kid : Spawn(k)
  \/ Others \/ Driver \/ Done

(***************************************************************************)
(* The driver is scheduled, time passes, kill is not interrupted for ever, *)
(* and who was sent SIGKILL ends.                                          *)
(***************************************************************************)
Fairness ==
  /\ WF_vars(Driver) /\ SF_vars(WindowEnds) /\ SF_vars(Signal /\ window'.answered)
  /\ \A p \in Kid \cup {Leader} : WF_vars(p \in doomed /\ Exits(p))

Spec == Init /\ [][Next]_vars /\ Fairness

-----------------------------------------------------------------------------
(* A command whose output is used has left no process behind: "its exit does
   not imply that its descendants exited", so stop waits for the group. *)
SuccessLeavesNothing == verdict = "ok" => Gone

(* Every command comes to an end, on every path, with the driver free of it. *)
CommandEnds == <>(pc = "done")

(* Once the driver is done with a command its whole group ends, also when it
   ignores SIGTERM, unless a call has failed: "a timed-out command does not
   outlive the assertion". *)
CommandIsStopped == (pc = "done" /\ obstacle = {}) ~> (living = {})

(* Signals go to the command's own group: "a negative PID addresses that
   group, not the test runner". *)
OnlyItsOwnGroup == ~stray
=============================================================================
