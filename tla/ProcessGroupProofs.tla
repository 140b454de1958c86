------------------------- MODULE ProcessGroupProofs -------------------------
(***************************************************************************)
(* Proofs about ProcessGroup, for any number of descendants that start and *)
(* end when they like, and whatever calls fail.                            *)
(***************************************************************************)
EXTENDS ProcessGroup, TLAPS

(* stop says yes only when it has seen the group gone with the leader reaped,
   and a group that is gone stays gone. *)
Inv == pc = "read" \/ verdict = "ok" => Gone
-----------------------------------------------------------------------------
(* Nothing starts in a group without processes, and nobody unreaps. *)
LEMMA GoneIsFinal ==
  ASSUME Gone, [Next]_vars
  PROVE  Gone'
<1>1. CASE \E p \in Kid \cup {Leader} : Exits(p)
  BY <1>1 DEF Exits, driverVars, Gone
<1>2. CASE \E k \in Kid : Spawn(k)
  BY <1>2 DEF Spawn, Gone
<1>3. CASE Others \/ Done \/ UNCHANGED vars
  BY <1>3 DEF Others, Done, vars, groupVars, driverVars, Gone
<1>4. CASE Driver
  <2>1. living' = living
    BY <1>4 DEF Driver, Poll, ReadOutput, Drop, Stop, LoopTurn, WindowEnds, Signal, groupVars
  <2>2. reaped' = reaped \/ TryWait
    BY <1>4 DEF Driver, Poll, ReadOutput, Drop, Stop, LoopTurn, WindowEnds, Signal
  <2>3. QED
    BY <2>1, <2>2 DEF TryWait, Gone
<1>5. QED
  BY <1>1, <1>2, <1>3, <1>4 DEF Next

(* stop returns well to command_output only from a group that is gone: after
   group_gone has found no process, or when the signal finds none. *)
LEMMA ReturnsWhenGone ==
  ASSUME Driver, pc' = "read"
  PROVE  Gone'
<1>1. CASE Stop
  BY <1>1 DEF Stop, Return, GroupGone, TryWait, groupVars, Gone
<1>2. CASE LoopTurn
  BY <1>2 DEF LoopTurn, Return, GroupGone, TryWait, groupVars, Gone
<1>3. CASE Signal
  BY <1>3 DEF Signal, Return, Gone
<1>4. CASE Poll \/ ReadOutput \/ Drop
  BY <1>4 DEF Poll, ReadOutput, Drop
<1>5. CASE WindowEnds
  BY <1>5 DEF WindowEnds, NextWindow, Return
<1>6. QED
  BY <1>1, <1>2, <1>3, <1>4, <1>5 DEF Driver

(* A verdict is ok when the output has been read, or was so before. *)
LEMMA OkIsRead ==
  ASSUME [Next]_vars, verdict' = "ok", verdict # "ok"
  PROVE  pc = "read"
<1>1. CASE ReadOutput
  BY <1>1 DEF ReadOutput
<1>2. CASE Poll \/ Drop \/ Stop \/ LoopTurn \/ WindowEnds \/ Signal
  BY <1>2 DEF Poll, Drop, Stop, LoopTurn, WindowEnds, NextWindow, Signal, Return
<1>3. CASE \/ \E p \in Kid \cup {Leader} : Exits(p)
           \/ \E k \in Kid : Spawn(k)
           \/ Others \/ Done \/ UNCHANGED vars
  BY <1>3 DEF Exits, Spawn, Others, Done, vars, driverVars
<1>4. QED
  BY <1>1, <1>2, <1>3 DEF Next, Driver

(* Every step preserves the invariant. *)
LEMMA NextInv == Inv /\ [Next]_vars => Inv'
<1> SUFFICES ASSUME Inv, [Next]_vars, pc' = "read" \/ verdict' = "ok"
             PROVE  Gone'
  BY DEF Inv
<1>1. CASE pc = "read" \/ verdict = "ok"
  BY <1>1, GoneIsFinal DEF Inv
<1>2. CASE verdict' = "ok" /\ verdict # "ok"
  BY <1>2, OkIsRead, GoneIsFinal DEF Inv
<1>3. CASE pc' = "read" /\ pc # "read"
  <2>1. Driver
    BY <1>3 DEF Next, Exits, Spawn, Others, Done, vars, driverVars
  <2>2. QED
    BY <1>3, <2>1, ReturnsWhenGone
<1>4. QED
  BY <1>1, <1>2, <1>3

(* A command whose output is used has no process left, however many
   descendants it had and however they and the signals raced: command_output
   reads the output only after stop has seen the whole group gone. *)
THEOREM OkLeavesNothing == Spec => []SuccessLeavesNothing
<1>1. Init => Inv
  BY DEF Init, Inv
<1>2. Inv => SuccessLeavesNothing
  BY DEF Inv, SuccessLeavesNothing
<1>3. QED
  BY <1>1, <1>2, NextInv, PTL DEF Spec
=============================================================================
