-------------------------- MODULE BinarySemaphore --------------------------
(***************************************************************************)
(* What the semaphores of src/sys.c promise, and what SysMbox builds on: a *)
(* count of 0 or 1 that a wait takes and a signal gives, each in one step. *)
(* A wait with a timeout may end without the token.                        *)
(***************************************************************************)
EXTENDS Naturals

CONSTANT Threads

VARIABLES c, call, result

bvars == <<c, call, result>>

Init ==
  /\ c = 0
  /\ call = [t \in Threads |-> "none"]
  /\ result = [t \in Threads |-> "none"]

Return(t, r) ==
  /\ call' = [call EXCEPT ![t] = "none"]
  /\ result' = [result EXCEPT ![t] = r]

Call(t) ==
  /\ call[t] = "none"
  /\ \E k \in {"wait", "timed", "signal"} : call' = [call EXCEPT ![t] = k]
  /\ UNCHANGED <<c, result>>

Acquire(t) ==
  /\ call[t] \in {"wait", "timed"} /\ c = 1
  /\ c' = 0
  /\ Return(t, "ok")

GiveUp(t) == call[t] = "timed" /\ Return(t, "timeout") /\ UNCHANGED c

Signal(t) == call[t] = "signal" /\ c' = 1 /\ Return(t, "ok")

Next == \E t \in Threads : Call(t) \/ Acquire(t) \/ GiveUp(t) \/ Signal(t)

Spec == Init /\ [][Next]_bvars
=============================================================================
