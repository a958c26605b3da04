------------------------------- MODULE SysSem -------------------------------
(***************************************************************************)
(* The semaphore of lwIP's system port (src/sys.c, NO_SYS 0): a count, a   *)
(* pthread mutex and a condition variable, with sys_arch_sem_wait,         *)
(* cond_wait and sys_sem_signal.                                           *)
(*                                                                         *)
(* pthread_cond_wait releases the mutex and sleeps in one step, returns    *)
(* with the mutex, and may return without a broadcast.  The clock counts   *)
(* nanoseconds, scaled: NsPerMs and MsPerSec are small.                    *)
(***************************************************************************)
EXTENDS Integers

CONSTANTS
  Waiters,    \* threads that wait
  Signallers, \* threads that signal
  Nobody,     \* the pthread mutex is free
  Timeout,    \* timeout of a timed wait, in milliseconds
  NsPerMs,    \* 1000000
  MsPerSec,   \* 1000
  MaxTime,    \* bound: the clock
  MaxCalls    \* bound: calls of one thread

ASSUME SemAssumption ==
  /\ Waiters \cap Signallers = {} /\ Nobody \notin Waiters \cup Signallers
  /\ Timeout \in Nat \ {0} /\ NsPerMs \in Nat \ {0} /\ MsPerSec \in Nat \ {0}
  /\ MaxTime \in Nat /\ MaxCalls \in Nat

Threads == Waiters \cup Signallers

VARIABLES
  c,          \* sem->c
  owner,      \* who holds sem->mutex
  pc, call,   \* where a thread is, and in which function
  now,        \* the monotonic clock
  begun,      \* begun[t], history: when a timed sys_arch_sem_wait was called
  rtime1,     \* rtime1[t]: when its cond_wait was called
  needed,     \* needed[t]: time_needed, in milliseconds
  result,     \* result[t]: how the last call ended
  calls       \* calls so far

cvars == <<c, owner, pc, call, now, begun, rtime1, needed, result, calls>>
timeVars == <<begun, rtime1, needed>>

-----------------------------------------------------------------------------
(* cond_wait: times are pairs of seconds and nanoseconds.                  *)

NsPerSec == NsPerMs * MsPerSec

\* get_monotonic_time
Timespec(n) == [sec |-> n \div NsPerSec, nsec |-> n % NsPerSec]

\* Mutant: the carry into the seconds is forgotten.
NormalizedNot(ts) == [ts EXCEPT !.nsec = @ % NsPerSec]

Normalized(ts) ==
  IF ts.nsec >= NsPerSec
  THEN [sec |-> ts.sec + 1, nsec |-> ts.nsec - NsPerSec] ELSE ts

\* "Get a timestamp and add the timeout value."
Deadline(t) ==
  LET ts == Timespec(rtime1[t]) IN
  Normalized([sec  |-> ts.sec + Timeout \div MsPerSec,
              nsec |-> ts.nsec + (Timeout % MsPerSec) * NsPerMs])

\* "Calculate for how long we waited for the cond."
Elapsed(t) ==
  LET from == Timespec(rtime1[t])
      to   == Timespec(now)
      borrow == IF to.nsec < from.nsec THEN 1 ELSE 0
  IN (to.sec - from.sec - borrow) * MsPerSec
       + (to.nsec - from.nsec + borrow * NsPerSec) \div NsPerMs

Reached(ts) ==
  \/ Timespec(now).sec > ts.sec
  \/ Timespec(now).sec = ts.sec /\ Timespec(now).nsec >= ts.nsec

-----------------------------------------------------------------------------
Goto(t, l) == pc' = [pc EXCEPT ![t] = l]

Return(t, r) ==
  /\ Goto(t, "idle")
  /\ call' = [call EXCEPT ![t] = "none"]
  /\ result' = [result EXCEPT ![t] = r]
  /\ begun' = [begun EXCEPT ![t] = 0]
  /\ rtime1' = [rtime1 EXCEPT ![t] = 0]
  /\ needed' = [needed EXCEPT ![t] = 0]

\* sys_arch_sem_wait(s, 0), sys_arch_sem_wait(s, timeout) or sys_sem_signal(s)
Call(t) ==
  /\ pc[t] = "idle" /\ calls[t] < MaxCalls
  /\ calls' = [calls EXCEPT ![t] = @ + 1]
  /\ \E k \in IF t \in Waiters THEN {"wait", "timed"} ELSE {"signal"} :
       /\ call' = [call EXCEPT ![t] = k]
       /\ begun' = [begun EXCEPT ![t] = IF k = "timed" THEN now ELSE 0]
  /\ Goto(t, "lock")
  /\ UNCHANGED <<c, owner, now, rtime1, needed, result>>

\* pthread_mutex_lock(&(sem->mutex))
Lock(t) ==
  /\ pc[t] = "lock" /\ owner = Nobody
  /\ owner' = t
  /\ Goto(t, IF call[t] = "signal" THEN "signal" ELSE "test")
  /\ UNCHANGED <<c, call, now, timeVars, result, calls>>

\* "sem->c--" and out of the mutex.
Take(t) ==
  /\ pc[t] = "test" /\ c > 0
  /\ c' = c - 1
  /\ owner' = Nobody
  /\ Return(t, "ok")
  /\ UNCHANGED <<now, calls>>

\* cond_wait: a new wait with the whole timeout.
CondWait(t) ==
  /\ pc[t] = "test" /\ c <= 0
  /\ rtime1' = [rtime1 EXCEPT ![t] = IF call[t] = "timed" THEN now ELSE 0]
  /\ owner' = Nobody
  /\ Goto(t, "cond")
  /\ UNCHANGED <<c, call, now, begun, needed, result, calls>>

\* pthread_cond_wait returns although nobody has signalled.
Spurious(t) ==
  /\ pc[t] = "cond"
  /\ Goto(t, "woken")
  /\ UNCHANGED <<c, owner, call, now, timeVars, result, calls>>

\* A woken thread has the mutex again and tests once more.  (An error of
\* pthread_cond_wait, on which sys_arch_sem_wait returns without a token, means
\* that mutex or condition are not initialised, and is left out.)
Relock(t) ==
  /\ pc[t] = "woken" /\ owner = Nobody
  /\ owner' = t
  /\ needed' = [needed EXCEPT ![t] = IF call[t] = "timed" THEN Elapsed(t)
                                     ELSE @]
  /\ Goto(t, "test")
  /\ UNCHANGED <<c, call, now, begun, rtime1, result, calls>>

\* pthread_cond_timedwait gives up.
Expire(t) ==
  /\ pc[t] = "cond" /\ call[t] = "timed" /\ Reached(Deadline(t))
  /\ Goto(t, "expired")
  /\ UNCHANGED <<c, owner, call, now, timeVars, result, calls>>

\* Mutant: the token that came in the meantime is taken away.
ExpiredEats(t) ==
  /\ pc[t] = "expired" /\ owner = Nobody
  /\ c' = 0
  /\ Return(t, "timeout")
  /\ UNCHANGED <<owner, now, calls>>

\* ETIMEDOUT: it locks and unlocks the mutex and returns SYS_ARCH_TIMEOUT
\* without a look at the count.
Expired(t) ==
  /\ pc[t] = "expired" /\ owner = Nobody
  /\ Return(t, "timeout")
  /\ UNCHANGED <<c, owner, now, calls>>

\* Mutant: pthread_cond_signal, one sleeper is woken.
BroadcastOne(t) ==
  IF \E u \in Threads : pc[u] = "cond"
  THEN [pc EXCEPT ![CHOOSE u \in Threads : pc[u] = "cond"] = "woken",
                  ![t] = "idle"]
  ELSE [pc EXCEPT ![t] = "idle"]

\* Mutant: nobody is woken.
BroadcastNone(t) == [pc EXCEPT ![t] = "idle"]

\* pthread_cond_broadcast wakes every sleeper.
Broadcast(t) ==
  [u \in Threads |-> IF u = t THEN "idle"
                     ELSE IF pc[u] = "cond" THEN "woken" ELSE pc[u]]

\* "sem->c++", at most one
Counted == IF c + 1 > 1 THEN 1 ELSE c + 1

\* sys_sem_signal
Signal(t) ==
  /\ pc[t] = "signal"
  /\ c' = Counted
  /\ owner' = Nobody
  /\ pc' = Broadcast(t)
  /\ call' = [call EXCEPT ![t] = "none"]
  /\ result' = [result EXCEPT ![t] = "ok"]
  /\ UNCHANGED <<now, timeVars, calls>>

Tick ==
  /\ now < MaxTime
  /\ now' = now + 1
  /\ UNCHANGED <<c, owner, pc, call, timeVars, result, calls>>

-----------------------------------------------------------------------------
\* sys_sem_new_internal(0)
Init ==
  /\ c = 0 /\ owner = Nobody
  /\ pc = [t \in Threads |-> "idle"] /\ call = [t \in Threads |-> "none"]
  /\ now = 0
  /\ begun = [t \in Threads |-> 0] /\ rtime1 = [t \in Threads |-> 0]
  /\ needed = [t \in Threads |-> 0]
  /\ result = [t \in Threads |-> "none"]
  /\ calls = [t \in Threads |-> 0]

\* What a thread does in one of the functions.
Step(t) ==
  \/ Lock(t) \/ Take(t) \/ CondWait(t) \/ Relock(t) \/ Expire(t)
  \/ Expired(t) \/ Signal(t)

Next == Tick \/ \E t \in Threads : Call(t) \/ Step(t) \/ Spurious(t)

Spec == Init /\ [][Next]_cvars

\* A thread that can run is run.  Calls, the clock and spurious wakeups are
\* not fair.
FairSpec == Spec /\ \A t \in Threads : WF_cvars(Step(t))

-----------------------------------------------------------------------------
(* Properties.                                                             *)

\* No thread sleeps on the condition variable while the token is there: the
\* test of sem->c and the start of the wait are one step for a signal, and
\* every thread that slept when the token came has been woken.
NoSleeperWithToken == c = 1 => \A t \in Threads : pc[t] # "cond"

\* SYS_ARCH_TIMEOUT is never returned before the timeout has passed, and the
\* time reported for a wait that succeeded is never longer than the wait was.
\* (It is the time of the last cond_wait only, and a wait whose wakeups come
\* to nothing may last any multiple of the timeout.)
HonestTimes ==
  [][\A t \in Waiters : call[t] # "none" /\ call'[t] = "none" =>
       IF result'[t] = "timeout"
       THEN now - begun[t] >= Timeout * NsPerMs
       ELSE call[t] = "timed" =>
              needed[t] * NsPerMs \in 0 .. now - begun[t]]_cvars

Sem == INSTANCE BinarySemaphore

\* Mutex, condition variable and count together implement a semaphore whose
\* waits and signals are single steps: each token is taken by one wait, and a
\* wait that times out takes none, even if the signal came just before it had
\* the mutex again.
IsBinarySemaphore == Sem!Spec

\* A token does not lie unused: it is taken if a thread waits, unless all that
\* wait give up.
TokenTaken ==
  c = 1 /\ (\E t \in Threads : call[t] = "wait") ~> c = 0
=============================================================================
