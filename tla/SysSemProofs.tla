---------------------------- MODULE SysSemProofs ----------------------------
(***************************************************************************)
(* Proofs about SysSem, for any number of threads and any timeout: the     *)
(* mutex, the condition variable and the count implement BinarySemaphore,  *)
(* no thread sleeps while the token is there, and the times that           *)
(* sys_arch_sem_wait acts on and reports are true.                         *)
(*                                                                         *)
(* The clock plays no part in the first two: that a wait gives up may      *)
(* happen at any time.  The last needs what a timed wait has read of the   *)
(* clock (Timed) and that seconds and nanoseconds are added with their     *)
(* carry and subtracted with their borrow.                                 *)
(***************************************************************************)
EXTENDS SysSem, TLAPS

\* Types of what the invariant is about.
Types ==
  /\ c \in 0 .. 1
  /\ pc \in [Threads -> {"idle", "lock", "test", "cond", "woken", "expired",
                         "signal"}]
  /\ call \in [Threads -> {"none", "wait", "timed", "signal"}]
  /\ result \in [Threads -> {"none", "ok", "timeout"}]

\* Where a thread may be in each function.
Placed ==
  \A t \in Threads :
    /\ pc[t] = "idle" <=> call[t] = "none"
    /\ pc[t] \in {"test", "cond", "woken"} => call[t] \in {"wait", "timed"}
    /\ pc[t] = "expired" => call[t] = "timed"
    /\ pc[t] = "signal" => call[t] = "signal"

\* The inductive invariant.
SInv == Types /\ Placed /\ NoSleeperWithToken

USE DEF Goto, timeVars

-----------------------------------------------------------------------------
\* A new semaphore, which no thread uses.
LEMMA InitSInv == Init => SInv /\ Sem!Init
<1> SUFFICES ASSUME Init PROVE SInv /\ Sem!Init
  OBVIOUS
<1>1. Types
  BY DEF Init, Types
<1>2. Placed
  BY DEF Init, Placed
<1>3. NoSleeperWithToken
  BY DEF Init, NoSleeperWithToken
<1>4. Sem!Init
  BY DEF Init, Sem!Init
<1> QED BY <1>1, <1>2, <1>3, <1>4 DEF SInv

\* Steps that move thread t and touch neither count nor call.
LEMMA MoveStep ==
  ASSUME SInv, NEW t \in Threads, NEW l, pc' = [pc EXCEPT ![t] = l],
         UNCHANGED <<c, call, result>>,
         \/ pc[t] = "lock" /\ l = "signal" /\ call[t] = "signal"
         \/ pc[t] = "lock" /\ l = "test" /\ call[t] # "signal"
         \/ pc[t] = "test" /\ l = "cond" /\ c = 0
         \/ pc[t] = "cond" /\ l = "woken"
         \/ pc[t] = "woken" /\ l = "test"
         \/ pc[t] = "cond" /\ l = "expired" /\ call[t] = "timed"
  PROVE  SInv' /\ UNCHANGED Sem!bvars
<1> USE DEF SInv
<1>1. l \in {"signal", "test", "cond", "woken", "expired"}
  OBVIOUS
<1>2. pc'[t] = l /\ \A u \in Threads : u # t => pc'[u] = pc[u]
  BY DEF Types
<1>3. Types'
  BY <1>1 DEF Types
<1>4. call[t] \in {"none", "wait", "timed", "signal"}
  BY DEF Types
<1>5. Placed'
  BY <1>2, <1>4 DEF Placed
<1>6. NoSleeperWithToken'
  BY <1>2 DEF NoSleeperWithToken
<1> QED BY <1>3, <1>5, <1>6 DEF Sem!bvars

\* A thread calls one of the functions.
LEMMA CallStep ==
  ASSUME SInv, NEW t \in Threads, Call(t)
  PROVE  SInv' /\ Sem!Next
<1> USE DEF SInv
<1>1. PICK k \in {"wait", "timed", "signal"} :
         call' = [call EXCEPT ![t] = k]
  BY DEF Call
<1>2. /\ pc[t] = "idle" /\ pc' = [pc EXCEPT ![t] = "lock"]
      /\ UNCHANGED <<c, result>>
  BY DEF Call
<1>3. /\ pc'[t] = "lock" /\ call'[t] = k
      /\ \A u \in Threads : u # t => pc'[u] = pc[u] /\ call'[u] = call[u]
  BY <1>1, <1>2 DEF Types
<1>4. Types'
  BY <1>1, <1>2 DEF Types
<1>5. Placed'
  BY <1>3 DEF Placed
<1>6. NoSleeperWithToken'
  BY <1>2, <1>3 DEF NoSleeperWithToken
<1>7. Sem!Call(t)
  BY <1>1, <1>2 DEF Placed, Sem!Call
<1> QED BY <1>4, <1>5, <1>6, <1>7 DEF Sem!Next

\* A thread returns from sys_arch_sem_wait.
LEMMA WaitReturnStep ==
  ASSUME SInv, NEW t \in Threads, Take(t) \/ Expired(t)
  PROVE  SInv' /\ Sem!Next
<1> USE DEF SInv
<1>1. PICK r \in {"ok", "timeout"} :
         /\ pc' = [pc EXCEPT ![t] = "idle"]
         /\ call' = [call EXCEPT ![t] = "none"]
         /\ result' = [result EXCEPT ![t] = r]
         /\ r = "ok" => pc[t] = "test" /\ c = 1 /\ c' = 0
         /\ r = "timeout" => pc[t] = "expired" /\ c' = c
  BY DEF Take, Expired, Return, Types
<1>2. /\ pc'[t] = "idle" /\ call'[t] = "none"
      /\ \A u \in Threads : u # t => pc'[u] = pc[u] /\ call'[u] = call[u]
  BY <1>1 DEF Types
<1>3. Types'
  BY <1>1 DEF Types
<1>4. Placed'
  BY <1>2 DEF Placed
<1>5. NoSleeperWithToken'
  BY <1>1, <1>2 DEF NoSleeperWithToken
<1>6. Sem!Acquire(t) \/ Sem!GiveUp(t)
  BY <1>1 DEF Placed, Sem!Acquire, Sem!GiveUp, Sem!Return
<1> QED BY <1>3, <1>4, <1>5, <1>6 DEF Sem!Next

\* sys_sem_signal: whoever sleeps is woken.
LEMMA SignalStep ==
  ASSUME SInv, NEW t \in Threads, Signal(t)
  PROVE  SInv' /\ Sem!Next
<1> USE DEF SInv
<1>1. /\ pc[t] = "signal" /\ call[t] = "signal"
      /\ pc' = [u \in Threads |-> IF u = t THEN "idle"
                                  ELSE IF pc[u] = "cond" THEN "woken"
                                  ELSE pc[u]]
      /\ call' = [call EXCEPT ![t] = "none"]
      /\ result' = [result EXCEPT ![t] = "ok"]
  BY DEF Signal, Broadcast, Placed
<1>2. c' = 1
  BY DEF Signal, Counted, Types
<1>3. /\ pc'[t] = "idle" /\ call'[t] = "none"
      /\ \A u \in Threads : u # t =>
           /\ call'[u] = call[u]
           /\ pc'[u] = IF pc[u] = "cond" THEN "woken" ELSE pc[u]
  BY <1>1 DEF Types
<1>4. Types'
  BY <1>1, <1>2 DEF Types
<1>5. Placed'
  BY <1>3 DEF Placed
<1>6. NoSleeperWithToken'
  BY <1>3 DEF NoSleeperWithToken
<1>7. Sem!Signal(t)
  BY <1>1, <1>2 DEF Sem!Signal, Sem!Return
<1> QED BY <1>4, <1>5, <1>6, <1>7 DEF Sem!Next

\* Every step keeps SInv and is a step of the semaphore or none.
LEMMA NextSInv == SInv /\ [Next]_cvars => SInv' /\ [Sem!Next]_(Sem!bvars)
<1> SUFFICES ASSUME SInv, [Next]_cvars
             PROVE  SInv' /\ [Sem!Next]_(Sem!bvars)
  OBVIOUS
<1>1. CASE UNCHANGED <<c, pc, call, result>>
  BY <1>1 DEF SInv, Types, Placed, NoSleeperWithToken, Sem!bvars
<1>2. CASE Tick \/ UNCHANGED cvars
  BY <1>1, <1>2 DEF Tick, cvars
<1>3. ASSUME NEW t \in Threads, Call(t)
      PROVE  SInv' /\ Sem!Next
  BY <1>3, CallStep
<1>4. ASSUME NEW t \in Threads, Lock(t)
      PROVE  SInv' /\ UNCHANGED Sem!bvars
  <2>1. CASE call[t] = "signal"
    BY <1>4, <2>1, MoveStep DEF Lock
  <2>2. CASE call[t] # "signal"
    BY <1>4, <2>2, MoveStep DEF Lock
  <2> QED BY <2>1, <2>2
<1>5. ASSUME NEW t \in Threads, CondWait(t)
      PROVE  SInv' /\ UNCHANGED Sem!bvars
  <2>1. c = 0
    BY <1>5 DEF CondWait, SInv, Types
  <2> QED BY <1>5, <2>1, MoveStep DEF CondWait
<1>6. ASSUME NEW t \in Threads, Relock(t) \/ Expire(t) \/ Spurious(t)
      PROVE  SInv' /\ UNCHANGED Sem!bvars
  BY <1>6, MoveStep DEF Relock, Expire, Spurious
<1>7. ASSUME NEW t \in Threads, Take(t) \/ Expired(t)
      PROVE  SInv' /\ Sem!Next
  BY <1>7, WaitReturnStep
<1>8. ASSUME NEW t \in Threads, Signal(t)
      PROVE  SInv' /\ Sem!Next
  BY <1>8, SignalStep
<1> QED BY <1>2, <1>3, <1>4, <1>5, <1>6, <1>7, <1>8 DEF Next, Step

-----------------------------------------------------------------------------
\* No wakeup is lost: a thread that sleeps in pthread_cond_wait while the token
\* is there does not exist, whatever the interleaving of waits, timeouts and
\* signals.
THEOREM NoLostWakeup == Spec => []NoSleeperWithToken
<1>1. SInv => NoSleeperWithToken
  BY DEF SInv
<1> QED BY <1>1, InitSInv, NextSInv, PTL DEF Spec

\* sys_arch_sem_wait and sys_sem_signal, as written with a mutex and a condition
\* variable, implement a semaphore whose operations are single steps.  SysMbox
\* takes them as that.
THEOREM SemaphoreImplemented == Spec => IsBinarySemaphore
BY InitSInv, NextSInv, PTL DEF Spec, IsBinarySemaphore, Sem!Spec

-----------------------------------------------------------------------------
(* Times.  Seconds and nanoseconds are numbers again.                      *)

\* Types of the clock and of the readings a timed wait makes of it.
TimedTypes ==
  /\ now \in Nat
  /\ begun \in [Threads -> Nat] /\ rtime1 \in [Threads -> Nat]
  /\ needed \in [Threads -> Nat]

\* The readings of thread t; an expired wait has lasted its timeout.
TimedAt(t) ==
  /\ call[t] = "timed" =>
       begun[t] <= now /\ needed[t] * NsPerMs <= now - begun[t]
  /\ call[t] # "timed" => needed[t] = 0
  /\ pc[t] \in {"cond", "woken", "expired"} /\ call[t] = "timed" =>
       begun[t] <= rtime1[t] /\ rtime1[t] <= now
  /\ pc[t] = "expired" => now - rtime1[t] >= Timeout * NsPerMs

\* The part of the invariant about time.
Timed == TimedTypes /\ \A t \in Threads : TimedAt(t)

\* Quotient and remainder.
LEMMA DivMod ==
  ASSUME NEW n \in Nat \ {0}, NEW a \in Nat
  PROVE  /\ a \div n \in Nat /\ a % n \in Nat /\ a % n < n
         /\ a = n * (a \div n) + (a % n) /\ n * (a \div n) <= a
<1>1. /\ a \div n \in Nat /\ a % n \in Nat /\ a % n < n
      /\ a = n * (a \div n) + (a % n)
  OBVIOUS
<1>2. n * (a \div n) <= a
  BY <1>1
<1> QED BY <1>1, <1>2

\* A product is monotone, and by the factor at least.
LEMMA TimesLess ==
  ASSUME NEW n \in Nat \ {0}, NEW x \in Int, NEW y \in Int, x < y
  PROVE  n * x + n <= n * y
OBVIOUS

\* NsPerSec is a positive number.
LEMMA SecondFacts ==
  /\ NsPerMs \in Nat \ {0} /\ MsPerSec \in Nat \ {0}
  /\ NsPerSec \in Nat \ {0} /\ NsPerSec = NsPerMs * MsPerSec
BY SemAssumption DEF NsPerSec

\* The borrow of a subtraction of times: what is left is the difference, and
\* the nanoseconds are those of less than a second.
LEMMA Borrowed ==
  ASSUME NEW n \in Nat \ {0}, NEW s \in Int, NEW q \in Int,
         NEW u \in Nat, NEW v \in Nat, u < n, v < n,
         NEW k \in {0, 1}, k = IF v < u THEN 1 ELSE 0,
         n * s + u <= n * q + v
  PROVE  /\ v - u + k * n \in Nat /\ q - s - k \in Nat
         /\ n * (q - s - k) + (v - u + k * n) = (n * q + v) - (n * s + u)
<1>1. v - u + k * n \in Nat /\ v - u + k * n < n
  <2>1. CASE k = 0
    BY <2>1
  <2>2. CASE k = 1
    BY <2>2
  <2> QED BY <2>1, <2>2
<1>2. n * (q - s - k) = n * q - n * s - n * k
  OBVIOUS
<1>3. n * (q - s - k) + (v - u + k * n) = (n * q + v) - (n * s + u)
  BY <1>2
<1>4. q - s - k \in Nat
  <2> SUFFICES ASSUME q - s - k < 0 PROVE FALSE
    OBVIOUS
  <2>1. n * (q - s - k) + n <= n * 0
    BY TimesLess
  <2> QED BY <1>1, <1>3, <2>1
<1> QED BY <1>1, <1>3, <1>4

\* cond_wait never reports more than has passed since it was called.
LEMMA ElapsedHonest ==
  ASSUME NEW t \in Threads, rtime1[t] \in Nat, now \in Nat, rtime1[t] <= now
  PROVE  Elapsed(t) \in Nat /\ Elapsed(t) * NsPerMs <= now - rtime1[t]
<1> DEFINE N == NsPerSec
           s == rtime1[t] \div N
           u == rtime1[t] % N
           q == now \div N
           v == now % N
           k == IF v < u THEN 1 ELSE 0
           S == q - s - k
           R == v - u + k * N
<1>0. /\ N \in Nat \ {0} /\ NsPerMs \in Nat \ {0} /\ MsPerSec \in Nat \ {0}
      /\ N = NsPerMs * MsPerSec
  BY SecondFacts
<1>1. /\ s \in Nat /\ u \in Nat /\ u < N /\ q \in Nat /\ v \in Nat /\ v < N
      /\ rtime1[t] = N * s + u /\ now = N * q + v
  BY <1>0, DivMod
<1>2. Elapsed(t) = S * MsPerSec + (R \div NsPerMs)
  BY DEF Elapsed, Timespec
<1> HIDE DEF N, s, u, q, v
<1>3. k \in {0, 1} /\ k = IF v < u THEN 1 ELSE 0
  OBVIOUS
<1>4. R \in Nat /\ S \in Nat /\ N * S + R = now - rtime1[t]
  BY <1>0, <1>1, <1>3, Borrowed
<1> HIDE DEF S, R, k
<1>5. /\ R \div NsPerMs \in Nat
      /\ NsPerMs * (R \div NsPerMs) <= R
  BY <1>0, <1>4, DivMod
<1>6. Elapsed(t) \in Nat
  BY <1>0, <1>2, <1>4, <1>5
<1>7. Elapsed(t) * NsPerMs = N * S + NsPerMs * (R \div NsPerMs)
  <2> DEFINE e == R \div NsPerMs
  <2>1. e \in Nat
    BY <1>5
  <2> HIDE DEF e
  <2>2. (S * MsPerSec + e) * NsPerMs = (NsPerMs * MsPerSec) * S + NsPerMs * e
    BY <1>0, <1>4, <2>1
  <2> QED BY <1>0, <1>2, <2>2 DEF e
<1>8. now - rtime1[t] \in Int
  OBVIOUS
<1> QED BY <1>0, <1>4, <1>5, <1>6, <1>7, <1>8

\* Normalized keeps the value of a time and leaves less than a second of
\* nanoseconds.
LEMMA NormalizedValue ==
  ASSUME NEW n \in Nat \ {0}, n = NsPerSec, NEW s \in Nat, NEW u \in Nat,
         u < n + n
  PROVE  LET z == Normalized([sec |-> s, nsec |-> u])
         IN  /\ z.sec \in Nat /\ z.nsec \in Nat /\ z.nsec < n
             /\ n * z.sec + z.nsec = n * s + u
<1> DEFINE z == Normalized([sec |-> s, nsec |-> u])
<1>1. CASE u >= n
  <2>1. z.sec = s + 1 /\ z.nsec = u - n
    BY <1>1 DEF Normalized
  <2>2. n * (s + 1) = n * s + n
    OBVIOUS
  <2> QED BY <1>1, <2>1, <2>2
<1>2. CASE ~(u >= n)
  <2>1. z.sec = s /\ z.nsec = u
    BY <1>2 DEF Normalized
  <2> QED BY <1>2, <2>1
<1> QED BY <1>1, <1>2

\* pthread_cond_timedwait gives up only when the timeout has passed.
LEMMA DeadlineHonest ==
  ASSUME NEW t \in Threads, rtime1[t] \in Nat, now \in Nat,
         Reached(Deadline(t))
  PROVE  now - rtime1[t] >= Timeout * NsPerMs
<1> DEFINE N == NsPerSec
           s == rtime1[t] \div N
           u == rtime1[t] % N
           q == now \div N
           v == now % N
           x == Timeout \div MsPerSec
           y == Timeout % MsPerSec
           z == Normalized([sec |-> s + x, nsec |-> u + y * NsPerMs])
<1>0. /\ N \in Nat \ {0} /\ NsPerMs \in Nat \ {0} /\ MsPerSec \in Nat \ {0}
      /\ N = NsPerMs * MsPerSec /\ Timeout \in Nat
  BY SecondFacts, SemAssumption
<1>1. /\ s \in Nat /\ u \in Nat /\ u < N /\ q \in Nat /\ v \in Nat /\ v < N
      /\ rtime1[t] = N * s + u /\ now = N * q + v
  BY <1>0, DivMod
<1>2. /\ x \in Nat /\ y \in Nat /\ y < MsPerSec
      /\ Timeout = MsPerSec * x + y
  BY <1>0, DivMod
<1>3. Deadline(t) = z
  BY DEF Deadline, Timespec
<1>4. q > z.sec \/ (q = z.sec /\ v >= z.nsec)
  BY <1>3 DEF Reached, Timespec
<1> HIDE DEF N, s, u, q, v, x, y
<1>5. y * NsPerMs \in Nat /\ y * NsPerMs < N
  <2>1. NsPerMs * y + NsPerMs <= NsPerMs * MsPerSec
    BY <1>0, <1>2, TimesLess
  <2>2. NsPerMs * y = y * NsPerMs /\ y * NsPerMs \in Nat
    BY <1>0, <1>2
  <2> QED BY <1>0, <2>1, <2>2
<1>6. u + y * NsPerMs \in Nat /\ u + y * NsPerMs < N + N /\ s + x \in Nat
  BY <1>0, <1>1, <1>2, <1>5
<1>7. /\ z.sec \in Nat /\ z.nsec \in Nat /\ z.nsec < N
      /\ N * z.sec + z.nsec = N * (s + x) + (u + y * NsPerMs)
  BY <1>0, <1>6, NormalizedValue DEF N
<1> HIDE DEF z
<1>8. N * (s + x) + (u + y * NsPerMs) = rtime1[t] + Timeout * NsPerMs
  <2>1. N * (s + x) = N * s + N * x
    BY <1>0, <1>1, <1>2
  <2>2. N * x = (NsPerMs * MsPerSec) * x
    BY <1>0
  <2>3. (NsPerMs * MsPerSec) * x + y * NsPerMs = (MsPerSec * x + y) * NsPerMs
    BY <1>0, <1>2
  <2>4. N * x + y * NsPerMs = Timeout * NsPerMs
    BY <1>2, <2>2, <2>3
  <2>5. N * s \in Int /\ N * x \in Int /\ Timeout * NsPerMs \in Int
    BY <1>0, <1>1, <1>2
  <2> QED BY <1>1, <1>5, <2>1, <2>4, <2>5
<1>9. N * q + v >= N * z.sec + z.nsec
  <2>1. CASE q > z.sec
    <3>1. N * z.sec + N <= N * q
      BY <1>0, <1>1, <1>7, <2>1, TimesLess
    <3>2. N * z.sec \in Int /\ N * q \in Int
      BY <1>0, <1>1, <1>7
    <3> QED BY <1>0, <1>1, <1>7, <3>1, <3>2
  <2>2. CASE q = z.sec /\ v >= z.nsec
    <3>1. N * z.sec \in Int
      BY <1>0, <1>7
    <3> QED BY <1>1, <1>7, <2>2, <3>1
  <2> QED BY <1>4, <2>1, <2>2
<1>10. Timeout * NsPerMs \in Int
  BY <1>0
<1>11. now >= rtime1[t] + Timeout * NsPerMs
  BY <1>1, <1>7, <1>8, <1>9, Zenon
<1> QED BY <1>10, <1>11

\* A new semaphore has no times.
LEMMA InitTimed == Init => Timed
<1> SUFFICES ASSUME Init PROVE Timed
  OBVIOUS
<1>1. \A t \in Threads : /\ pc[t] = "idle" /\ call[t] = "none"
                         /\ needed[t] = 0
  BY DEF Init
<1>2. /\ now \in Nat /\ begun \in [Threads -> Nat]
      /\ rtime1 \in [Threads -> Nat] /\ needed \in [Threads -> Nat]
  BY DEF Init
<1> QED BY <1>1, <1>2 DEF Timed, TimedTypes, TimedAt

\* Threads that a step leaves alone.
LEMMA TimedFrame ==
  ASSUME NEW t \in Threads, TimedAt(t), now' = now,
         begun'[t] = begun[t], rtime1'[t] = rtime1[t],
         needed'[t] = needed[t], call'[t] = call[t],
         pc'[t] = pc[t] \/ (pc'[t] = "woken" /\ pc[t] = "cond")
  PROVE  TimedAt(t)'
BY DEF TimedAt

\* Every step keeps Timed.
LEMMA NextTimed ==
  ASSUME SInv, Timed, [Next]_cvars
  PROVE  Timed'
<1>0. /\ TimedTypes /\ \A t \in Threads : TimedAt(t)
      /\ NsPerMs \in Nat \ {0}
  BY SemAssumption DEF Timed
<1>1. /\ pc \in [Threads -> {"idle", "lock", "test", "cond", "woken",
                             "expired", "signal"}]
      /\ call \in [Threads -> {"none", "wait", "timed", "signal"}]
  BY DEF SInv, Types
<1>2. CASE UNCHANGED cvars
  BY <1>2 DEF cvars, Timed, TimedTypes, TimedAt
<1>3. CASE Tick
  <2>1. now' = now + 1 /\ UNCHANGED <<begun, rtime1, needed, pc, call>>
    BY <1>3 DEF Tick
  <2>2. TimedTypes'
    BY <1>0, <2>1 DEF TimedTypes
  <2>3. ASSUME NEW t \in Threads PROVE TimedAt(t)'
    <3>1. TimedAt(t)
      BY <1>0
    <3>2. /\ begun[t] \in Nat /\ rtime1[t] \in Nat /\ needed[t] \in Nat
          /\ now \in Nat
      BY <1>0 DEF TimedTypes
    <3>3. needed[t] * NsPerMs \in Nat /\ Timeout * NsPerMs \in Nat
      BY <1>0, <3>2, SemAssumption
    <3> QED BY <2>1, <3>1, <3>2, <3>3 DEF TimedAt
  <2> QED BY <2>2, <2>3 DEF Timed
<1>4. ASSUME NEW t \in Threads, Call(t) PROVE Timed'
  <2>1. PICK k \in {"wait", "timed", "signal"} :
          /\ call' = [call EXCEPT ![t] = k]
          /\ begun' = [begun EXCEPT ![t] = IF k = "timed" THEN now ELSE 0]
    BY <1>4 DEF Call
  <2>2. /\ pc[t] = "idle" /\ pc' = [pc EXCEPT ![t] = "lock"]
        /\ UNCHANGED <<now, rtime1, needed>>
    BY <1>4 DEF Call
  <2>3. TimedTypes'
    BY <1>0, <2>1, <2>2 DEF TimedTypes
  <2>4. TimedAt(t)'
    <3>1. call[t] = "none"
      BY <2>2 DEF SInv, Placed
    <3>2. needed[t] = 0
      BY <1>0, <3>1 DEF TimedAt
    <3>3. /\ call'[t] = k /\ begun'[t] = IF k = "timed" THEN now ELSE 0
          /\ pc'[t] = "lock"
      BY <1>0, <1>1, <2>1, <2>2 DEF TimedTypes
    <3>4. now \in Nat
      BY <1>0 DEF TimedTypes
    <3> QED BY <1>0, <2>2, <3>2, <3>3, <3>4 DEF TimedAt
  <2>5. ASSUME NEW u \in Threads, u # t PROVE TimedAt(u)'
    <3>1. /\ call'[u] = call[u] /\ begun'[u] = begun[u] /\ pc'[u] = pc[u]
      BY <1>0, <1>1, <2>1, <2>2, <2>5 DEF TimedTypes
    <3> QED BY <1>0, <2>2, <3>1, TimedFrame
  <2> QED BY <2>3, <2>4, <2>5 DEF Timed
<1>5. ASSUME NEW t \in Threads, Take(t) \/ Expired(t) PROVE Timed'
  <2>1. /\ pc' = [pc EXCEPT ![t] = "idle"]
        /\ call' = [call EXCEPT ![t] = "none"]
        /\ begun' = [begun EXCEPT ![t] = 0]
        /\ rtime1' = [rtime1 EXCEPT ![t] = 0]
        /\ needed' = [needed EXCEPT ![t] = 0] /\ now' = now
    BY <1>5 DEF Take, Expired, Return
  <2>2. TimedTypes'
    BY <1>0, <2>1 DEF TimedTypes
  <2>3. TimedAt(t)'
    <3>1. pc'[t] = "idle" /\ call'[t] = "none" /\ needed'[t] = 0
      BY <1>0, <1>1, <2>1 DEF TimedTypes
    <3> QED BY <3>1 DEF TimedAt
  <2>4. ASSUME NEW u \in Threads, u # t PROVE TimedAt(u)'
    <3>1. /\ call'[u] = call[u] /\ begun'[u] = begun[u] /\ pc'[u] = pc[u]
          /\ rtime1'[u] = rtime1[u] /\ needed'[u] = needed[u]
      BY <1>0, <1>1, <2>1, <2>4 DEF TimedTypes
    <3> QED BY <1>0, <2>1, <3>1, TimedFrame
  <2> QED BY <2>2, <2>3, <2>4 DEF Timed
<1>6. ASSUME NEW t \in Threads, Signal(t) PROVE Timed'
  <2>1. /\ call' = [call EXCEPT ![t] = "none"] /\ pc' = Broadcast(t)
        /\ pc[t] = "signal" /\ UNCHANGED <<now, begun, rtime1, needed>>
    BY <1>6 DEF Signal
  <2>2. TimedTypes'
    BY <1>0, <2>1 DEF TimedTypes
  <2>3. TimedAt(t)'
    <3>1. call[t] = "signal"
      BY <2>1 DEF SInv, Placed
    <3>2. needed[t] = 0
      BY <1>0, <3>1 DEF TimedAt
    <3>3. call'[t] = "none" /\ pc'[t] = "idle"
      BY <1>1, <2>1 DEF Broadcast
    <3> QED BY <2>1, <3>2, <3>3 DEF TimedAt
  <2>4. ASSUME NEW u \in Threads, u # t PROVE TimedAt(u)'
    <3>1. call'[u] = call[u]
      BY <1>1, <2>1, <2>4
    <3>2. pc'[u] = pc[u] \/ (pc'[u] = "woken" /\ pc[u] = "cond")
      BY <2>1, <2>4 DEF Broadcast
    <3> QED BY <1>0, <2>1, <3>1, <3>2, TimedFrame
  <2> QED BY <2>2, <2>3, <2>4 DEF Timed
<1>7. ASSUME NEW t \in Threads,
             Lock(t) \/ CondWait(t) \/ Relock(t) \/ Expire(t) \/ Spurious(t)
      PROVE  Timed'
  <2>1. /\ UNCHANGED <<now, begun, call>>
        /\ \A u \in Threads : u # t =>
             /\ pc'[u] = pc[u] /\ rtime1'[u] = rtime1[u]
             /\ needed'[u] = needed[u]
    BY <1>0, <1>1, <1>7 DEF Lock, CondWait, Relock, Expire, Spurious,
                            TimedTypes
  <2>2. ASSUME NEW u \in Threads, u # t PROVE TimedAt(u)'
    BY <1>0, <2>1, <2>2, TimedFrame
  <2>3. TimedAt(t) /\ begun[t] \in Nat /\ now \in Nat /\ rtime1[t] \in Nat
    BY <1>0 DEF TimedTypes
  <2>4. TimedTypes' /\ TimedAt(t)'
    <3>1. CASE Lock(t)
      <4>1. /\ pc'[t] \in {"signal", "test"}
            /\ UNCHANGED <<now, begun, rtime1, needed, call>>
        BY <1>1, <3>1 DEF Lock
      <4> QED BY <1>0, <2>3, <4>1 DEF TimedTypes, TimedAt
    <3>2. CASE CondWait(t)
      <4>1. /\ rtime1' = [rtime1 EXCEPT ![t] = IF call[t] = "timed" THEN now
                                               ELSE 0]
            /\ pc' = [pc EXCEPT ![t] = "cond"] /\ needed' = needed
        BY <3>2 DEF CondWait
      <4>2. TimedTypes'
        BY <1>0, <2>1, <2>3, <4>1 DEF TimedTypes
      <4>3. /\ rtime1'[t] = (IF call[t] = "timed" THEN now ELSE 0)
            /\ pc'[t] = "cond"
        BY <1>0, <1>1, <4>1 DEF TimedTypes
      <4> QED BY <2>1, <2>3, <4>1, <4>2, <4>3 DEF TimedAt
    <3>3. CASE Relock(t)
      <4> DEFINE e == Elapsed(t)
      <4>1. /\ needed' = [needed EXCEPT ![t] = IF call[t] = "timed" THEN e
                                               ELSE @]
            /\ pc[t] = "woken" /\ pc' = [pc EXCEPT ![t] = "test"]
            /\ rtime1' = rtime1
        BY <3>3 DEF Relock
      <4>2. call[t] = "timed" =>
              /\ begun[t] <= rtime1[t] /\ rtime1[t] <= now
              /\ e \in Nat /\ e * NsPerMs <= now - rtime1[t]
        BY <2>3, <4>1, ElapsedHonest DEF TimedAt
      <4> HIDE DEF e
      <4>3. TimedTypes'
        BY <1>0, <2>1, <4>1, <4>2 DEF TimedTypes
      <4>4. /\ needed'[t] = (IF call[t] = "timed" THEN e ELSE needed[t])
            /\ pc'[t] = "test"
        BY <1>0, <1>1, <4>1 DEF TimedTypes
      <4>5. call[t] = "timed" => e * NsPerMs <= now - begun[t]
        <5> SUFFICES ASSUME call[t] = "timed"
                     PROVE  e * NsPerMs <= now - begun[t]
          OBVIOUS
        <5>1. e * NsPerMs \in Nat
          BY <1>0, <4>2
        <5> QED BY <2>3, <4>2, <5>1
      <4> QED BY <2>1, <2>3, <4>1, <4>3, <4>4, <4>5 DEF TimedAt
    <3>4. CASE Expire(t)
      <4>1. /\ pc[t] = "cond" /\ call[t] = "timed" /\ Reached(Deadline(t))
            /\ pc' = [pc EXCEPT ![t] = "expired"]
            /\ UNCHANGED <<rtime1, needed>>
        BY <3>4 DEF Expire
      <4>2. now - rtime1[t] >= Timeout * NsPerMs
        BY <2>3, <4>1, DeadlineHonest
      <4>3. pc'[t] = "expired"
        BY <1>1, <4>1
      <4>4. TimedTypes'
        BY <1>0, <2>1, <4>1 DEF TimedTypes
      <4> QED BY <2>1, <2>3, <4>1, <4>2, <4>3, <4>4 DEF TimedAt
    <3>5. CASE Spurious(t)
      <4>1. /\ pc[t] = "cond" /\ pc'[t] = "woken"
            /\ UNCHANGED <<now, begun, rtime1, needed, call>>
        BY <1>1, <3>5 DEF Spurious
      <4> QED BY <1>0, <2>3, <4>1 DEF TimedTypes, TimedAt
    <3> QED BY <1>7, <3>1, <3>2, <3>3, <3>4, <3>5
  <2> QED BY <2>2, <2>4 DEF Timed
<1> QED BY <1>2, <1>3, <1>4, <1>5, <1>6, <1>7 DEF Next, Step

\* A call that returns: an expired one has lasted its timeout, and another one
\* reports no more than it has lasted.
LEMMA ReturnHonest ==
  ASSUME SInv, Timed, [Next]_cvars, NEW t \in Waiters,
         call[t] # "none", call'[t] = "none"
  PROVE  IF result'[t] = "timeout"
         THEN now - begun[t] >= Timeout * NsPerMs
         ELSE call[t] = "timed" =>
                needed[t] * NsPerMs \in 0 .. now - begun[t]
<1>1. /\ t \in Threads /\ TimedAt(t)
      /\ now \in Nat /\ begun[t] \in Nat /\ rtime1[t] \in Nat
      /\ needed[t] \in Nat
  BY DEF Timed, Threads, TimedTypes
<1>2. /\ call \in [Threads -> {"none", "wait", "timed", "signal"}]
      /\ result \in [Threads -> {"none", "ok", "timeout"}]
  BY DEF SInv, Types
<1>3. PICK u \in Threads : Take(u) \/ Expired(u) \/ Signal(u)
  BY <1>1, <1>2 DEF Next, Step, Tick, Call, Lock, CondWait, Relock, Expire,
                    Spurious, cvars
<1>4. u = t
  BY <1>1, <1>2, <1>3 DEF Take, Expired, Signal, Return
<1>5. CASE Expired(u)
  <2>1. pc[t] = "expired" /\ result'[t] = "timeout"
    BY <1>1, <1>2, <1>4, <1>5 DEF Expired, Return
  <2>2. call[t] = "timed"
    BY <1>1, <2>1 DEF SInv, Placed
  <2>3. now - rtime1[t] >= Timeout * NsPerMs /\ begun[t] <= rtime1[t]
    BY <1>1, <2>1, <2>2 DEF TimedAt
  <2>4. Timeout * NsPerMs \in Nat
    BY SemAssumption
  <2>5. now - begun[t] >= Timeout * NsPerMs
    BY <1>1, <2>3, <2>4
  <2> QED BY <2>1, <2>5
<1>6. CASE Take(u) \/ Signal(u)
  <2>1. result'[t] = "ok"
    BY <1>1, <1>2, <1>4, <1>6 DEF Take, Signal, Return
  <2>2. ASSUME call[t] = "timed"
        PROVE  needed[t] * NsPerMs \in 0 .. now - begun[t]
    <3>1. needed[t] * NsPerMs <= now - begun[t]
      BY <1>1, <2>2 DEF TimedAt
    <3>2. needed[t] * NsPerMs \in Nat
      BY <1>1, SemAssumption
    <3> QED BY <1>1, <3>1, <3>2
  <2> QED BY <2>1, <2>2
<1> QED BY <1>3, <1>5, <1>6

\* sys_arch_sem_wait never times out early and never reports more time than it
\* took, with any timeout, clock and interleaving: the carry and the borrow of
\* cond_wait's two times are right.
THEOREM TimesAreHonest == Spec => HonestTimes
<1> DEFINE I == SInv /\ Timed
           A == \A t \in Waiters : call[t] # "none" /\ call'[t] = "none" =>
                  IF result'[t] = "timeout"
                  THEN now - begun[t] >= Timeout * NsPerMs
                  ELSE call[t] = "timed" =>
                         needed[t] * NsPerMs \in 0 .. now - begun[t]
<1>1. Init => I
  BY InitSInv, InitTimed
<1>2. I /\ [Next]_cvars => I'
  BY NextSInv, NextTimed
<1>3. I /\ [Next]_cvars => [A]_cvars
  BY ReturnHonest
<1>4. Spec => [][A]_cvars
  BY <1>1, <1>2, <1>3, PTL DEF Spec
<1> QED BY <1>4 DEF HonestTimes
=============================================================================
