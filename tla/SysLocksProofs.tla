--------------------------- MODULE SysLocksProofs ---------------------------
(***************************************************************************)
(* Proofs about SysLocks, for any threads and any depth of nested          *)
(* protection.                                                             *)
(*                                                                         *)
(* lwprot_thread, which sys_arch_protect reads without the mutex, is tied  *)
(* to the mutex by where its holder is (Prot); the holder of the core is   *)
(* tied to the lock of the core in the same way (Core).                    *)
(***************************************************************************)
EXTENDS SysLocks, TLAPS

\* Who has lwprot_mutex, whom lwprot_thread names, and what the count is.
Prot ==
  \A t \in Threads :
    /\ depth[t] > 0 => pc[t] \in {"run", "protect"}
    /\ pc[t] = "protect" => depth[t] < MaxDepth
    /\ lwprot_mutex = t <=>
         \/ depth[t] > 0
         \/ pc[t] \in {"protect_thread", "protect_count", "unprotect",
                       "unprotect_unlock"}
    /\ lwprot_thread = t <=>
         depth[t] > 0 \/ pc[t] \in {"protect_count", "unprotect"}
    /\ depth[t] > 0 => lwprot_count = depth[t]

\* The holder is set after the core is locked and cleared before it is
\* unlocked.
Core ==
  /\ fault = "none"
  /\ \A t \in Threads :
       /\ holder = t => core = t
       /\ pc[t] \in {"core_set", "core_unlock"} => core = t /\ holder # t
       /\ core = t /\ pc[t] \notin {"core_set", "core_unlock"} => holder = t

\* The thread that inserts has the mutex of the list, and what it has read of
\* the list is still so.
List ==
  /\ \A t \in Threads :
       /\ pc[t] \in {"introduce_next", "introduce_head"} => threads_mutex = t
       /\ pc[t] \in {"introduce", "introduce_next", "introduce_head"} =>
            child[t] \in Threads
       /\ pc[t] = "introduce_head" => next[t] = threads
  /\ ListIsComplete

\* The inductive invariant.
LInv == TypeOK /\ Prot /\ Core /\ List

USE DEF Goto, At, protVars, coreVars, listVars

-----------------------------------------------------------------------------
\* The threads on a list.
Elements(s) == {s[i] : i \in DOMAIN s}

\* Insertion at the head adds one element.
LEMMA HeadFacts ==
  ASSUME NEW s \in Seq(Threads), NEW x \in Threads, NEW r, r = <<x>> \o s
  PROVE  /\ r \in Seq(Threads)
         /\ Elements(r) = Elements(s) \cup {x}
<1>1. /\ r \in Seq(Threads) /\ Len(s) \in Nat /\ Len(r) = Len(s) + 1
      /\ DOMAIN r = 1 .. Len(s) + 1 /\ DOMAIN s = 1 .. Len(s)
      /\ r[1] = x
  OBVIOUS
<1>2. \A i \in 1 .. Len(s) : r[i + 1] = s[i] /\ i + 1 \in DOMAIN r
  <2> SUFFICES ASSUME NEW i \in 1 .. Len(s)
               PROVE  r[i + 1] = s[i] /\ i + 1 \in DOMAIN r
    OBVIOUS
  <2> QED BY <1>1
<1>3. ASSUME NEW i \in DOMAIN r
      PROVE  r[i] = x \/ \E j \in DOMAIN s : r[i] = s[j]
  <2>1. CASE i = 1
    BY <1>1, <2>1
  <2>2. CASE i # 1
    <3>1. i - 1 \in 1 .. Len(s) /\ (i - 1) + 1 = i
      BY <1>1, <2>2
    <3> QED BY <1>1, <1>2, <3>1
  <2> QED BY <2>1, <2>2
<1>4. 1 \in DOMAIN r
  BY <1>1
<1>5. {r[i] : i \in DOMAIN r} = {s[i] : i \in DOMAIN s} \cup {x}
  <2>1. ASSUME NEW e \in {r[i] : i \in DOMAIN r}
        PROVE  e \in {s[i] : i \in DOMAIN s} \cup {x}
    BY <1>3, <2>1
  <2>2. ASSUME NEW e \in {s[i] : i \in DOMAIN s}
        PROVE  e \in {r[i] : i \in DOMAIN r}
    BY <1>1, <1>2, <2>2
  <2>3. x \in {r[i] : i \in DOMAIN r}
    BY <1>1, <1>4
  <2> QED BY <2>1, <2>2, <2>3
<1> QED BY <1>1, <1>5 DEF Elements

\* At the start one thread runs, and nothing is locked.
LEMMA InitLInv == Init => LInv
<1> SUFFICES ASSUME Init PROVE LInv
  OBVIOUS
<1>1. TypeOK
  BY LocksAssumption DEF Init, TypeOK, Labels
<1>2. Prot
  <2>1. ASSUME NEW t \in Threads
        PROVE  /\ depth[t] = 0 /\ pc[t] \in {"run", "unborn"}
               /\ lwprot_mutex # t /\ lwprot_thread # t
    BY LocksAssumption DEF Init
  <2>2. ASSUME NEW t \in Threads
        PROVE  ~(depth[t] > 0)
    BY <2>1
  <2> QED BY <2>1, <2>2 DEF Prot
<1>3. Core
  BY LocksAssumption DEF Init, Core
<1>4. List
  BY LocksAssumption DEF Init, List, ListIsComplete
<1> QED BY <1>1, <1>2, <1>3, <1>4 DEF LInv

\* The parts of TypeOK that are used most.
LEMMA TypeFacts ==
  ASSUME TypeOK
  PROVE  /\ pc \in [Threads -> Labels] /\ depth \in [Threads -> 0 .. MaxDepth]
         /\ lwprot_count \in 0 .. MaxDepth
         /\ \A u \in Threads : depth[u] \in Nat
         /\ MaxDepth \in Nat /\ MaxDepth > 0 /\ Nobody \notin Threads
<1>1. /\ pc \in [Threads -> Labels] /\ depth \in [Threads -> 0 .. MaxDepth]
      /\ lwprot_count \in 0 .. MaxDepth
  BY DEF TypeOK
<1>2. MaxDepth \in Nat /\ MaxDepth > 0 /\ Nobody \notin Threads
  BY LocksAssumption
<1>3. \A u \in Threads : depth[u] \in Nat
  BY <1>1, <1>2
<1> QED BY <1>1, <1>2, <1>3

-----------------------------------------------------------------------------
(* Protection.                                                             *)

\* The steps of protection leave the core and the list alone.
LEMMA ProtFrame ==
  ASSUME LInv, NEW t \in Threads, NEW l, pc' = [pc EXCEPT ![t] = l],
         pc[t] \in {"run", "protect", "protect_lock", "protect_thread",
                    "protect_count", "unprotect", "unprotect_unlock"},
         l \in {"run", "protect", "protect_lock", "protect_thread",
                "protect_count", "unprotect", "unprotect_unlock"},
         UNCHANGED <<coreVars, listVars>>
  PROVE  Core' /\ List'
<1> USE DEF LInv
<1>1. pc'[t] = l /\ \A u \in Threads : u # t => pc'[u] = pc[u]
  BY DEF TypeOK
<1>2. Core'
  BY <1>1 DEF Core
<1>3. List'
  BY <1>1 DEF List, ListIsComplete
<1> QED BY <1>2, <1>3

\* Every step of protection keeps LInv.
LEMMA ProtectLInv ==
  ASSUME LInv, NEW t \in Threads,
         \/ ProtectCall(t) \/ ProtectTest(t) \/ ProtectLock(t)
         \/ ProtectThread(t) \/ ProtectCount(t)
         \/ Unprotect(t) \/ UnprotectThread(t) \/ UnprotectUnlock(t)
  PROVE  LInv'
<1> USE DEF LInv
<1>1. /\ pc \in [Threads -> Labels] /\ depth \in [Threads -> 0 .. MaxDepth]
      /\ lwprot_count \in 0 .. MaxDepth
      /\ \A u \in Threads : depth[u] \in Nat
      /\ MaxDepth \in Nat /\ MaxDepth > 0 /\ Nobody \notin Threads
  BY TypeFacts
<1>2. CASE ProtectCall(t)
  <2>1. TypeOK'
    BY <1>2 DEF ProtectCall, TypeOK, Labels
  <2>2. Prot'
    BY <1>1, <1>2 DEF ProtectCall, Prot
  <2>3. Core' /\ List'
    BY <1>2, ProtFrame DEF ProtectCall
  <2> QED BY <2>1, <2>2, <2>3
<1>3. CASE ProtectTest(t) /\ lwprot_thread = t
  <2>1. /\ pc[t] = "protect" /\ pc' = [pc EXCEPT ![t] = "run"]
        /\ depth' = [depth EXCEPT ![t] = depth[t] + 1]
        /\ lwprot_count' = lwprot_count + 1
        /\ UNCHANGED <<lwprot_mutex, lwprot_thread, coreVars, listVars>>
    BY <1>3 DEF ProtectTest
  <2>2. depth[t] > 0 /\ lwprot_count = depth[t] /\ depth[t] < MaxDepth
    BY <1>3, <2>1 DEF Prot
  <2>3. TypeOK'
    BY <1>1, <2>1, <2>2 DEF TypeOK, Labels
  <2>4. \A u \in Threads : u # t => depth[u] = 0
    BY <1>1, <2>2 DEF Prot
  <2>5. Prot'
    BY <1>1, <2>1, <2>2, <2>4 DEF Prot
  <2>6. Core' /\ List'
    BY <2>1, ProtFrame
  <2> QED BY <2>3, <2>5, <2>6
<1>4. CASE ProtectTest(t) /\ lwprot_thread # t
  <2>1. /\ pc[t] = "protect" /\ pc' = [pc EXCEPT ![t] = "protect_lock"]
        /\ UNCHANGED <<protVars, coreVars, listVars>>
    BY <1>4 DEF ProtectTest
  <2>2. depth[t] = 0
    BY <1>1, <1>4 DEF Prot
  <2>3. TypeOK'
    BY <2>1 DEF TypeOK, Labels
  <2>4. Prot'
    BY <1>1, <2>1, <2>2 DEF Prot
  <2>5. Core' /\ List'
    BY <2>1, ProtFrame
  <2> QED BY <2>3, <2>4, <2>5
<1>5. CASE ProtectLock(t)
  <2>1. TypeOK'
    BY <1>5 DEF ProtectLock, TypeOK, Labels
  <2>2. Prot'
    BY <1>1, <1>5 DEF ProtectLock, Prot
  <2>3. Core' /\ List'
    BY <1>5, ProtFrame DEF ProtectLock
  <2> QED BY <2>1, <2>2, <2>3
<1>6. CASE ProtectThread(t)
  <2>1. TypeOK'
    BY <1>6 DEF ProtectThread, TypeOK, Labels
  <2>2. lwprot_mutex = t /\ \A u \in Threads : u # t => lwprot_thread # u
    BY <1>1, <1>6 DEF ProtectThread, Prot
  <2>3. Prot'
    BY <1>1, <1>6, <2>2 DEF ProtectThread, Prot
  <2>4. Core' /\ List'
    BY <1>6, ProtFrame DEF ProtectThread
  <2> QED BY <2>1, <2>3, <2>4
<1>7. CASE ProtectCount(t)
  <2>1. depth[t] = 0 /\ lwprot_mutex = t
    BY <1>1, <1>7 DEF ProtectCount, Prot
  <2>2. TypeOK'
    BY <1>1, <1>7, <2>1 DEF ProtectCount, TypeOK, Labels
  <2>3. \A u \in Threads : u # t => depth[u] = 0
    BY <1>1, <2>1 DEF Prot
  <2>4. Prot'
    BY <1>1, <1>7, <2>1, <2>3 DEF ProtectCount, Prot
  <2>5. Core' /\ List'
    BY <1>7, ProtFrame DEF ProtectCount
  <2> QED BY <2>2, <2>4, <2>5
<1>8. CASE Unprotect(t)
  <2>1. /\ depth[t] > 0 /\ lwprot_thread = t /\ lwprot_mutex = t
        /\ lwprot_count = depth[t]
    BY <1>8 DEF Unprotect, Prot
  <2>2. /\ pc[t] = "run"
        /\ pc' = [pc EXCEPT ![t] = IF depth[t] = 1 THEN "unprotect" ELSE "run"]
        /\ depth' = [depth EXCEPT ![t] = depth[t] - 1]
        /\ lwprot_count' = lwprot_count - 1
        /\ UNCHANGED <<lwprot_mutex, lwprot_thread, coreVars, listVars>>
    BY <1>1, <1>8, <2>1 DEF Unprotect, LastUnprotect
  <2>3. TypeOK'
    BY <1>1, <2>1, <2>2 DEF TypeOK, Labels
  <2>4. \A u \in Threads : u # t => depth[u] = 0
    BY <1>1, <2>1 DEF Prot
  <2>5. Prot'
    BY <1>1, <2>1, <2>2, <2>4 DEF Prot
  <2>6. Core' /\ List'
    BY <2>2, ProtFrame
  <2> QED BY <2>3, <2>5, <2>6
<1>9. CASE UnprotectThread(t)
  <2>1. TypeOK'
    BY <1>9 DEF UnprotectThread, Dead, TypeOK, Labels
  <2>2. lwprot_thread = t /\ depth[t] = 0
    BY <1>1, <1>9 DEF UnprotectThread, Prot
  <2>3. Prot'
    BY <1>1, <1>9, <2>2 DEF UnprotectThread, Dead, Prot
  <2>4. Core' /\ List'
    BY <1>9, ProtFrame DEF UnprotectThread
  <2> QED BY <2>1, <2>3, <2>4
<1>10. CASE UnprotectUnlock(t)
  <2>1. TypeOK'
    BY <1>10 DEF UnprotectUnlock, TypeOK, Labels
  <2>2. lwprot_mutex = t /\ depth[t] = 0
    BY <1>1, <1>10 DEF UnprotectUnlock, Prot
  <2>3. Prot'
    BY <1>1, <1>10, <2>2 DEF UnprotectUnlock, Prot
  <2>4. Core' /\ List'
    BY <1>10, ProtFrame DEF UnprotectUnlock
  <2> QED BY <2>1, <2>3, <2>4
<1> QED BY <1>2, <1>3, <1>4, <1>5, <1>6, <1>7, <1>8, <1>9, <1>10

-----------------------------------------------------------------------------
(* The core and the list.                                                  *)

\* Steps outside protection leave it alone.
LEMMA OtherFrame ==
  ASSUME LInv, UNCHANGED protVars,
         \A u \in Threads :
           \/ pc'[u] = pc[u]
           \/ /\ depth[u] = 0
              /\ pc[u] \notin {"protect_thread", "protect_count", "unprotect",
                               "unprotect_unlock"}
              /\ pc'[u] \notin {"protect", "protect_thread", "protect_count",
                                "unprotect", "unprotect_unlock"}
  PROVE  Prot'
<1>1. \A u \in Threads : depth[u] \in Nat
  BY TypeFacts DEF LInv
<1> QED BY <1>1 DEF LInv, Prot

\* Every step with the core keeps LInv.
LEMMA CoreLInv ==
  ASSUME LInv, NEW t \in Threads,
         \/ CoreLock(t) \/ CoreSet(t) \/ CoreClear(t) \/ CoreUnlock(t)
         \/ Mark(t) \/ Check(t)
  PROVE  LInv'
<1> USE DEF LInv
<1>1. /\ pc \in [Threads -> Labels] /\ Nobody \notin Threads
      /\ \A u \in Threads : depth[u] \in Nat
  BY TypeFacts
<1>2. UNCHANGED <<protVars, listVars>>
  BY DEF CoreLock, CoreSet, CoreClear, CoreUnlock, Mark, Check
<1>3. TypeOK'
  BY DEF CoreLock, CoreSet, CoreClear, CoreUnlock, Mark, Check, TypeOK, Labels
<1>4. ASSUME NEW u \in Threads
      PROVE  \/ pc'[u] = pc[u]
             \/ /\ depth[u] = 0
                /\ pc[u] \in {"run", "core_set", "core_unlock"}
                /\ pc'[u] \in {"run", "core_set", "core_unlock"}
  <2>1. pc[t] \in {"core_set", "core_unlock"} => depth[t] = 0
    BY <1>1 DEF Prot
  <2> QED BY <1>1, <2>1
          DEF CoreLock, CoreSet, CoreClear, CoreUnlock, Mark, Check
<1>5. Prot'
  BY <1>2, <1>4, OtherFrame
<1>6. Core'
  <2>1. CASE CoreLock(t)
    BY <1>1, <2>1 DEF CoreLock, Core
  <2>2. CASE CoreSet(t)
    BY <1>1, <2>2 DEF CoreSet, Core
  <2>3. CASE CoreClear(t)
    BY <1>1, <2>3 DEF CoreClear, Core
  <2>4. CASE CoreUnlock(t)
    BY <1>1, <2>4 DEF CoreUnlock, Core, TypeOK
  <2>5. CASE Mark(t)
    BY <1>1, <2>5 DEF Mark, Core
  <2>6. CASE Check(t)
    BY <1>1, <2>6 DEF Check, Core
  <2> QED BY <2>1, <2>2, <2>3, <2>4, <2>5, <2>6
<1>7. List'
  BY <1>2, <1>4 DEF List, ListIsComplete
<1> QED BY <1>3, <1>5, <1>6, <1>7

\* Every step of sys_thread_new keeps LInv.
LEMMA ThreadLInv ==
  ASSUME LInv, NEW t \in Threads,
         \/ \E u \in Threads : ThreadCreate(t, u)
         \/ IntroduceLock(t) \/ IntroduceNext(t) \/ IntroduceHead(t)
  PROVE  LInv'
<1> USE DEF LInv
<1>1. /\ pc \in [Threads -> Labels] /\ Nobody \notin Threads
      /\ child \in [Threads -> Threads \cup {Nobody}]
      /\ next \in [Threads -> Seq(Threads)] /\ threads \in Seq(Threads)
      /\ \A u \in Threads : depth[u] \in Nat
  BY TypeFacts DEF TypeOK
<1>2. UNCHANGED <<protVars, coreVars>>
  BY DEF ThreadCreate, IntroduceLock, IntroduceNext, IntroduceHead
<1>3. ASSUME NEW v \in Threads
      PROVE  \/ pc'[v] = pc[v]
             \/ /\ depth[v] = 0
                /\ pc[v] \in {"unborn", "run", "introduce", "introduce_next",
                              "introduce_head"}
                /\ pc'[v] \in {"run", "introduce", "introduce_next",
                               "introduce_head"}
  <2>1. pc[v] \in {"unborn", "introduce", "introduce_next", "introduce_head"}
          => depth[v] = 0
    <3>1. depth[v] \in Nat /\ (depth[v] > 0 => pc[v] \in {"run", "protect"})
      BY <1>1 DEF Prot
    <3> QED BY <3>1
  <2> QED BY <1>1, <2>1
          DEF ThreadCreate, IntroduceLock, IntroduceNext, IntroduceHead
<1>4. Prot'
  BY <1>2, <1>3, OtherFrame
<1>5. Core'
  BY <1>2, <1>3 DEF Core
<1>6. CASE \E u \in Threads : ThreadCreate(t, u)
  <2>1. PICK u \in Threads : ThreadCreate(t, u)
    BY <1>6
  <2>2. u # t /\ pc'[t] = "introduce" /\ pc'[u] = "run"
        /\ \A v \in Threads \ {t, u} : pc'[v] = pc[v]
    BY <1>1, <2>1 DEF ThreadCreate
  <2>3. TypeOK'
    BY <2>1, <1>1 DEF ThreadCreate, TypeOK, Labels
  <2>4. /\ child'[t] = u /\ \A v \in Threads : v # t => child'[v] = child[v]
        /\ UNCHANGED <<threads_mutex, threads, next, listed>>
    BY <1>1, <2>1 DEF ThreadCreate
  <2>5. List'
    BY <2>2, <2>4 DEF List, ListIsComplete
  <2> QED BY <1>4, <1>5, <2>3, <2>5
<1>7. CASE IntroduceLock(t)
  <2>1. TypeOK'
    BY <1>7 DEF IntroduceLock, TypeOK, Labels
  <2>2. List'
    BY <1>1, <1>7 DEF IntroduceLock, List, ListIsComplete
  <2> QED BY <1>4, <1>5, <2>1, <2>2
<1>8. CASE IntroduceNext(t)
  <2>1. TypeOK'
    BY <1>8 DEF IntroduceNext, TypeOK, Labels
  <2>2. List'
    BY <1>1, <1>8 DEF IntroduceNext, List, ListIsComplete
  <2> QED BY <1>4, <1>5, <2>1, <2>2
<1>9. CASE IntroduceHead(t)
  <2>1. /\ threads_mutex = t /\ child[t] \in Threads /\ next[t] = threads
        /\ pc[t] = "introduce_head"
    BY <1>9 DEF IntroduceHead, List
  <2>2. /\ threads' = <<child[t]>> \o threads /\ threads_mutex' = Nobody
        /\ listed' = listed \cup {child[t]}
        /\ next' = [next EXCEPT ![t] = <<>>]
        /\ child' = [child EXCEPT ![t] = Nobody]
        /\ pc' = [pc EXCEPT ![t] = "run"]
    BY <1>9, <2>1 DEF IntroduceHead
  <2>3. /\ threads' \in Seq(Threads)
        /\ Elements(threads') = Elements(threads) \cup {child[t]}
    <3>1. threads \in Seq(Threads)
      BY <1>1
    <3>2. child[t] \in Threads /\ threads' = <<child[t]>> \o threads
      BY <2>1, <2>2
    <3>3. PICK s \in Seq(Threads), x \in Threads : s = threads /\ x = child[t]
      BY <3>1, <3>2
    <3>4. threads' = <<x>> \o s
      BY <3>2, <3>3
    <3>5. /\ <<x>> \o s \in Seq(Threads)
          /\ Elements(<<x>> \o s) = Elements(s) \cup {x}
      BY HeadFacts
    <3> QED BY <3>3, <3>4, <3>5
  <2>4. TypeOK'
    BY <1>2, <2>1, <2>2, <2>3 DEF TypeOK, Labels
  <2>5. ListIsComplete'
    <3>1. Elements(threads) = listed
      BY DEF List, ListIsComplete, Elements
    <3>2. Elements(threads') = listed'
      BY <2>2, <2>3, <3>1
    <3> QED BY <3>2 DEF ListIsComplete, Elements
  <2>6. \A u \in Threads :
          u # t => pc[u] \notin {"introduce_next", "introduce_head"}
    BY <2>1 DEF List
  <2>7. List'
    BY <1>1, <2>2, <2>5, <2>6 DEF List
  <2> QED BY <1>4, <1>5, <2>4, <2>7
<1> QED BY <1>6, <1>7, <1>8, <1>9

\* Every step keeps LInv.
LEMMA NextLInv == LInv /\ [Next]_lvars => LInv'
<1> SUFFICES ASSUME LInv, [Next]_lvars PROVE LInv'
  OBVIOUS
<1>1. CASE UNCHANGED lvars
  BY <1>1 DEF lvars, LInv, TypeOK, Prot, Core, List, ListIsComplete
<1>2. CASE Next
  BY <1>2, ProtectLInv, CoreLInv, ThreadLInv DEF Next
<1> QED BY <1>1, <1>2

\* LInv holds in every state.
LEMMA LInvAlways == Spec => []LInv
BY InitLInv, NextLInv, PTL DEF Spec

-----------------------------------------------------------------------------
\* Types hold; lwprot_count stays between 0 and the deepest nesting.
THEOREM LocksTypeCorrect == Spec => []TypeOK
<1>1. LInv => TypeOK
  BY DEF LInv
<1> QED BY <1>1, LInvAlways, PTL

\* sys_arch_protect excludes every other thread at every depth, and the mutex
\* goes with the outermost sys_arch_unprotect.
THEOREM ProtectExcludes == Spec => []ProtectIsLock
<1>1. LInv => ProtectIsLock
  BY DEF LInv, Prot, ProtectIsLock, UnlockedTestIsRight, Labels
<1> QED BY <1>1, LInvAlways, PTL

\* The test of lwprot_thread that sys_arch_protect makes without the mutex
\* never takes a thread for the holder that is not, nor the other way round.
THEOREM UnlockedTestSafe == Spec => []UnlockedTestIsRight
<1>1. LInv => UnlockedTestIsRight
  BY DEF LInv, Prot, UnlockedTestIsRight, Labels
<1> QED BY <1>1, LInvAlways, PTL

\* sys_check_core_locking never fails for the thread that has locked the core,
\* and lwip_core_lock_holder_thread_id names no other.
THEOREM CoreCheckExact == Spec => []CheckIsExact
<1>1. LInv => CheckIsExact
  BY DEF LInv, Core, CheckIsExact
<1> QED BY <1>1, LInvAlways, PTL

\* introduce_thread loses no thread, however many are created at once.
THEOREM ThreadListComplete == Spec => []ListIsComplete
<1>1. LInv => ListIsComplete
  BY DEF LInv, List
<1> QED BY <1>1, LInvAlways, PTL
=============================================================================
