------------------------------ MODULE SysLocks ------------------------------
(***************************************************************************)
(* Threads and locks of lwIP's system port (src/sys.c, NO_SYS 0):          *)
(* sys_thread_new with the list of threads, sys_arch_protect and           *)
(* sys_arch_unprotect, a lock that a thread may take again, and the lock   *)
(* of the core with the check that its holder calls.                       *)
(*                                                                         *)
(* lwprot_thread and lwip_core_lock_holder_thread_id are read by threads   *)
(* that do not hold the lock.  Each is one machine word: a read returns    *)
(* what the last write put there.  So every access is a step of its own.   *)
(***************************************************************************)
EXTENDS Integers, Sequences

CONSTANTS
  Threads,    \* pthreads
  Main,       \* the thread that runs at first
  Nobody,     \* 0xDEAD, 0, or a mutex that is free
  MaxDepth    \* bound: calls of sys_arch_protect one within the other

ASSUME LocksAssumption ==
  Main \in Threads /\ Nobody \notin Threads /\ MaxDepth \in Nat \ {0}

VARIABLES
  pc,         \* where a thread is; "unborn" before pthread_create
  depth,      \* depth[t]: calls of sys_arch_protect not yet undone
  lwprot_mutex, lwprot_thread, lwprot_count,
  core,       \* the thread that has locked lock_tcpip_core
  holder,     \* lwip_core_lock_holder_thread_id
  tcpip,      \* lwip_tcpip_thread_id
  threads_mutex, threads,   \* the list of threads, newest first
  child, next,   \* the thread being introduced, and its field next
  listed,     \* history: threads introduce_thread has returned for
  fault       \* an assertion of sys_check_core_locking has failed

protVars == <<depth, lwprot_mutex, lwprot_thread, lwprot_count>>
coreVars == <<core, holder, tcpip, fault>>
listVars == <<threads_mutex, threads, child, next, listed>>
lvars == <<pc, protVars, coreVars, listVars>>

Goto(t, l) == pc' = [pc EXCEPT ![t] = l]
At(t, l) == pc[t] = l

-----------------------------------------------------------------------------
(* sys_arch_protect and sys_arch_unprotect.                                *)

ProtectCall(t) ==
  /\ At(t, "run") /\ depth[t] < MaxDepth
  /\ Goto(t, "protect")
  /\ UNCHANGED <<protVars, coreVars, listVars>>

\* "if (lwprot_thread != pthread_self())", without the mutex
ProtectTest(t) ==
  /\ At(t, "protect")
  /\ IF lwprot_thread = t
     THEN /\ lwprot_count' = lwprot_count + 1
          /\ depth' = [depth EXCEPT ![t] = @ + 1]
          /\ Goto(t, "run")
     ELSE Goto(t, "protect_lock") /\ UNCHANGED <<depth, lwprot_count>>
  /\ UNCHANGED <<lwprot_mutex, lwprot_thread, coreVars, listVars>>

ProtectLock(t) ==
  /\ At(t, "protect_lock") /\ lwprot_mutex = Nobody
  /\ lwprot_mutex' = t
  /\ Goto(t, "protect_thread")
  /\ UNCHANGED <<depth, lwprot_thread, lwprot_count, coreVars, listVars>>

ProtectThread(t) ==
  /\ At(t, "protect_thread")
  /\ lwprot_thread' = t
  /\ Goto(t, "protect_count")
  /\ UNCHANGED <<depth, lwprot_mutex, lwprot_count, coreVars, listVars>>

ProtectCount(t) ==
  /\ At(t, "protect_count")
  /\ lwprot_count' = 1
  /\ depth' = [depth EXCEPT ![t] = @ + 1]
  /\ Goto(t, "run")
  /\ UNCHANGED <<lwprot_mutex, lwprot_thread, coreVars, listVars>>

\* Mutant: the mutex goes with the first call, not with the last.
LastUnprotectAny == TRUE

\* "if (lwprot_count == 0)" after the decrement
LastUnprotect == lwprot_count - 1 = 0

\* sys_arch_unprotect up to its inner test
Unprotect(t) ==
  /\ At(t, "run") /\ depth[t] > 0
  /\ depth' = [depth EXCEPT ![t] = @ - 1]
  /\ IF lwprot_thread = t
     THEN /\ lwprot_count' = lwprot_count - 1
          /\ Goto(t, IF LastUnprotect THEN "unprotect" ELSE "run")
     ELSE UNCHANGED <<lwprot_count, pc>>
  /\ UNCHANGED <<lwprot_mutex, lwprot_thread, coreVars, listVars>>

\* 0xDEAD
Dead == Nobody

UnprotectThread(t) ==
  /\ At(t, "unprotect")
  /\ lwprot_thread' = Dead
  /\ Goto(t, "unprotect_unlock")
  /\ UNCHANGED <<depth, lwprot_mutex, lwprot_count, coreVars, listVars>>

UnprotectUnlock(t) ==
  /\ At(t, "unprotect_unlock")
  /\ lwprot_mutex' = Nobody
  /\ Goto(t, "run")
  /\ UNCHANGED <<depth, lwprot_thread, lwprot_count, coreVars, listVars>>

-----------------------------------------------------------------------------
(* The lock of the core.                                                   *)

\* sys_lock_tcpip_core: the mutex.  It is not recursive, and lwIP takes it
\* before it protects anything.
CoreLock(t) ==
  /\ At(t, "run") /\ depth[t] = 0 /\ core = Nobody
  /\ core' = t
  /\ Goto(t, "core_set")
  /\ UNCHANGED <<protVars, holder, tcpip, fault, listVars>>

CoreSet(t) ==
  /\ At(t, "core_set")
  /\ holder' = t
  /\ Goto(t, "run")
  /\ UNCHANGED <<protVars, core, tcpip, fault, listVars>>

\* Mutant: the holder is not cleared.
CoreClearNone(t) ==
  /\ At(t, "run") /\ core = t /\ depth[t] = 0
  /\ Goto(t, "core_unlock")
  /\ UNCHANGED <<protVars, coreVars, listVars>>

\* sys_unlock_tcpip_core: "lwip_core_lock_holder_thread_id = 0"
CoreClear(t) ==
  /\ At(t, "run") /\ core = t /\ depth[t] = 0
  /\ holder' = Nobody
  /\ Goto(t, "core_unlock")
  /\ UNCHANGED <<protVars, core, tcpip, fault, listVars>>

CoreUnlock(t) ==
  /\ At(t, "core_unlock")
  /\ core' = Nobody
  /\ Goto(t, "run")
  /\ UNCHANGED <<protVars, holder, tcpip, fault, listVars>>

\* sys_mark_tcpip_thread, by the thread that runs lwIP
Mark(t) ==
  /\ At(t, "run") /\ tcpip = Nobody
  /\ tcpip' = t
  /\ UNCHANGED <<pc, protVars, core, holder, fault, listVars>>

\* sys_check_core_locking in a function that a thread calls with the lock
Check(t) ==
  /\ At(t, "run") /\ core = t
  /\ fault' = IF tcpip # Nobody /\ holder # t THEN "assert" ELSE fault
  /\ UNCHANGED <<pc, protVars, core, holder, tcpip, listVars>>

-----------------------------------------------------------------------------
(* sys_thread_new.  (It aborts the process when pthread_create or malloc   *)
(* fails.)                                                                 *)

\* pthread_create: the new thread runs before it is on the list.
ThreadCreate(t, u) ==
  /\ At(t, "run") /\ depth[t] = 0 /\ At(u, "unborn")
  /\ pc' = [pc EXCEPT ![t] = "introduce", ![u] = "run"]
  /\ child' = [child EXCEPT ![t] = u]
  /\ UNCHANGED <<protVars, coreVars, threads_mutex, threads, next, listed>>

\* Mutant: the list is not locked.
IntroduceLockNone(t) ==
  /\ At(t, "introduce")
  /\ Goto(t, "introduce_next")
  /\ UNCHANGED <<protVars, coreVars, listVars>>

\* introduce_thread: pthread_mutex_lock(&threads_mutex)
IntroduceLock(t) ==
  /\ At(t, "introduce") /\ threads_mutex = Nobody
  /\ threads_mutex' = t
  /\ Goto(t, "introduce_next")
  /\ UNCHANGED <<protVars, coreVars, threads, child, next, listed>>

\* "thread->next = threads"
IntroduceNext(t) ==
  /\ At(t, "introduce_next")
  /\ next' = [next EXCEPT ![t] = threads]
  /\ Goto(t, "introduce_head")
  /\ UNCHANGED <<protVars, coreVars, threads_mutex, threads, child, listed>>

\* "threads = thread", and the mutex is unlocked.
IntroduceHead(t) ==
  /\ At(t, "introduce_head")
  /\ threads' = <<child[t]>> \o next[t]
  /\ threads_mutex' = Nobody
  /\ listed' = listed \cup {child[t]}
  /\ next' = [next EXCEPT ![t] = <<>>]
  /\ child' = [child EXCEPT ![t] = Nobody]
  /\ Goto(t, "run")
  /\ UNCHANGED <<protVars, coreVars>>

-----------------------------------------------------------------------------
Init ==
  /\ pc = [t \in Threads |-> IF t = Main THEN "run" ELSE "unborn"]
  /\ depth = [t \in Threads |-> 0]
  /\ lwprot_mutex = Nobody /\ lwprot_thread = Nobody /\ lwprot_count = 0
  /\ core = Nobody /\ holder = Nobody /\ tcpip = Nobody
  /\ threads_mutex = Nobody /\ threads = <<>>
  /\ child = [t \in Threads |-> Nobody]
  /\ next = [t \in Threads |-> <<>>]
  /\ listed = {} /\ fault = "none"

Next ==
  \E t \in Threads :
    \/ ProtectCall(t) \/ ProtectTest(t) \/ ProtectLock(t)
    \/ ProtectThread(t) \/ ProtectCount(t)
    \/ Unprotect(t) \/ UnprotectThread(t) \/ UnprotectUnlock(t)
    \/ CoreLock(t) \/ CoreSet(t) \/ CoreClear(t) \/ CoreUnlock(t)
    \/ Mark(t) \/ Check(t)
    \/ \E u \in Threads : ThreadCreate(t, u)
    \/ IntroduceLock(t) \/ IntroduceNext(t) \/ IntroduceHead(t)

Spec == Init /\ [][Next]_lvars

-----------------------------------------------------------------------------
(* Properties.                                                             *)

Labels == {"unborn", "run", "protect", "protect_lock", "protect_thread",
           "protect_count", "unprotect", "unprotect_unlock", "core_set",
           "core_unlock", "introduce", "introduce_next", "introduce_head"}

\* Types; the count of nested calls never becomes negative.
TypeOK ==
  /\ pc \in [Threads -> Labels]
  /\ depth \in [Threads -> 0 .. MaxDepth]
  /\ lwprot_mutex \in Threads \cup {Nobody}
  /\ lwprot_thread \in Threads \cup {Nobody}
  /\ lwprot_count \in 0 .. MaxDepth
  /\ core \in Threads \cup {Nobody} /\ holder \in Threads \cup {Nobody}
  /\ tcpip \in Threads \cup {Nobody}
  /\ threads_mutex \in Threads \cup {Nobody}
  /\ threads \in Seq(Threads)
  /\ child \in [Threads -> Threads \cup {Nobody}]
  /\ next \in [Threads -> Seq(Threads)]
  /\ listed \subseteq Threads /\ fault \in {"none", "assert"}

\* The test of lwprot_thread without the mutex is right: a thread finds itself
\* there only if it has the mutex, and a thread that is not protected never
\* does when it calls sys_arch_protect.
UnlockedTestIsRight ==
  \A t \in Threads :
    /\ lwprot_thread = t => lwprot_mutex = t
    /\ At(t, "protect") => (lwprot_thread = t <=> depth[t] > 0)

\* A thread that is within sys_arch_protect, at any depth, has the mutex, so
\* that no two threads are; and the count is its depth, so that the mutex goes
\* with the outermost call.  The test without the mutex deceives nobody.
ProtectIsLock ==
  /\ \A t \in Threads : depth[t] > 0 =>
       /\ lwprot_mutex = t /\ lwprot_thread = t
       /\ lwprot_count = depth[t]
  /\ UnlockedTestIsRight

\* Once lwip_tcpip_thread_id is set (before, the check passes for everyone),
\* sys_check_core_locking passes for the thread that has locked the core, and
\* for no other: its holder is written and cleared under the lock.
CheckIsExact ==
  /\ fault = "none"
  /\ \A t \in Threads : holder = t => core = t

\* Threads created at the same time are all on the list: insertion is not
\* lost.
ListIsComplete == {threads[i] : i \in DOMAIN threads} = listed
=============================================================================
