------------------------------ MODULE SysMbox ------------------------------
(***************************************************************************)
(* The mailbox of lwIP's system port (src/sys.c, the part that is built    *)
(* when lwipopts.h sets NO_SYS to 0): a ring of SYS_MBOX_SIZE slots that   *)
(* three binary semaphores protect.  Threads call sys_mbox_post,           *)
(* sys_mbox_trypost, sys_arch_mbox_fetch (with or without a timeout),      *)
(* sys_arch_mbox_tryfetch and sys_mbox_free.                               *)
(*                                                                         *)
(* sys_arch_sem_wait and sys_sem_signal are single steps here: SysSem      *)
(* shows that their pthread code implements that.  What a thread does      *)
(* between two of these calls is one step.                                 *)
(***************************************************************************)
EXTENDS Integers, Sequences

CONSTANTS
  Posters,    \* threads that post
  Fetchers,   \* threads that fetch; one of them frees the mailbox
  Nobody,     \* no thread is in sys_mbox_free
  Size,       \* SYS_MBOX_SIZE (128)
  IntMax,     \* INT_MAX, the largest value of first and last
  MaxPosts,   \* bound: posts of one poster
  MaxPolls    \* bound: fetches of one fetcher that do not wait for ever

ASSUME MboxAssumption ==
  /\ Size \in Nat /\ Size > 1
  /\ IntMax \in Nat /\ MaxPosts \in Nat /\ MaxPolls \in Nat
  /\ Posters \cap Fetchers = {} /\ Nobody \notin Posters \cup Fetchers

Threads == Posters \cup Fetchers
Messages == Posters \X (1 .. MaxPosts)

VARIABLES
  first, last,   \* the ints of struct sys_mbox
  msgs,          \* the ring; <<>> in a slot that was never written
  wait_send,     \* posters in the loop of sys_mbox_post
  not_empty, not_full, mutex,   \* the counts of the semaphores
  pc, op,        \* where a thread is, and in which function
  calls,         \* posts of a poster, polls of a fetcher so far
  freeing,       \* the thread in sys_mbox_free
  sent,          \* history: messages in the order they were put in the ring
  got,           \* history: messages in the order they were fetched
  refused,       \* history: messages sys_mbox_trypost returned ERR_MEM for
  fault          \* a slot outside the ring was addressed

ring  == <<first, last, msgs>>
sems  == <<not_empty, not_full, mutex>>
hist  == <<sent, got, refused, fault>>
svars == <<ring, wait_send, sems, pc, op, calls, freeing, hist>>

-----------------------------------------------------------------------------
(* Semaphores and ring.                                                    *)

\* sys_sem_signal: the count never exceeds one.
Signalled(c) == IF c + 1 > 1 THEN 1 ELSE c + 1

\* x++ of an int; past INT_MAX it wraps, as the compilers used here do.
Inc(n) == IF n = IntMax THEN -IntMax - 1 ELSE n + 1

\* n % SYS_MBOX_SIZE in C: the sign is that of n.
Slot(n) == IF n >= 0 THEN n % Size ELSE -((-n) % Size)

\* Mutant: the ring may be filled to the last slot.
FullAll == last >= first + Size

\* (mbox->last + 1) >= (mbox->first + SYS_MBOX_SIZE)
Full == last + 1 >= first + Size

Empty == first = last

Goto(t, l) == pc' = [pc EXCEPT ![t] = l]

\* sys_arch_sem_wait(&mbox->mutex, 0) and sys_sem_signal(&mbox->mutex)
TakeMutex == mutex > 0 /\ mutex' = mutex - 1
GiveMutex == mutex' = Signalled(mutex)

-----------------------------------------------------------------------------
(* Posting.                                                                *)

Message(t) == <<t, calls[t]>>

PostBegin(t) ==
  /\ pc[t] = "idle" /\ freeing = Nobody /\ calls[t] < MaxPosts
  /\ \E o \in {"post", "trypost"} : op' = [op EXCEPT ![t] = o]
  /\ calls' = [calls EXCEPT ![t] = @ + 1]
  /\ Goto(t, "lock")
  /\ UNCHANGED <<ring, wait_send, sems, freeing, hist>>

\* The mutex at the start of a function and after a wait.
Lock(t) ==
  /\ pc[t] = "lock"
  /\ TakeMutex
  /\ Goto(t, "locked")
  /\ UNCHANGED <<ring, wait_send, not_empty, not_full, op, calls, freeing,
                 hist>>

\* sys_mbox_post: "wait_send++" and out of the mutex.
PostFull(t) ==
  /\ pc[t] = "locked" /\ op[t] = "post" /\ Full
  /\ wait_send' = wait_send + 1
  /\ GiveMutex
  /\ Goto(t, "sleep")
  /\ UNCHANGED <<ring, not_empty, not_full, op, calls, freeing, hist>>

PostSleep(t) ==
  /\ pc[t] = "sleep" /\ not_full > 0
  /\ not_full' = not_full - 1
  /\ Goto(t, "relock")
  /\ UNCHANGED <<ring, wait_send, not_empty, mutex, op, calls, freeing, hist>>

\* The mutex again, "wait_send--", and the loop tests once more.
PostRelock(t) ==
  /\ pc[t] = "relock"
  /\ TakeMutex
  /\ wait_send' = wait_send - 1
  /\ Goto(t, "locked")
  /\ UNCHANGED <<ring, not_empty, not_full, op, calls, freeing, hist>>

\* sys_mbox_trypost of a full mailbox returns ERR_MEM.
TryPostFull(t) ==
  /\ pc[t] = "locked" /\ op[t] = "trypost" /\ Full
  /\ refused' = refused \cup {Message(t)}
  /\ GiveMutex
  /\ Goto(t, "idle")
  /\ UNCHANGED <<ring, wait_send, not_empty, not_full, op, calls, freeing,
                 sent, got, fault>>

\* Mutant: a poster that finds room signals only when nobody is before it
\* but the message it has just put.
WakesFetcherLate == first + 1 = last

\* "first" of sys_mbox_post: the mailbox was empty.
WakesFetcher == last = first

\* The message goes into its slot, last++.
Put(t) ==
  /\ pc[t] = "locked" /\ op[t] \in {"post", "trypost"} /\ ~Full
  /\ IF Slot(last) \in 0 .. Size - 1
     THEN msgs' = [msgs EXCEPT ![Slot(last)] = Message(t)] /\ UNCHANGED fault
     ELSE fault' = "index" /\ UNCHANGED msgs
  /\ last' = Inc(last)
  /\ sent' = Append(sent, Message(t))
  /\ Goto(t, IF WakesFetcher THEN "signal" ELSE "unlock")
  /\ UNCHANGED <<first, wait_send, sems, op, calls, freeing, got, refused>>

PostSignal(t) ==
  /\ pc[t] = "signal"
  /\ not_empty' = Signalled(not_empty)
  /\ Goto(t, "unlock")
  /\ UNCHANGED <<ring, wait_send, not_full, mutex, op, calls, freeing, hist>>

\* The sys_sem_signal(&mbox->mutex) a function ends with.
Unlock(t) ==
  /\ pc[t] = "unlock"
  /\ GiveMutex
  /\ Goto(t, "idle")
  /\ UNCHANGED <<ring, wait_send, not_empty, not_full, op, calls, freeing,
                 hist>>

-----------------------------------------------------------------------------
(* Fetching.                                                               *)

\* A fetch that waits for ever, one with a timeout, or a tryfetch.
FetchBegin(t) ==
  /\ pc[t] = "idle" /\ freeing = Nobody
  /\ \E o \in {"fetch", "timed", "tryfetch"} :
       /\ o = "fetch" \/ calls[t] < MaxPolls
       /\ op' = [op EXCEPT ![t] = o]
       /\ calls' = [calls EXCEPT ![t] = IF o = "fetch" THEN @ ELSE @ + 1]
  /\ Goto(t, "lock")
  /\ UNCHANGED <<ring, wait_send, sems, freeing, hist>>

\* sys_arch_mbox_fetch of an empty mailbox leaves the mutex and waits.
FetchEmpty(t) ==
  /\ pc[t] = "locked" /\ op[t] \in {"fetch", "timed"} /\ Empty
  /\ GiveMutex
  /\ Goto(t, "sleep")
  /\ UNCHANGED <<ring, wait_send, not_empty, not_full, op, calls, freeing,
                 hist>>

\* It is woken, and starts over with the mutex.
FetchSleep(t) ==
  /\ pc[t] = "sleep" /\ not_empty > 0
  /\ not_empty' = not_empty - 1
  /\ Goto(t, "lock")
  /\ UNCHANGED <<ring, wait_send, not_full, mutex, op, calls, freeing, hist>>

\* SYS_ARCH_TIMEOUT, whether or not a signal has come in the meantime.
FetchTimeout(t) ==
  /\ pc[t] = "sleep" /\ op[t] = "timed"
  /\ Goto(t, "idle")
  /\ UNCHANGED <<ring, wait_send, sems, op, calls, freeing, hist>>

\* SYS_MBOX_EMPTY
TryFetchEmpty(t) ==
  /\ pc[t] = "locked" /\ op[t] = "tryfetch" /\ Empty
  /\ GiveMutex
  /\ Goto(t, "idle")
  /\ UNCHANGED <<ring, wait_send, not_empty, not_full, op, calls, freeing,
                 hist>>

\* Mutant: room is announced only when the mailbox was full.
WakesPosterFull == wait_send > 0 /\ Full

\* "if (mbox->wait_send)"
WakesPoster == wait_send > 0

\* The message at first is taken, first++.
Take(t) ==
  /\ pc[t] = "locked" /\ op[t] \in {"fetch", "timed", "tryfetch"} /\ ~Empty
  /\ IF Slot(first) \in 0 .. Size - 1
     THEN got' = Append(got, msgs[Slot(first)]) /\ UNCHANGED fault
     ELSE fault' = "index" /\ UNCHANGED got
  /\ first' = Inc(first)
  /\ Goto(t, IF WakesPoster THEN "signal" ELSE "unlock")
  /\ UNCHANGED <<last, msgs, wait_send, sems, op, calls, freeing, sent,
                 refused>>

FetchSignal(t) ==
  /\ pc[t] = "signal"
  /\ not_full' = Signalled(not_full)
  /\ Goto(t, "unlock")
  /\ UNCHANGED <<ring, wait_send, not_empty, mutex, op, calls, freeing, hist>>

-----------------------------------------------------------------------------
(* sys_mbox_free.  The caller owes that no thread still has to take the    *)
(* mutex or to wait; one that is leaving may be there.                     *)

FreeBegin(t) ==
  /\ pc[t] = "idle" /\ freeing = Nobody
  /\ \A u \in Threads \ {t} : pc[u] \in {"idle", "signal", "unlock"}
  /\ freeing' = t
  /\ Goto(t, "free")
  /\ UNCHANGED <<ring, wait_send, sems, op, calls, hist>>

\* Mutant: the mailbox is destroyed without a wait for the mutex.
FreeWaitNone(t) ==
  /\ pc[t] = "free"
  /\ Goto(t, "freed")
  /\ UNCHANGED <<ring, wait_send, sems, op, calls, freeing, hist>>

\* "sys_arch_sem_wait(&mbox->mutex, 0)", then everything is freed.
FreeWait(t) ==
  /\ pc[t] = "free"
  /\ TakeMutex
  /\ Goto(t, "freed")
  /\ UNCHANGED <<ring, wait_send, not_empty, not_full, op, calls, freeing,
                 hist>>

-----------------------------------------------------------------------------
\* sys_mbox_new
Init ==
  /\ first = 0 /\ last = 0
  /\ msgs = [i \in 0 .. Size - 1 |-> <<>>]
  /\ not_empty = 0 /\ not_full = 0 /\ mutex = 1
  /\ wait_send = 0
  /\ pc = [t \in Threads |-> "idle"]
  /\ op = [t \in Threads |-> "none"]
  /\ calls = [t \in Threads |-> 0]
  /\ freeing = Nobody
  /\ sent = <<>> /\ got = <<>> /\ refused = {} /\ fault = "none"

\* A thread inside a function of the mailbox.
PostStep(t) ==
  \/ Lock(t) \/ PostFull(t) \/ PostSleep(t) \/ PostRelock(t)
  \/ TryPostFull(t) \/ Put(t) \/ PostSignal(t) \/ Unlock(t)

FetchStep(t) ==
  \/ Lock(t) \/ FetchEmpty(t) \/ FetchSleep(t) \/ FetchTimeout(t)
  \/ TryFetchEmpty(t) \/ Take(t) \/ FetchSignal(t) \/ Unlock(t)
  \/ FreeWait(t)

Next ==
  /\ fault = "none"
  /\ \/ \E t \in Posters : PostBegin(t) \/ PostStep(t)
     \/ \E t \in Fetchers : FetchBegin(t) \/ FetchStep(t) \/ FreeBegin(t)

Spec == Init /\ [][Next]_svars

\* The operating system runs every thread that can run, and a thread that
\* fetches does so again.
FairSpec ==
  /\ Spec
  /\ \A t \in Posters : WF_svars(fault = "none" /\ PostStep(t))
  /\ \A t \in Fetchers :
       WF_svars(fault = "none" /\ (FetchBegin(t) \/ FetchStep(t)))
-----------------------------------------------------------------------------
(* Properties.                                                             *)

Labels == {"idle", "lock", "locked", "sleep", "relock", "signal", "unlock",
           "free", "freed"}
Ops == {"none", "post", "trypost", "fetch", "timed", "tryfetch"}

\* Threads that hold mbox->mutex.
Inside(t) == pc[t] \in {"locked", "signal", "unlock", "freed"}

\* mbox->mutex is a lock although it is a semaphore anyone may signal: at most
\* one thread is between its wait and its signal, and then the count is 0.
MutexIsLock ==
  /\ \A t, u \in Threads : Inside(t) /\ Inside(u) => t = u
  /\ mutex = 0 <=> \E t \in Threads : Inside(t)

\* sys_mbox_free lets the thread that is leaving finish: when the semaphores
\* are destroyed, no other thread is in a function of the mailbox.
NobodyInFreed ==
  \A f \in Threads : pc[f] = "freed" =>
    \A t \in Threads \ {f} : pc[t] = "idle"

\* No lost wakeup for the one thread that fetches: while it sleeps on
\* not_empty and a message is there, its token is there too or the poster
\* that found the mailbox empty is about to give it.  not_empty is signalled
\* for the first message only.
FetcherIsWoken ==
  \A f \in Fetchers : pc[f] = "sleep" /\ ~Empty =>
    not_empty = 1 \/ \E t \in Posters : pc[t] = "signal"

\* No poster is forgotten although not_full holds one token for any number of
\* posters: while one sleeps and the mailbox is empty (so that no fetch will
\* signal again), a token is there or on its way, or another poster is about
\* to put a message, whose fetch will signal.
PosterIsWoken ==
  (\E p \in Posters : pc[p] = "sleep") /\ Empty =>
    \/ not_full = 1
    \/ \E f \in Fetchers : pc[f] = "signal"
    \/ \E p \in Posters : pc[p] \in {"relock", "locked"}

\* The messages in the ring, oldest first.
Contents == [i \in 1 .. last - first |-> msgs[Slot(first + i - 1)]]

MB == INSTANCE Mailbox WITH Msgs <- Messages, Capacity <- Size - 1,
                            queue <- Contents

\* The ring and its semaphores implement the bounded FIFO: messages are
\* fetched once, in the order in which they were put, none is overwritten,
\* and sys_mbox_trypost refuses one only when Size - 1 are waiting.
IsMailbox == MB!Spec

\* "The sys_mbox_post() routine will block until there is more room"
\* (sys.c:44), and not longer: every post returns.
PostReturns == \A t \in Posters : pc[t] # "idle" ~> pc[t] = "idle"

\* A message that was put is fetched, unless the mailbox is freed first.
MessageFetched ==
  \A m \in Messages :
    (\E i \in DOMAIN sent : sent[i] = m)
      ~> (freeing # Nobody \/ \E i \in DOMAIN got : got[i] = m)
=============================================================================
