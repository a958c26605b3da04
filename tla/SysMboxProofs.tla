--------------------------- MODULE SysMboxProofs ---------------------------
(***************************************************************************)
(* Proofs about SysMbox, for any threads and a ring of any size: the       *)
(* semaphore mutex is a lock, sys_mbox_free waits for the thread that is   *)
(* leaving, no wakeup is lost, and the ring is the FIFO of Mailbox.  That  *)
(* a poster is woken, and that the ring is a FIFO, is true until first and *)
(* last wrap; that the fetcher is woken, of one fetcher only.              *)
(***************************************************************************)
EXTENDS SysMbox, FiniteSetTheorems, TLAPS

\* Types of what the invariant is about.
Types ==
  /\ first \in Int /\ last \in Int
  /\ not_empty \in 0 .. 1 /\ not_full \in 0 .. 1 /\ mutex \in 0 .. 1
  /\ pc \in [Threads -> Labels]
  /\ freeing \in Threads \cup {Nobody}

\* Who may be in the mailbox while it is being freed.
Freeing ==
  /\ \A t \in Threads : pc[t] \in {"free", "freed"} => freeing = t
  /\ freeing # Nobody =>
       \A t \in Threads \ {freeing} : pc[t] \in {"idle", "signal", "unlock"}

\* The posters in the loop of sys_mbox_post, between wait_send++ and
\* wait_send--.
Looping == {p \in Posters : pc[p] \in {"sleep", "relock"}}

\* wait_send counts them.
WaitSend == wait_send = Cardinality(Looping)

\* first and last have not wrapped: fewer than INT_MAX messages were posted.
NoWrap == last < IntMax

\* The inductive invariants: of the mutex, and of the posters.
MInv == Types /\ MutexIsLock /\ Freeing
PInv == Types /\ first <= last /\ WaitSend /\ PosterIsWoken

USE DEF Goto, ring, sems, hist

-----------------------------------------------------------------------------
\* Every action moves one thread, from where to where.
Moves(t, from, to) ==
  /\ pc[t] \in from /\ pc' = [pc EXCEPT ![t] = to]

\* The mutex and the thread that frees, by kind of step: one that takes the
\* mutex, one of the thread that has it, one that gives it back, and one of a
\* thread without it.
Enters(t) ==
  /\ mutex = 1 /\ mutex' = 0 /\ UNCHANGED freeing
  /\ \/ Moves(t, {"lock", "relock"}, "locked")
     \/ Moves(t, {"free"}, "freed")
Stays(t) ==
  /\ UNCHANGED <<mutex, freeing>>
  /\ \/ Moves(t, {"locked"}, "signal")
     \/ Moves(t, {"locked", "signal"}, "unlock")
Leaves(t) ==
  /\ mutex' = Signalled(mutex) /\ UNCHANGED freeing
  /\ \/ Moves(t, {"locked"}, "sleep")
     \/ Moves(t, {"locked", "unlock"}, "idle")
Outside(t) ==
  /\ UNCHANGED mutex
  /\ \/ /\ UNCHANGED freeing
        /\ \/ Moves(t, {"idle"}, "lock") /\ freeing = Nobody
           \/ Moves(t, {"sleep"}, "relock")
           \/ Moves(t, {"sleep"}, "lock")
           \/ Moves(t, {"sleep"}, "idle")
     \/ /\ Moves(t, {"idle"}, "free") /\ freeing = Nobody /\ freeing' = t
        /\ \A u \in Threads \ {t} : pc[u] \in {"idle", "signal", "unlock"}

\* The steps of a poster, sorted.
LEMMA PostKinds ==
  ASSUME Types, NEW t \in Posters, PostBegin(t) \/ PostStep(t)
  PROVE  Enters(t) \/ Stays(t) \/ Leaves(t) \/ Outside(t)
<1>1. CASE Lock(t) \/ PostRelock(t)
  BY <1>1 DEF Lock, PostRelock, TakeMutex, Enters, Moves, Types
<1>2. CASE Put(t) \/ PostSignal(t)
  BY <1>2 DEF Put, PostSignal, Stays, Moves
<1>3. CASE PostFull(t) \/ TryPostFull(t) \/ Unlock(t)
  BY <1>3 DEF PostFull, TryPostFull, Unlock, GiveMutex, Leaves, Moves
<1>4. CASE PostBegin(t) \/ PostSleep(t)
  BY <1>4 DEF PostBegin, PostSleep, Outside, Moves
<1> QED BY <1>1, <1>2, <1>3, <1>4 DEF PostStep

\* The steps of a fetcher, sorted.
LEMMA FetchKinds ==
  ASSUME Types, NEW t \in Fetchers,
         FetchBegin(t) \/ FetchStep(t) \/ FreeBegin(t)
  PROVE  Enters(t) \/ Stays(t) \/ Leaves(t) \/ Outside(t)
<1>1. CASE Lock(t) \/ FreeWait(t)
  BY <1>1 DEF Lock, FreeWait, TakeMutex, Enters, Moves, Types
<1>2. CASE Take(t) \/ FetchSignal(t)
  BY <1>2 DEF Take, FetchSignal, Stays, Moves
<1>3. CASE FetchEmpty(t) \/ TryFetchEmpty(t) \/ Unlock(t)
  BY <1>3 DEF FetchEmpty, TryFetchEmpty, Unlock, GiveMutex, Leaves, Moves
<1>4. CASE FetchBegin(t) \/ FetchSleep(t) \/ FetchTimeout(t) \/ FreeBegin(t)
  BY <1>4 DEF FetchBegin, FetchSleep, FetchTimeout, FreeBegin, Outside, Moves
<1> QED BY <1>1, <1>2, <1>3, <1>4 DEF FetchStep

\* Inc of an int is another int.
LEMMA IncFacts == \A n \in Int : Inc(n) \in Int /\ Inc(n) # n
BY MboxAssumption DEF Inc

\* Types is kept.
LEMMA NextTypes ==
  ASSUME Types, [Next]_svars
  PROVE  Types'
<1>1. CASE UNCHANGED svars
  BY <1>1 DEF svars, Types
<1>2. ASSUME NEW t \in Posters, PostBegin(t) \/ PostStep(t)
      PROVE  Types'
  <2>1. CASE Put(t)
    <3>1. first' = first /\ last' \in Int
      BY <2>1, IncFacts DEF Put, Types
    <3>2. pc' \in [Threads -> Labels]
      BY <2>1 DEF Put, Types, Labels, Threads
    <3> QED BY <2>1, <3>1, <3>2 DEF Put, Types
  <2>2. CASE PostBegin(t) \/ (PostStep(t) /\ ~Put(t))
    BY <2>2, MboxAssumption
       DEF PostBegin, PostStep, Lock, PostFull, PostSleep, PostRelock,
           TryPostFull, PostSignal, Unlock, TakeMutex, GiveMutex,
           Signalled, Types, Labels, Threads
  <2> QED BY <1>2, <2>1, <2>2
<1>3. ASSUME NEW t \in Fetchers, FetchBegin(t) \/ FetchStep(t) \/ FreeBegin(t)
      PROVE  Types'
  BY <1>3, IncFacts, MboxAssumption
     DEF FetchBegin, FetchStep, FreeBegin, Lock, FetchEmpty, FetchSleep,
         FetchTimeout, TryFetchEmpty, Take, FetchSignal, Unlock, FreeWait,
         TakeMutex, GiveMutex, Signalled, Types, Labels, Threads
<1> QED BY <1>1, <1>2, <1>3 DEF Next

-----------------------------------------------------------------------------
(* The mutex and sys_mbox_free.                                            *)

\* Each kind of step keeps MutexIsLock and Freeing.
LEMMA KindsMInv ==
  ASSUME MInv, NEW t \in Threads,
         Enters(t) \/ Stays(t) \/ Leaves(t) \/ Outside(t)
  PROVE  MutexIsLock' /\ Freeing'
<1> USE DEF MInv
<1>1. /\ \A u \in Threads : u # t => pc'[u] = pc[u]
      /\ pc \in [Threads -> Labels] /\ mutex \in 0 .. 1
      /\ Nobody \notin Threads
  BY MboxAssumption DEF Enters, Stays, Leaves, Outside, Moves, Types, Threads
<1>2. CASE Enters(t)
  <2>1. /\ mutex = 1 /\ mutex' = 0 /\ freeing' = freeing
        /\ \A u \in Threads : ~Inside(u)
    BY <1>2 DEF Enters, MutexIsLock
  <2>2. /\ pc'[t] \in {"locked", "freed"}
        /\ pc[t] \in {"lock", "relock", "free"}
        /\ pc'[t] = "freed" => pc[t] = "free"
    BY <1>1, <1>2 DEF Enters, Moves
  <2>3. MutexIsLock'
    BY <1>1, <2>1, <2>2 DEF MutexIsLock, Inside
  <2>4. Freeing'
    BY <1>1, <2>1, <2>2 DEF Freeing
  <2> QED BY <2>3, <2>4
<1>3. CASE Stays(t)
  <2>1. /\ mutex' = mutex /\ freeing' = freeing
        /\ pc[t] \in {"locked", "signal"} /\ pc'[t] \in {"signal", "unlock"}
    BY <1>1, <1>3 DEF Stays, Moves
  <2>2. MutexIsLock'
    BY <1>1, <2>1 DEF MutexIsLock, Inside
  <2>3. Freeing'
    BY <1>1, <2>1 DEF Freeing
  <2> QED BY <2>2, <2>3
<1>4. CASE Leaves(t)
  <2>1. /\ freeing' = freeing
        /\ pc[t] \in {"locked", "unlock"} /\ pc'[t] \in {"sleep", "idle"}
        /\ pc'[t] = "sleep" => pc[t] = "locked"
    BY <1>1, <1>4 DEF Leaves, Moves
  <2>2. mutex = 0 /\ mutex' = 1
    BY <1>1, <1>4, <2>1 DEF Leaves, Signalled, MutexIsLock, Inside
  <2>3. MutexIsLock'
    BY <1>1, <2>1, <2>2 DEF MutexIsLock, Inside
  <2>4. Freeing'
    BY <1>1, <2>1 DEF Freeing
  <2> QED BY <2>3, <2>4
<1>5. CASE Outside(t)
  <2>1. /\ mutex' = mutex /\ pc[t] \in {"idle", "sleep"}
        /\ pc'[t] \in {"lock", "relock", "idle", "free"}
    BY <1>1, <1>5 DEF Outside, Moves
  <2>2. MutexIsLock'
    BY <1>1, <2>1 DEF MutexIsLock, Inside
  <2>3. CASE freeing' = freeing /\ pc'[t] # "free"
    <3>1. freeing # Nobody /\ pc[t] = "idle" => pc'[t] = "idle"
      BY <1>1, <1>5, <2>3 DEF Outside, Moves
    <3>2. Freeing'
      BY <1>1, <2>1, <2>3, <3>1 DEF Freeing
    <3> QED BY <2>2, <3>2
  <2>4. CASE ~(freeing' = freeing /\ pc'[t] # "free")
    <3>1. /\ freeing = Nobody /\ freeing' = t /\ pc'[t] = "free"
          /\ \A u \in Threads \ {t} : pc[u] \in {"idle", "signal", "unlock"}
      BY <1>1, <1>5, <2>4 DEF Outside, Moves
    <3>2. Freeing'
      BY <1>1, <3>1 DEF Freeing
    <3> QED BY <2>2, <3>2
  <2> QED BY <2>3, <2>4
<1> QED BY <1>2, <1>3, <1>4, <1>5

\* Every step keeps MInv.
LEMMA NextMInv == MInv /\ [Next]_svars => MInv'
<1> SUFFICES ASSUME MInv, [Next]_svars PROVE MInv'
  OBVIOUS
<1>1. Types'
  BY NextTypes DEF MInv
<1>2. CASE UNCHANGED svars
  BY <1>1, <1>2 DEF svars, MInv, MutexIsLock, Inside, Freeing
<1>3. ASSUME NEW t \in Posters, PostBegin(t) \/ PostStep(t) PROVE MInv'
  <2>1. t \in Threads
    BY DEF Threads
  <2> QED BY <1>1, <1>3, <2>1, PostKinds, KindsMInv DEF MInv
<1>4. ASSUME NEW t \in Fetchers, FetchBegin(t) \/ FetchStep(t) \/ FreeBegin(t)
      PROVE  MInv'
  <2>1. t \in Threads
    BY DEF Threads
  <2> QED BY <1>1, <1>4, <2>1, FetchKinds, KindsMInv DEF MInv
<1> QED BY <1>2, <1>3, <1>4 DEF Next

\* A new mailbox.
LEMMA InitMInv == Init => MInv
<1> SUFFICES ASSUME Init PROVE MInv
  OBVIOUS
<1>1. Types
  BY DEF Init, Types, Labels
<1>2. MutexIsLock
  BY DEF Init, MutexIsLock, Inside
<1>3. Freeing
  BY DEF Init, Freeing
<1> QED BY <1>1, <1>2, <1>3 DEF MInv

\* At most one thread is between the wait for mbox->mutex and its signal.
THEOREM MutexAlwaysLock == Spec => []MutexIsLock
<1>1. MInv => MutexIsLock
  BY DEF MInv
<1> QED BY <1>1, InitMInv, NextMInv, PTL DEF Spec

\* sys_mbox_free destroys the semaphores only when the thread that was leaving
\* the mailbox has left.
THEOREM FreeWaitsForLeaver == Spec => []NobodyInFreed
<1>1. MInv => NobodyInFreed
  <2> SUFFICES ASSUME MInv, NEW f \in Threads, pc[f] = "freed",
                      NEW t \in Threads \ {f}
               PROVE  pc[t] = "idle"
    BY DEF NobodyInFreed
  <2>1. freeing = f /\ Nobody \notin Threads
    BY MboxAssumption DEF MInv, Freeing, Threads
  <2>2. pc[t] \in {"idle", "signal", "unlock"}
    BY <2>1 DEF MInv, Freeing
  <2>3. ~Inside(t)
    BY DEF MInv, MutexIsLock, Inside
  <2> QED BY <2>2, <2>3 DEF Inside
<1> QED BY <1>1, InitMInv, NextMInv, PTL DEF Spec

-----------------------------------------------------------------------------
(* Wakeups.                                                                *)

\* The fetcher: the message that finds the mailbox empty is announced.
LEMMA NextFetcher ==
  ASSUME \A f, g \in Fetchers : f = g, Types, FetcherIsWoken, [Next]_svars
  PROVE  FetcherIsWoken'
<1>1. /\ pc \in [Threads -> Labels]
      /\ \A p \in Posters, f \in Fetchers : p # f
      /\ Posters \subseteq Threads /\ Fetchers \subseteq Threads
  BY MboxAssumption DEF Types, Threads
<1>2. CASE UNCHANGED svars
  BY <1>2 DEF svars, FetcherIsWoken, Empty
<1>3. ASSUME NEW t \in Posters, PostBegin(t) \/ PostStep(t)
      PROVE  FetcherIsWoken'
  <2>1. \A u \in Threads : u # t => pc'[u] = pc[u]
    BY <1>1, <1>3 DEF PostBegin, PostStep, Lock, PostFull, PostSleep,
                      PostRelock, TryPostFull, Put, PostSignal, Unlock
  <2>2. CASE PostSignal(t)
    <3>1. not_empty' = 1
      BY <2>2 DEF PostSignal, Signalled, Types
    <3> QED BY <3>1 DEF FetcherIsWoken
  <2>3. CASE Put(t) /\ Empty
    <3>1. pc'[t] = "signal"
      BY <1>1, <2>3 DEF Put, WakesFetcher, Empty
    <3> QED BY <3>1 DEF FetcherIsWoken
  <2>4. CASE ~PostSignal(t) /\ ~(Put(t) /\ Empty)
    <3>1. not_empty' = not_empty /\ (~Empty' => ~Empty) /\ pc[t] # "signal"
      BY <1>3, <2>4 DEF PostBegin, PostStep, Lock, PostFull, PostSleep,
           PostRelock, TryPostFull, Put, PostSignal, Unlock, Empty
    <3> QED BY <1>1, <2>1, <3>1 DEF FetcherIsWoken
  <2> QED BY <2>2, <2>3, <2>4
<1>4. ASSUME NEW t \in Fetchers, FetchBegin(t) \/ FetchStep(t) \/ FreeBegin(t)
      PROVE  FetcherIsWoken'
  <2>1. CASE pc'[t] # "sleep"
    <3>1. \A f \in Fetchers : f = t
      OBVIOUS
    <3> QED BY <2>1, <3>1 DEF FetcherIsWoken
  <2>2. CASE pc'[t] = "sleep"
    <3>1. FetchEmpty(t)
      BY <1>1, <1>4, <2>2
         DEF FetchBegin, FetchStep, FreeBegin, Lock, FetchEmpty, FetchSleep,
             FetchTimeout, TryFetchEmpty, Take, FetchSignal, Unlock, FreeWait
    <3>2. Empty'
      BY <3>1 DEF FetchEmpty, Empty
    <3> QED BY <3>2 DEF FetcherIsWoken
  <2> QED BY <2>1, <2>2
<1> QED BY <1>2, <1>3, <1>4 DEF Next

\* With one fetcher, the usual case in lwIP, no message is left in the mailbox
\* while the fetcher sleeps without a token, although not_empty is signalled
\* only for the message that finds the mailbox empty.
THEOREM FetcherAlwaysWoken ==
  ASSUME \A f, g \in Fetchers : f = g
  PROVE  Spec => []FetcherIsWoken
<1>1. Init => Types /\ FetcherIsWoken
  BY InitMInv DEF MInv, Init, FetcherIsWoken, Empty
<1>2. (Types /\ FetcherIsWoken) /\ [Next]_svars => (Types /\ FetcherIsWoken)'
  BY NextTypes, NextFetcher
<1> QED BY <1>1, <1>2, PTL DEF Spec

\* A poster alone in its step: wait_send follows the loop of sys_mbox_post.
LEMMA PostWaitSend ==
  ASSUME IsFiniteSet(Posters), Types, WaitSend,
         NEW t \in Posters, PostBegin(t) \/ PostStep(t)
  PROVE  WaitSend'
<1>1. /\ pc \in [Threads -> Labels] /\ t \in Threads
      /\ Posters \subseteq Threads
  BY DEF Types, Threads
<1>2. IsFiniteSet(Looping)
  BY FS_Subset DEF Looping
<1>3. CASE PostFull(t)
  <2>1. Looping' = Looping \cup {t} /\ t \notin Looping
    BY <1>1, <1>3 DEF PostFull, Looping
  <2>2. Cardinality(Looping') = Cardinality(Looping) + 1
    BY <1>2, <2>1, FS_AddElement
  <2> QED BY <1>3, <2>2 DEF PostFull, WaitSend
<1>4. CASE PostRelock(t)
  <2>1. Looping' = Looping \ {t} /\ t \in Looping
    BY <1>1, <1>4 DEF PostRelock, Looping
  <2>2. Cardinality(Looping') = Cardinality(Looping) - 1
    BY <1>2, <2>1, FS_RemoveElement
  <2> QED BY <1>4, <2>2 DEF PostRelock, WaitSend
<1>5. CASE ~PostFull(t) /\ ~PostRelock(t)
  <2>1. wait_send' = wait_send
    BY <1>5 DEF PostBegin, PostStep, Lock, PostSleep, TryPostFull, Put,
                PostSignal, Unlock
  <2>2. Looping' = Looping
    BY <1>1, <1>5 DEF PostBegin, PostStep, Lock, PostSleep, TryPostFull, Put,
                      PostSignal, Unlock, Looping
  <2> QED BY <2>1, <2>2 DEF WaitSend
<1> QED BY <1>3, <1>4, <1>5

\* The steps of a poster keep PosterIsWoken: one that was woken puts a message
\* before it leaves, so that the mailbox is not empty.
LEMMA PostPoster ==
  ASSUME PInv, NoWrap, NEW t \in Posters, PostBegin(t) \/ PostStep(t)
  PROVE  first' <= last' /\ PosterIsWoken'
<1>1. /\ pc \in [Threads -> Labels] /\ t \in Threads
      /\ first \in Int /\ last \in Int /\ not_full \in 0 .. 1
      /\ first <= last
      /\ \A p \in Posters, f \in Fetchers : p # f
      /\ Posters \subseteq Threads /\ Fetchers \subseteq Threads
  BY MboxAssumption DEF PInv, Types, Threads
<1>2. \A u \in Threads : u # t => pc'[u] = pc[u]
  BY <1>1 DEF PostBegin, PostStep, Lock, PostFull, PostSleep, PostRelock,
              TryPostFull, Put, PostSignal, Unlock
<1>3. CASE Put(t)
  <2>1. first' = first /\ last' = last + 1
    BY <1>1, <1>3, MboxAssumption DEF Put, Inc, NoWrap
  <2> QED BY <1>1, <2>1 DEF PosterIsWoken, Empty
<1>4. CASE PostSleep(t) \/ PostRelock(t) \/ Lock(t)
  <2>1. first' = first /\ last' = last /\ pc'[t] \in {"relock", "locked"}
    BY <1>1, <1>4 DEF PostSleep, PostRelock, Lock
  <2> QED BY <1>1, <2>1 DEF PosterIsWoken
<1>5. CASE PostFull(t) \/ TryPostFull(t)
  <2>1. first' = first /\ last' = last /\ Full
    BY <1>5 DEF PostFull, TryPostFull
  <2>2. ~Empty'
    BY <1>1, <2>1, MboxAssumption DEF Full, Empty
  <2> QED BY <1>1, <2>1, <2>2 DEF PosterIsWoken
<1>6. CASE PostBegin(t) \/ PostSignal(t) \/ Unlock(t)
  <2>1. /\ first' = first /\ last' = last /\ not_full' = not_full
        /\ pc[t] \in {"idle", "signal", "unlock"}
        /\ pc'[t] \in {"lock", "unlock", "idle"}
    BY <1>1, <1>6 DEF PostBegin, PostSignal, Unlock
  <2> QED BY <1>1, <1>2, <2>1 DEF PInv, PosterIsWoken, Empty
<1> QED BY <1>3, <1>4, <1>5, <1>6 DEF PostStep

\* The steps of a fetcher keep it too: a fetch that empties the mailbox while
\* a poster sleeps finds wait_send above 0.
LEMMA FetchPoster ==
  ASSUME IsFiniteSet(Posters), PInv, NoWrap, NEW t \in Fetchers,
         FetchBegin(t) \/ FetchStep(t) \/ FreeBegin(t)
  PROVE  first' <= last' /\ WaitSend' /\ PosterIsWoken'
<1>1. /\ pc \in [Threads -> Labels] /\ t \in Threads
      /\ first \in Int /\ last \in Int /\ not_full \in 0 .. 1
      /\ first <= last
      /\ \A p \in Posters, f \in Fetchers : p # f
      /\ Posters \subseteq Threads /\ Fetchers \subseteq Threads
  BY MboxAssumption DEF PInv, Types, Threads
<1>2. /\ \A u \in Threads : u # t => pc'[u] = pc[u]
      /\ wait_send' = wait_send
  BY <1>1 DEF FetchBegin, FetchStep, FreeBegin, Lock, FetchEmpty, FetchSleep,
              FetchTimeout, TryFetchEmpty, Take, FetchSignal, Unlock, FreeWait
<1>3. Looping' = Looping
  BY <1>1, <1>2 DEF Looping
<1>4. WaitSend'
  BY <1>2, <1>3 DEF PInv, WaitSend
<1>5. CASE Take(t)
  <2>1. first' = first + 1 /\ last' = last
    BY <1>1, <1>5, MboxAssumption DEF Take, Inc, NoWrap
  <2>2. first' <= last'
    BY <1>1, <1>5, <2>1 DEF Take, Empty
  <2>3. ASSUME NEW p \in Posters, pc'[p] = "sleep"
        PROVE  pc'[t] = "signal"
    <3>1. IsFiniteSet(Looping) /\ p \in Looping
      BY <1>1, <1>2, <2>3, FS_Subset DEF Looping
    <3>2. Cardinality(Looping) \in Nat /\ Cardinality(Looping) # 0
      BY <3>1, FS_CardinalityType, FS_EmptySet
    <3>3. wait_send > 0
      BY <3>2 DEF PInv, WaitSend
    <3> QED BY <1>1, <1>5, <3>3 DEF Take, WakesPoster
  <2> QED BY <1>4, <2>2, <2>3 DEF PosterIsWoken
<1>6. CASE FetchSignal(t)
  <2>1. first' = first /\ last' = last /\ not_full' = 1
    BY <1>1, <1>6 DEF FetchSignal, Signalled
  <2> QED BY <1>1, <1>4, <2>1 DEF PosterIsWoken
<1>7. CASE ~Take(t) /\ ~FetchSignal(t)
  <2>1. /\ first' = first /\ last' = last /\ not_full' = not_full
        /\ pc[t] # "signal"
    BY <1>1, <1>7 DEF FetchBegin, FetchStep, FreeBegin, Lock, FetchEmpty,
         FetchSleep, FetchTimeout, TryFetchEmpty, FetchSignal, Unlock, FreeWait
  <2> QED BY <1>1, <1>2, <1>4, <2>1 DEF PInv, PosterIsWoken, Empty
<1> QED BY <1>5, <1>6, <1>7

\* No poster is forgotten, whatever the number of posters and of fetchers:
\* one token of not_full is enough because the poster it wakes puts a message,
\* and the fetch of that message signals again as long as wait_send says that
\* a poster sleeps.
THEOREM PosterAlwaysWoken ==
  ASSUME IsFiniteSet(Posters)
  PROVE  Spec /\ []NoWrap => []PosterIsWoken
<1>1. Init => PInv
  <2> SUFFICES ASSUME Init PROVE PInv
    OBVIOUS
  <2>1. Types
    BY InitMInv DEF MInv
  <2>2. Looping = {}
    BY DEF Init, Looping, Threads
  <2>3. WaitSend
    BY <2>2, FS_EmptySet DEF Init, WaitSend
  <2>4. PosterIsWoken /\ first <= last
    BY DEF Init, PosterIsWoken, Threads
  <2> QED BY <2>1, <2>3, <2>4 DEF PInv
<1>2. PInv /\ NoWrap /\ [Next]_svars => PInv'
  <2> SUFFICES ASSUME PInv, NoWrap, [Next]_svars PROVE PInv'
    OBVIOUS
  <2>1. Types'
    BY NextTypes DEF PInv
  <2>2. CASE UNCHANGED svars
    <3>1. Looping' = Looping
      BY <2>2 DEF svars, Looping
    <3> QED BY <2>1, <2>2, <3>1 DEF svars, PInv, WaitSend, PosterIsWoken, Empty
  <2>3. ASSUME NEW t \in Posters, PostBegin(t) \/ PostStep(t)
        PROVE  PInv'
    BY <2>1, <2>3, PostWaitSend, PostPoster DEF PInv
  <2>4. ASSUME NEW t \in Fetchers,
               FetchBegin(t) \/ FetchStep(t) \/ FreeBegin(t)
        PROVE  PInv'
    BY <2>1, <2>4, FetchPoster DEF PInv
  <2> QED BY <2>2, <2>3, <2>4 DEF Next
<1>3. PInv => PosterIsWoken
  BY DEF PInv
<1> QED BY <1>1, <1>2, <1>3, PTL DEF Spec

-----------------------------------------------------------------------------
(* The ring is the bounded FIFO.                                           *)

\* What a slot may hold.
Cells == Messages \cup {<<>>}

\* The ring holds at most Size - 1 messages, and a poster in a function has a
\* message of its own.
RInv ==
  /\ Types
  /\ first \in Nat /\ last \in Nat
  /\ first <= last /\ last <= first + Size - 1
  /\ msgs \in [0 .. Size - 1 -> Cells]
  /\ calls \in [Threads -> Nat]
  /\ \A t \in Posters :
       /\ calls[t] <= MaxPosts
       /\ pc[t] # "idle" => calls[t] > 0

\* The messages in a ring m between a and b.
Between(m, a, b) == [i \in 1 .. b - a |-> m[Slot(a + i - 1)]]

\* A slot is in the ring, and less than a ring apart are different slots.
LEMMA SlotFacts ==
  ASSUME NEW a \in Nat
  PROVE  /\ Slot(a) = a % Size /\ Slot(a) \in 0 .. Size - 1
         /\ \A b \in Nat : a < b /\ b - a < Size => Slot(a) # Slot(b)
<1>0. Size \in Nat \ {0}
  BY MboxAssumption
<1>1. \A x \in Nat : Slot(x) = x % Size
  BY DEF Slot
<1>2. \A x \in Nat : /\ x % Size \in 0 .. Size - 1 /\ x \div Size \in Nat
                     /\ x = Size * (x \div Size) + (x % Size)
  BY <1>0
<1>3. ASSUME NEW b \in Nat, a < b, b - a < Size, a % Size = b % Size
      PROVE  FALSE
  <2> DEFINE p == a \div Size
             q == b \div Size
             r == a % Size
  <2>1. /\ p \in Nat /\ q \in Nat /\ r \in Nat
        /\ a = Size * p + r /\ b = Size * q + r
    BY <1>2, <1>3
  <2> HIDE DEF p, q, r
  <2>2. p < q
    <3> SUFFICES ASSUME q <= p PROVE FALSE
      BY <2>1
    <3>1. Size * q <= Size * p
      BY <1>0, <2>1
    <3>2. Size * q \in Nat /\ Size * p \in Nat
      BY <1>0, <2>1
    <3> QED BY <1>3, <2>1, <3>1, <3>2
  <2>3. Size * p + Size <= Size * q
    BY <1>0, <2>1, <2>2
  <2>4. Size * q \in Nat /\ Size * p \in Nat
    BY <1>0, <2>1
  <2> QED BY <1>0, <1>3, <2>1, <2>3, <2>4
<1> QED BY <1>1, <1>2, <1>3

\* What is between is a sequence.
LEMMA BetweenFacts ==
  ASSUME NEW m \in [0 .. Size - 1 -> Cells], NEW a \in Nat, NEW b \in Nat,
         a <= b
  PROVE  /\ Between(m, a, b) \in Seq(Cells) /\ Len(Between(m, a, b)) = b - a
         /\ \A i \in 1 .. b - a : Between(m, a, b)[i] = m[Slot(a + i - 1)]
<1>1. b - a \in Nat
  OBVIOUS
<1>2. ASSUME NEW i \in 1 .. b - a PROVE m[Slot(a + i - 1)] \in Cells
  <2>1. a + i - 1 \in Nat
    OBVIOUS
  <2>2. Slot(a + i - 1) \in 0 .. Size - 1
    BY <2>1, SlotFacts
  <2> QED BY <2>2
<1> QED BY <1>1, <1>2 DEF Between

\* Putting a message in the next slot of a ring with room appends it.
LEMMA PutBetween ==
  ASSUME NEW m \in [0 .. Size - 1 -> Cells], NEW a \in Nat, NEW b \in Nat,
         a <= b, b - a < Size, NEW x \in Cells
  PROVE  Between([m EXCEPT ![Slot(b)] = x], a, b + 1)
           = Append(Between(m, a, b), x)
<1> DEFINE k == [m EXCEPT ![Slot(b)] = x]
           s == Between(m, a, b)
           z == Between(k, a, b + 1)
<1>0. Slot(b) \in 0 .. Size - 1 /\ b + 1 \in Nat /\ a <= b + 1
  BY SlotFacts
<1>1. k \in [0 .. Size - 1 -> Cells] /\ k[Slot(b)] = x
  BY <1>0
<1>2. ASSUME NEW i \in 1 .. b - a
      PROVE  k[Slot(a + i - 1)] = m[Slot(a + i - 1)]
  <2>1. a + i - 1 \in Nat /\ a + i - 1 < b /\ b - (a + i - 1) < Size
    BY MboxAssumption
  <2>2. Slot(a + i - 1) # Slot(b) /\ Slot(a + i - 1) \in 0 .. Size - 1
    BY <2>1, SlotFacts
  <2> QED BY <2>2
<1>3. /\ s \in Seq(Cells) /\ Len(s) = b - a
      /\ \A i \in 1 .. b - a : s[i] = m[Slot(a + i - 1)]
  BY BetweenFacts
<1> HIDE DEF k
<1>4. /\ z \in Seq(Cells) /\ Len(z) = (b + 1) - a
      /\ \A i \in 1 .. (b + 1) - a : z[i] = k[Slot(a + i - 1)]
  BY <1>0, <1>1, BetweenFacts, Zenon
<1> HIDE DEF s, z
<1>5. z[(b + 1) - a] = x
  <2>1. (b + 1) - a \in 1 .. (b + 1) - a /\ a + ((b + 1) - a) - 1 = b
    OBVIOUS
  <2> QED BY <1>1, <1>4, <2>1
<1>6. \A i \in 1 .. b - a : z[i] = s[i]
  <2> SUFFICES ASSUME NEW i \in 1 .. b - a PROVE z[i] = s[i]
    OBVIOUS
  <2>1. i \in 1 .. (b + 1) - a
    OBVIOUS
  <2> QED BY <1>2, <1>3, <1>4, <2>1
<1>7. z = Append(s, x)
  <2>1. Append(s, x) \in Seq(Cells) /\ Len(Append(s, x)) = (b + 1) - a
    BY <1>3
  <2>2. ASSUME NEW i \in 1 .. (b + 1) - a PROVE z[i] = Append(s, x)[i]
    <3>1. CASE i = (b + 1) - a
      BY <1>3, <1>5, <3>1
    <3>2. CASE i \in 1 .. b - a
      BY <1>3, <1>6, <3>2
    <3>3. i = (b + 1) - a \/ i \in 1 .. b - a
      OBVIOUS
    <3> QED BY <3>1, <3>2, <3>3
  <2> QED BY <1>4, <2>1, <2>2
<1> QED BY <1>7 DEF s, z, k

\* Taking the message at first leaves the rest.
LEMMA TakeBetween ==
  ASSUME NEW m \in [0 .. Size - 1 -> Cells], NEW a \in Nat, NEW b \in Nat,
         a < b
  PROVE  /\ Between(m, a, b) # <<>>
         /\ Head(Between(m, a, b)) = m[Slot(a)]
         /\ Between(m, a + 1, b) = Tail(Between(m, a, b))
<1> DEFINE s == Between(m, a, b)
           z == Between(m, a + 1, b)
<1>0. a <= b /\ a + 1 \in Nat /\ a + 1 <= b
  OBVIOUS
<1>1. /\ s \in Seq(Cells) /\ Len(s) = b - a
      /\ \A i \in 1 .. b - a : s[i] = m[Slot(a + i - 1)]
  BY <1>0, BetweenFacts, Zenon
<1>2. /\ z \in Seq(Cells) /\ Len(z) = b - (a + 1)
      /\ \A i \in 1 .. b - (a + 1) : z[i] = m[Slot((a + 1) + i - 1)]
  BY <1>0, BetweenFacts, Zenon
<1> HIDE DEF s, z
<1>3. s # <<>> /\ Head(s) = s[1] /\ 1 \in 1 .. b - a
  BY <1>1
<1>4. s[1] = m[Slot(a)]
  <2>1. a + 1 - 1 = a
    OBVIOUS
  <2> QED BY <1>1, <1>3, <2>1
<1>5. /\ Tail(s) \in Seq(Cells) /\ Len(Tail(s)) = b - (a + 1)
      /\ \A i \in 1 .. b - (a + 1) : Tail(s)[i] = s[i + 1]
  BY <1>1, <1>3
<1>6. ASSUME NEW i \in 1 .. b - (a + 1) PROVE z[i] = Tail(s)[i]
  <2>1. i + 1 \in 1 .. b - a /\ (a + 1) + i - 1 = a + (i + 1) - 1
    OBVIOUS
  <2> QED BY <1>1, <1>2, <1>5, <2>1
<1>7. z = Tail(s)
  BY <1>2, <1>5, <1>6
<1> QED BY <1>3, <1>4, <1>7 DEF s, z

\* What MB sees of the ring.
LEMMA ContentsBetween ==
  /\ Contents = Between(msgs, first, last)
  /\ Contents' = Between(msgs', first', last')
BY DEF Contents, Between

\* A new mailbox is empty.
LEMMA InitRing == Init => RInv /\ MB!Init
<1> SUFFICES ASSUME Init PROVE RInv /\ MB!Init
  OBVIOUS
<1>1. /\ Types /\ first = 0 /\ last = 0 /\ Size \in Nat /\ Size > 1
      /\ MaxPosts \in Nat
  BY InitMInv, MboxAssumption DEF MInv, Init
<1>2. /\ msgs \in [0 .. Size - 1 -> Cells] /\ calls \in [Threads -> Nat]
      /\ \A t \in Posters : calls[t] = 0 /\ pc[t] = "idle"
  BY DEF Init, Cells, Threads
<1>3. RInv
  BY <1>1, <1>2 DEF RInv
<1>4. Contents = <<>>
  <2>1. /\ Between(msgs, 0, 0) \in Seq(Cells)
        /\ Len(Between(msgs, 0, 0)) = 0 - 0
    BY <1>2, BetweenFacts
  <2> QED BY <1>1, <2>1, ContentsBetween
<1> QED BY <1>3, <1>4 DEF Init, MB!Init

\* Steps that leave the ring alone.
LEMMA RingStays ==
  ASSUME RInv, Types', UNCHANGED <<first, last, msgs, got, refused, calls>>,
         \A t \in Posters : pc[t] = "idle" => pc'[t] = "idle"
  PROVE  RInv' /\ UNCHANGED MB!mvars
<1>1. Contents' = Contents
  BY DEF Contents
<1>2. RInv'
  BY DEF RInv
<1> QED BY <1>1, <1>2 DEF MB!mvars

\* The message of a poster that is in a function.
LEMMA MessageFacts ==
  ASSUME RInv, NEW t \in Posters, pc[t] # "idle"
  PROVE  Message(t) \in Messages /\ Message(t) \in Cells
<1>1. calls[t] \in 1 .. MaxPosts
  BY MboxAssumption DEF RInv, Threads
<1> QED BY <1>1 DEF Message, Messages, Cells

\* sys_mbox_post and sys_mbox_trypost.
LEMMA PostRing ==
  ASSUME RInv, Types', NoWrap, NEW t \in Posters, PostBegin(t) \/ PostStep(t)
  PROVE  RInv' /\ [MB!Next]_(MB!mvars)
<1>0. /\ pc \in [Threads -> Labels] /\ t \in Threads /\ Size \in Nat /\ Size > 1
      /\ first \in Nat /\ last \in Nat /\ first <= last
      /\ last <= first + Size - 1 /\ msgs \in [0 .. Size - 1 -> Cells]
      /\ calls \in [Threads -> Nat]
  BY MboxAssumption DEF RInv, Types, Threads
<1>1. CASE PostBegin(t)
  <2>1. /\ calls[t] < MaxPosts /\ calls' = [calls EXCEPT ![t] = @ + 1]
        /\ UNCHANGED <<first, last, msgs, got, refused>>
        /\ pc' = [pc EXCEPT ![t] = "lock"]
    BY <1>1 DEF PostBegin
  <2>2. Contents' = Contents
    BY <2>1 DEF Contents
  <2>3. calls' \in [Threads -> Nat]
    BY <1>0, <2>1
  <2>4. ASSUME NEW u \in Posters
        PROVE  calls'[u] <= MaxPosts /\ (pc'[u] # "idle" => calls'[u] > 0)
    <3>1. u \in Threads
      BY DEF Threads
    <3>2. CASE u = t
      BY <1>0, <2>1, <3>2, MboxAssumption
    <3>3. CASE u # t
      BY <1>0, <2>1, <3>1, <3>3 DEF RInv
    <3> QED BY <3>2, <3>3
  <2>5. RInv'
    BY <2>1, <2>3, <2>4 DEF RInv
  <2> QED BY <2>1, <2>2, <2>5 DEF MB!mvars
<1>2. CASE Lock(t) \/ PostFull(t) \/ PostSleep(t) \/ PostRelock(t)
           \/ PostSignal(t) \/ Unlock(t)
  <2>1. /\ UNCHANGED <<first, last, msgs, got, refused, calls>>
        /\ pc[t] # "idle" /\ \E l : pc' = [pc EXCEPT ![t] = l]
    BY <1>2 DEF Lock, PostFull, PostSleep, PostRelock, PostSignal, Unlock
  <2>2. \A u \in Posters : pc[u] = "idle" => pc'[u] = "idle"
    BY <1>0, <2>1 DEF Threads
  <2> QED BY <2>1, <2>2, RingStays
<1>3. CASE TryPostFull(t)
  <2>1. /\ UNCHANGED <<first, last, msgs, got, calls>> /\ pc[t] = "locked"
        /\ refused' = refused \cup {Message(t)} /\ last + 1 >= first + Size
        /\ pc' = [pc EXCEPT ![t] = "idle"]
    BY <1>3 DEF TryPostFull, Full
  <2>2. Contents' = Contents
    BY <2>1 DEF Contents
  <2>3. RInv'
    <3>1. \A u \in Posters : pc[u] = "idle" => pc'[u] = "idle"
      BY <1>0, <2>1 DEF Threads
    <3> QED BY <2>1, <3>1 DEF RInv
  <2>4. Len(Contents) = Size - 1
    <3>1. Len(Contents) = last - first
      BY <1>0, BetweenFacts, ContentsBetween
    <3> QED BY <1>0, <2>1, <3>1
  <2>5. Message(t) \in Messages
    BY <2>1, MessageFacts
  <2>6. MB!Refuse(Message(t))
    BY <2>1, <2>2, <2>4 DEF MB!Refuse
  <2> QED BY <2>3, <2>5, <2>6 DEF MB!Next
<1>4. CASE Put(t)
  <2> DEFINE x == Message(t)
  <2>1. pc[t] = "locked" /\ ~(last + 1 >= first + Size)
    BY <1>4 DEF Put, Full
  <2>2. x \in Messages /\ x \in Cells
    BY <2>1, MessageFacts
  <2>3. Slot(last) \in 0 .. Size - 1
    BY <1>0, SlotFacts
  <2>4. last' = last + 1
    BY <1>0, <1>4, MboxAssumption DEF Put, Inc, NoWrap
  <2>5. /\ msgs' = [msgs EXCEPT ![Slot(last)] = x]
        /\ UNCHANGED <<first, got, refused, calls>>
        /\ \E l : pc' = [pc EXCEPT ![t] = l]
    BY <1>4, <2>3 DEF Put
  <2> HIDE DEF x
  <2>6. RInv'
    <3>1. \A u \in Posters : pc[u] = "idle" => pc'[u] = "idle"
      BY <1>0, <2>1, <2>5 DEF Threads
    <3>2. msgs' \in [0 .. Size - 1 -> Cells]
      BY <1>0, <2>2, <2>5
    <3>3. /\ last' \in Nat /\ first' \in Nat /\ first' <= last'
          /\ last' <= first' + Size - 1
      BY <1>0, <2>1, <2>4, <2>5
    <3> QED BY <2>5, <3>1, <3>2, <3>3 DEF RInv
  <2>7. Contents' = Append(Contents, x)
    <3>1. last - first < Size
      BY <1>0
    <3>2. Between([msgs EXCEPT ![Slot(last)] = x], first, last + 1)
            = Append(Between(msgs, first, last), x)
      BY <1>0, <2>2, <3>1, PutBetween
    <3> QED BY <2>4, <2>5, <3>2, ContentsBetween
  <2>8. Len(Contents) < Size - 1
    <3>1. Len(Contents) = last - first
      BY <1>0, BetweenFacts, ContentsBetween
    <3> QED BY <1>0, <2>1, <3>1
  <2>9. MB!Post(x)
    BY <2>5, <2>7, <2>8 DEF MB!Post
  <2> QED BY <2>2, <2>6, <2>9 DEF MB!Next
<1> QED BY <1>1, <1>2, <1>3, <1>4 DEF PostStep

\* sys_arch_mbox_fetch, sys_arch_mbox_tryfetch and sys_mbox_free.
LEMMA FetchRing ==
  ASSUME RInv, Types', NoWrap, NEW t \in Fetchers,
         FetchBegin(t) \/ FetchStep(t) \/ FreeBegin(t)
  PROVE  RInv' /\ [MB!Next]_(MB!mvars)
<1>0. /\ pc \in [Threads -> Labels] /\ t \in Threads /\ Size \in Nat /\ Size > 1
      /\ first \in Nat /\ last \in Nat /\ first <= last
      /\ last <= first + Size - 1 /\ msgs \in [0 .. Size - 1 -> Cells]
      /\ calls \in [Threads -> Nat]
  BY MboxAssumption DEF RInv, Types, Threads
<1>1. \A u \in Posters : u # t /\ u \in Threads
  BY MboxAssumption DEF Threads
<1>2. (\E l : pc' = [pc EXCEPT ![t] = l]) =>
        \A u \in Posters : pc'[u] = pc[u]
  BY <1>0, <1>1
<1>3. CASE FetchBegin(t)
  <2>1. /\ UNCHANGED <<first, last, msgs, got, refused>>
        /\ \E l : pc' = [pc EXCEPT ![t] = l]
        /\ \E n \in {calls[t], calls[t] + 1} :
             calls' = [calls EXCEPT ![t] = n]
    BY <1>3 DEF FetchBegin
  <2>2. Contents' = Contents
    BY <2>1 DEF Contents
  <2>3. calls' \in [Threads -> Nat] /\ \A u \in Posters : calls'[u] = calls[u]
    BY <1>0, <1>1, <2>1
  <2>4. RInv'
    BY <1>2, <2>1, <2>3 DEF RInv
  <2> QED BY <2>1, <2>2, <2>4 DEF MB!mvars
<1>4. CASE FreeBegin(t) \/ Lock(t) \/ FetchEmpty(t) \/ FetchSleep(t)
           \/ FetchTimeout(t) \/ TryFetchEmpty(t) \/ FetchSignal(t)
           \/ Unlock(t) \/ FreeWait(t)
  <2>1. /\ UNCHANGED <<first, last, msgs, got, refused, calls>>
        /\ \E l : pc' = [pc EXCEPT ![t] = l]
    BY <1>4 DEF FreeBegin, Lock, FetchEmpty, FetchSleep, FetchTimeout,
                TryFetchEmpty, FetchSignal, Unlock, FreeWait
  <2> QED BY <1>2, <2>1, RingStays
<1>5. CASE Take(t)
  <2>1. first # last
    BY <1>5 DEF Take, Empty
  <2>2. first < last /\ first + 1 \in Nat
    BY <1>0, <2>1
  <2>3. Slot(first) \in 0 .. Size - 1
    BY <1>0, SlotFacts
  <2>4. first' = first + 1
    BY <1>0, <1>5, <2>2, MboxAssumption DEF Take, Inc, NoWrap
  <2>5. /\ got' = Append(got, msgs[Slot(first)])
        /\ UNCHANGED <<last, msgs, refused, calls>>
        /\ \E l : pc' = [pc EXCEPT ![t] = l]
    BY <1>5, <2>3 DEF Take
  <2>6. RInv'
    <3>1. /\ last' \in Nat /\ first' \in Nat /\ first' <= last'
          /\ last' <= first' + Size - 1
      BY <1>0, <2>2, <2>4, <2>5
    <3> QED BY <1>2, <2>5, <3>1 DEF RInv
  <2>7. /\ Contents # <<>> /\ Head(Contents) = msgs[Slot(first)]
        /\ Contents' = Tail(Contents)
    BY <1>0, <2>2, <2>4, <2>5, TakeBetween, ContentsBetween, Zenon
  <2>8. MB!Fetch
    BY <2>5, <2>7 DEF MB!Fetch
  <2> QED BY <2>6, <2>8 DEF MB!Next
<1> QED BY <1>3, <1>4, <1>5 DEF FetchStep

\* The ring and its semaphores are the bounded FIFO of Mailbox, for any
\* threads and any ring size: no message is overwritten, lost, fetched twice or
\* out of order, and one is refused only when Size - 1 are waiting; as long as
\* first and last have not wrapped.
THEOREM MailboxImplemented == Spec /\ []NoWrap => IsMailbox
<1>1. RInv /\ NoWrap /\ [Next]_svars => RInv' /\ [MB!Next]_(MB!mvars)
  <2> SUFFICES ASSUME RInv, NoWrap, [Next]_svars
               PROVE  RInv' /\ [MB!Next]_(MB!mvars)
    OBVIOUS
  <2>1. Types'
    BY NextTypes DEF RInv
  <2>2. CASE UNCHANGED svars
    BY <2>1, <2>2, RingStays DEF svars
  <2>3. ASSUME NEW t \in Posters, PostBegin(t) \/ PostStep(t)
        PROVE  RInv' /\ [MB!Next]_(MB!mvars)
    BY <2>1, <2>3, PostRing
  <2>4. ASSUME NEW t \in Fetchers,
               FetchBegin(t) \/ FetchStep(t) \/ FreeBegin(t)
        PROVE  RInv' /\ [MB!Next]_(MB!mvars)
    BY <2>1, <2>4, FetchRing
  <2> QED BY <2>2, <2>3, <2>4 DEF Next
<1> QED BY <1>1, InitRing, PTL DEF Spec, IsMailbox, MB!Spec
=============================================================================
