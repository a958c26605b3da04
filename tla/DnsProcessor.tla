---------------------------- MODULE DnsProcessor ---------------------------
(***************************************************************************)
(* DNSProcessor and DNSConn of csocks/csocks.go.  One goroutine, proc, per *)
(* client flow reads DNS queries, asks Target where each should go, and    *)
(* puts it in the queue of the DNSConn of that flow and target, which it   *)
(* creates and passes to Next when there is none.                          *)
(*                                                                         *)
(* Next (external: the processors of cs4go) either fails or starts         *)
(* goroutines of its own, which Read the DNSConn and at some time Close    *)
(* it; Closers is the number of goroutines that may do so, each once.      *)
(* connsLck is only held around single map operations, which are atomic    *)
(* steps here; the flag closed is not protected by it.                     *)
(***************************************************************************)
EXTENDS Integers, Sequences

CONSTANTS
  Raws,       \* client flows, each with its proc goroutine
  Targets,    \* what Target(domain) may return
  Conns,      \* the *DNSConn objects that NewDNSConn may create
  Closers,    \* goroutines of Next that may Close a DNSConn
  None,       \* nil
  ReadCap,    \* capacity of readQueued (1024 in the code)
  MaxMsgs,    \* bound: queries that arrive
  NextFails   \* whether Next.ProcConn may return an error

ASSUME DnsAssumption ==
  /\ None \notin Raws \cup Targets \cup Conns \cup Closers
  /\ None \notin Raws \X Targets
  /\ ReadCap \in Nat \ {0} /\ MaxMsgs \in Nat
  /\ NextFails \in BOOLEAN

VARIABLES
  conns,      \* the map conns, from key to DNSConn
  key,        \* key[c]: d.key; None before NewDNSConn
  up,         \* up[c]: Next.ProcConn(c) has returned nil
  closed,     \* closed[c]: d.closed; readQueued is closed with it
  readQ,      \* readQ[c]: the queries in d.readQueued
  ppc,        \* ppc[r]: where proc(r) is
  pmsg,       \* pmsg[r]: the query in its hand, or 0
  pconn,      \* pconn[r]: its variable conn
  upc,        \* upc[c]: where the goroutine that Reads c is
  cpc,        \* cpc[c][k]: where closer k is
  msgs,       \* history: the queries that arrived, [raw, target]
  dropped,    \* history: queries dropped because Next failed
  got,        \* got[c], history: what Read of c has returned
  lost,       \* history: what a Read has taken out of readQueued for nobody
  fault       \* "panic" after a send on, or a close of, a closed channel

pvars == <<ppc, pmsg, pconn>>
hvars == <<msgs, dropped, got, lost>>
dvars == <<conns, key, up, closed, readQ, pvars, upc, cpc, hvars, fault>>

Keys == Raws \X Targets
Range(s) == {s[i] : i \in DOMAIN s}

-----------------------------------------------------------------------------
\* Mutant: the key leaves out the target.
KeyOfRaw(r, t) == <<r, CHOOSE x \in Targets : TRUE>>

\* fmt.Sprintf("%p-%v", r, target)
KeyOf(r, t) == <<r, t>>

MsgKey(r) == KeyOf(r, msgs[pmsg[r]].target)

\* There is room in readQueued.
ReadRoom(c) == Len(readQ[c]) < ReadCap

\* The object NewDNSConn allocates: one that was not there before, no matter
\* which.
FreshConn == CHOOSE c \in Conns : key[c] = None

(* DNSProcessor.proc                                                       *)

\* r.Read and msg.Unpack succeed with a query that Target sends to t.
ProcRead(r, t) ==
  /\ ppc[r] = "read" /\ Len(msgs) < MaxMsgs
  /\ msgs' = Append(msgs, [raw |-> r, target |-> t])
  /\ pmsg' = [pmsg EXCEPT ![r] = Len(msgs) + 1]
  /\ ppc' = [ppc EXCEPT ![r] = "look"]
  /\ UNCHANGED <<conns, key, up, closed, readQ, pconn, upc, cpc, dropped,
                 got, lost, fault>>

\* A message without a question: msg.Question[0] is out of range.
ProcNoQuestion(r) ==
  /\ ppc[r] = "read"
  /\ fault' = "panic"
  /\ UNCHANGED <<conns, key, up, closed, readQ, pvars, upc, cpc, hvars>>

\* r.Read or msg.Unpack fails: the loop ends, its DNSConns stay as they are.
ProcBreak(r) ==
  /\ ppc[r] = "read"
  /\ ppc' = [ppc EXCEPT ![r] = "done"]
  /\ UNCHANGED <<conns, key, up, closed, readQ, pmsg, pconn, upc, cpc, hvars,
                 fault>>

\* Mutant: conns is never looked at.
ProcLookupMiss(r) ==
  /\ ppc[r] = "look"
  /\ pconn' = [pconn EXCEPT ![r] = None]
  /\ ppc' = [ppc EXCEPT ![r] = "next"]
  /\ UNCHANGED <<conns, key, up, closed, readQ, pmsg, upc, cpc, hvars, fault>>

\* conn, ok := d.conns[key] under RLock.
ProcLookup(r) ==
  /\ ppc[r] = "look"
  /\ pconn' = [pconn EXCEPT ![r] = conns[MsgKey(r)]]
  /\ ppc' = [ppc EXCEPT ![r] = IF conns[MsgKey(r)] = None THEN "next"
                               ELSE "put"]
  /\ UNCHANGED <<conns, key, up, closed, readQ, pmsg, upc, cpc, hvars, fault>>

\* NewDNSConn and Next.ProcConn; the query is dropped when that fails.
ProcNext(r) ==
  /\ ppc[r] = "next"
  /\ \E c \in Conns :
       /\ key[c] = None /\ c = FreshConn
       /\ key' = [key EXCEPT ![c] = MsgKey(r)]
       /\ pconn' = [pconn EXCEPT ![r] = c]
       /\ \/ /\ up' = [up EXCEPT ![c] = TRUE]
             /\ ppc' = [ppc EXCEPT ![r] = "register"]
             /\ UNCHANGED <<pmsg, dropped>>
          \/ /\ NextFails
             /\ ppc' = [ppc EXCEPT ![r] = "read"]
             /\ pmsg' = [pmsg EXCEPT ![r] = 0]
             /\ dropped' = dropped \cup {pmsg[r]}
             /\ UNCHANGED up
  /\ UNCHANGED <<conns, closed, readQ, upc, cpc, msgs, got, lost, fault>>

\* d.conns[key] = conn under Lock, though Next may have closed conn by now.
ProcRegister(r) ==
  /\ ppc[r] = "register"
  /\ conns' = [conns EXCEPT ![MsgKey(r)] = pconn[r]]
  /\ ppc' = [ppc EXCEPT ![r] = "put"]
  /\ UNCHANGED <<key, up, closed, readQ, pmsg, pconn, upc, cpc, hvars, fault>>

\* Mutant: a full queue drops the query.
ProcPutDrop(r) ==
  LET c == pconn[r] IN
  /\ ppc[r] = "put" /\ ~closed[c]
  /\ readQ' = IF ReadRoom(c)
              THEN [readQ EXCEPT ![c] = Append(@, pmsg[r])] ELSE readQ
  /\ ppc' = [ppc EXCEPT ![r] = "read"]
  /\ pmsg' = [pmsg EXCEPT ![r] = 0]
  /\ UNCHANGED <<conns, key, up, closed, pconn, upc, cpc, hvars, fault>>

\* conn.readQueued <- buf[0:n]: blocks while the queue is full, panics when it
\* is closed.
ProcPut(r) ==
  LET c == pconn[r] IN
  /\ ppc[r] = "put"
  /\ closed[c] \/ ReadRoom(c)
  /\ IF closed[c]
     THEN fault' = "panic" /\ UNCHANGED readQ
     ELSE readQ' = [readQ EXCEPT ![c] = Append(@, pmsg[r])]
          /\ UNCHANGED fault
  /\ ppc' = [ppc EXCEPT ![r] = "read"]
  /\ pmsg' = [pmsg EXCEPT ![r] = 0]
  /\ UNCHANGED <<conns, key, up, closed, pconn, upc, cpc, hvars>>

(* DNSConn.Read, by the goroutine Next has started for c.                  *)

\* The query is copied to the buffer, or that is "too small": then Read has
\* taken the query out of the queue for nobody.
UpRead(c) ==
  /\ up[c] /\ upc[c] = "read" /\ readQ[c] # <<>>
  /\ readQ' = [readQ EXCEPT ![c] = Tail(@)]
  /\ \/ got' = [got EXCEPT ![c] = Append(@, Head(readQ[c]))] /\ UNCHANGED lost
     \/ lost' = lost \cup {Head(readQ[c])} /\ UNCHANGED got
  /\ UNCHANGED <<conns, key, up, closed, pvars, upc, cpc, msgs, dropped,
                 fault>>

\* readQueued is closed and drained: "closed".
UpEnd(c) ==
  /\ up[c] /\ upc[c] = "read" /\ readQ[c] = <<>> /\ closed[c]
  /\ upc' = [upc EXCEPT ![c] = "done"]
  /\ UNCHANGED <<conns, key, up, closed, readQ, pvars, cpc, hvars, fault>>

\* The goroutine reads no more, be it for an error of Read or of its own.
UpStop(c) ==
  /\ up[c] /\ upc[c] = "read"
  /\ upc' = [upc EXCEPT ![c] = "done"]
  /\ UNCHANGED <<conns, key, up, closed, readQ, pvars, cpc, hvars, fault>>

(* DNSConn.Close, by closer k.                                             *)

CloseCheck(c, k) ==
  /\ up[c] /\ cpc[c][k] = "idle"
  /\ cpc' = [cpc EXCEPT ![c][k] = IF closed[c] THEN "done" ELSE "close"]
  /\ UNCHANGED <<conns, key, up, closed, readQ, pvars, upc, hvars, fault>>

\* d.closed = true; close(d.readQueued), which panics the second time.
CloseChan(c, k) ==
  /\ cpc[c][k] = "close"
  /\ closed' = [closed EXCEPT ![c] = TRUE]
  /\ cpc' = [cpc EXCEPT ![c][k] = "delete"]
  /\ fault' = IF closed[c] THEN "panic" ELSE fault
  /\ UNCHANGED <<conns, key, up, readQ, pvars, upc, hvars>>

\* DNSProcessor.close: delete(d.conns, c.key) under Lock.
CloseDelete(c, k) ==
  /\ cpc[c][k] = "delete"
  /\ conns' = [conns EXCEPT ![key[c]] = None]
  /\ cpc' = [cpc EXCEPT ![c][k] = "done"]
  /\ UNCHANGED <<key, up, closed, readQ, pvars, upc, hvars, fault>>

-----------------------------------------------------------------------------
Init ==
  /\ conns = [x \in Keys |-> None]
  /\ key = [c \in Conns |-> None]
  /\ up = [c \in Conns |-> FALSE]
  /\ closed = [c \in Conns |-> FALSE]
  /\ readQ = [c \in Conns |-> <<>>]
  /\ ppc = [r \in Raws |-> "read"]
  /\ pmsg = [r \in Raws |-> 0]
  /\ pconn = [r \in Raws |-> None]
  /\ upc = [c \in Conns |-> "read"]
  /\ cpc = [c \in Conns |-> [k \in Closers |-> "idle"]]
  /\ msgs = <<>> /\ dropped = {} /\ lost = {}
  /\ got = [c \in Conns |-> <<>>]
  /\ fault = "none"

\* What proc(r) does without waiting for its client.
ProcGo(r) == ProcLookup(r) \/ ProcNext(r) \/ ProcRegister(r) \/ ProcPut(r)

Upstream(c) == UpRead(c) \/ UpEnd(c)

Close(c, k) == CloseCheck(c, k) \/ CloseChan(c, k) \/ CloseDelete(c, k)

\* A panic ends the process.
Next ==
  /\ fault = "none"
  /\ \/ \E r \in Raws : \/ \E t \in Targets : ProcRead(r, t)
                        \/ ProcBreak(r) \/ ProcNoQuestion(r)
                        \/ ProcGo(r)
     \/ \E c \in Conns : \/ Upstream(c) \/ UpStop(c)
                         \/ \E k \in Closers : Close(c, k)

Spec == Init /\ [][Next]_dvars

\* Go schedules every goroutine that can run: proc, and Next's reader for as
\* long as it has not stopped.
FairSpec ==
  /\ Spec
  /\ \A r \in Raws : WF_dvars(fault = "none" /\ ProcGo(r))
  /\ \A c \in Conns : WF_dvars(fault = "none" /\ Upstream(c))

-----------------------------------------------------------------------------
(* Properties.                                                             *)

\* Types; readQueued never exceeds its capacity.
TypeOK ==
  /\ conns \in [Keys -> Conns \cup {None}]
  /\ key \in [Conns -> Keys \cup {None}]
  /\ up \in [Conns -> BOOLEAN] /\ closed \in [Conns -> BOOLEAN]
  /\ readQ \in [Conns -> Seq(1 .. MaxMsgs)]
  /\ \A c \in Conns : Len(readQ[c]) <= ReadCap
  /\ ppc \in [Raws -> {"read", "look", "next", "register", "put", "done"}]
  /\ pmsg \in [Raws -> 0 .. MaxMsgs]
  /\ pconn \in [Raws -> Conns \cup {None}]
  /\ upc \in [Conns -> {"read", "done"}]
  /\ cpc \in [Conns -> [Closers -> {"idle", "close", "delete", "done"}]]
  /\ msgs \in Seq([raw : Raws, target : Targets])
  /\ dropped \subseteq 1 .. MaxMsgs /\ lost \subseteq 1 .. MaxMsgs
  /\ got \in [Conns -> Seq(1 .. MaxMsgs)]
  /\ fault \in {"none", "panic"}

\* A DNSConn that Next serves and nobody has closed is the one proc finds for
\* its flow and target, or proc is about to register it: no open upstream
\* connection is ever shadowed by another or deleted from conns by the Close of
\* another, although DNSProcessor.close deletes by key.
OpenIsRegistered ==
  \A c \in Conns :
    up[c] /\ ~closed[c] =>
      \/ conns[key[c]] = c
      \/ ppc[key[c][1]] = "register" /\ pconn[key[c][1]] = c

\* The queries that c has got, returned by Read or still queued.
Held(c) == got[c] \o readQ[c]

\* A query that proc has read is in its hand, or in one DNSConn of the query's
\* own flow and target, where queries keep their order; the only ways out are
\* a connection that Next refuses and a Read whose buffer is too small.
PerTargetFifo ==
  fault = "none" =>
    /\ \A c \in Conns : \A d \in Range(Held(c)) :
         key[c] = <<msgs[d].raw, msgs[d].target>>
    /\ \A c \in Conns, i, j \in 1 .. MaxMsgs :
         i < j /\ j <= Len(Held(c)) => Held(c)[i] < Held(c)[j]
    /\ \A c, x \in Conns : c # x => Range(Held(c)) \cap Range(Held(x)) = {}
    /\ \A d \in 1 .. Len(msgs) :
         \/ d \in dropped \cup lost
         \/ \E r \in Raws : pmsg[r] = d
         \/ \E c \in Conns : d \in Range(Held(c))

\* Query d is in the readQueued of c, or proc waits for room in it to put d.
WaitsAt(d, c) ==
  \/ d \in Range(readQ[c])
  \/ \E r \in Raws : ppc[r] = "put" /\ pmsg[r] = d /\ pconn[r] = c

\* Every query that proc has read is returned by a Read of an upstream
\* connection, even one that has been closed since, unless Next refused the
\* connection, the reader's buffer was too small, or the reader has stopped
\* before it came to the query, or the process has panicked.  In particular
\* nobody waits for ever for a connection that is still read.
AllServed ==
  \A d \in 1 .. MaxMsgs :
    Len(msgs) >= d ~>
      \/ d \in dropped \cup lost \/ fault = "panic"
      \/ \E c \in Conns : \/ d \in Range(got[c])
                          \/ upc[c] = "done" /\ WaitsAt(d, c)
=============================================================================
