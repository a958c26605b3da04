----------------------------- MODULE TcpBridge -----------------------------
(***************************************************************************)
(* The TCP half of lwip-cs: the Go connection object PCB and its channels  *)
(* (lwipcs.go), the C callbacks that lwIP calls and the per-connection     *)
(* state cs_tcp_raw_state they keep (src/tcp.c), and the shims between the *)
(* two (lwipcs.c).                                                         *)
(*                                                                         *)
(* Threads.  One goroutine, Proc, runs the select loop of go_netif_proc    *)
(* and with it all of lwIP and every callback.  Application goroutines     *)
(* call Read, Write and Close of a PCB.  Every step below is what one      *)
(* thread does between two points where it may block or where another      *)
(* thread may observe it.                                                  *)
(*                                                                         *)
(* lwIP itself is not in the repository.  Its part (the tcp_pcb blocks and *)
(* the segments that arrive) is modelled from how tcp.c uses it, without   *)
(* sequence numbers: in-order data, ACKs of whole segments, FIN and RST.   *)
(* No driver of the repository calls sys_check_timeouts, so no lwIP timer  *)
(* ever fires: there is no poll callback, retransmission or TIME_WAIT      *)
(* expiry.                                                                 *)
(***************************************************************************)
EXTENDS Integers, Sequences, FiniteSets

CONSTANTS
  Conns,      \* the Go *PCB objects that newPCB may create
  Writers,    \* application goroutines that call Write on a connection
  Blocks,     \* addresses of struct tcp_pcb blocks in lwIP's pool
  Heap,       \* addresses mem_malloc may return for a cs_tcp_raw_state
  None,       \* the null pointer
  RecvCap,    \* capacity of recvQueued (1024 in the code)
  QueueCap,   \* capacity of sendQueue, recvedQueue, closeQueue (1024)
  TcpWnd,     \* TCP_WND, in chunks the peer may have unacknowledged by Read
  SndBuf,     \* TCP_SND_BUF, in segments
  Segs,       \* pbufs in the chain that holds one Write
  MaxData,    \* bound: chunks a peer sends on one connection
  MaxWrites,  \* bound: calls of Write on one connection
  MaxCloses,  \* bound: calls of Close on one connection
  Env         \* what may happen: "fin", "rst", "kill" (out of blocks), "nomem",
              \* "small" (a Read with a buffer smaller than the chunk)

ASSUME NoneAssumption ==
  None \notin Conns \cup Writers \cup Blocks \cup Heap

ASSUME CapAssumption ==
  /\ RecvCap \in Nat \ {0} /\ QueueCap \in Nat \ {0} /\ TcpWnd \in Nat \ {0}
  /\ SndBuf \in Nat \ {0} /\ Segs \in Nat \ {0}
  /\ MaxData \in Nat /\ MaxWrites \in Nat /\ MaxCloses \in Nat

VARIABLES
  \* ---- Go: fields of PCB and package variables of lwipcs.go
  err,        \* err[c]: p.err # nil; recvQueued and sendWait are closed iff so
  lck,        \* lck[c]: the Write that holds p.lck, or None
  recvQ,      \* recvQ[c]: the chunks in p.recvQueued
  sendWait,   \* sendWait[c]: the number of tokens in p.sendWait
  sendCount,  \* sendCount[c]: p.sendCount
  pcbOf,      \* pcbOf[c]: p.pcb, the tcp_pcb address the PCB was made with
  esOf,       \* esOf[c]: p.state
  tcpPcbs,    \* the map tcpPcbs, from es address to PCB
  sendQ, recvedQ, closeQ,   \* the package's channels
  \* ---- application goroutines
  rpc,        \* rpc[c]: where the reading goroutine is
  wpc,        \* wpc[c][w]: where writer w is
  wbuf,       \* wbuf[c][w]: the buffer writer w passes to Write
  cpc,        \* cpc[c]: where the closing goroutine is
  wrote, closes,   \* calls made so far
  \* ---- C: cs_tcp_raw_state blocks, lwIP's tcp_pcb blocks, the peer
  es,         \* es[e] = [live, state, pcb, p]
  pcb,        \* pcb[a] = [st, conn, arg, unread, unacked, refused]
  peerSent, peerFin,        \* chunks the peer has sent, whether it sent FIN
  stream,     \* stream[c]: the segments tcp_write took, in order
  \* ---- the Proc goroutine
  proc,       \* the callback Proc is inside, when it may block there
  fault       \* the first operation with undefined or fatal outcome

goVars   == <<err, lck, recvQ, sendWait, sendCount, pcbOf, esOf, tcpPcbs>>
queues   == <<sendQ, recvedQ, closeQ>>
appVars  == <<rpc, wpc, wbuf, cpc, wrote, closes>>
netVars  == <<es, pcb, peerSent, peerFin, stream>>
vars     == <<goVars, queues, appVars, netVars, proc, fault>>

-----------------------------------------------------------------------------
FreePcb == [st |-> "FREE", conn |-> None, arg |-> None,
            unread |-> 0, unacked |-> 0, refused |-> FALSE]
FreeEs  == [live |-> FALSE, state |-> "ACCEPTED", pcb |-> None, p |-> <<>>]

\* Where Proc is: outside every callback, in a channel send for connection c,
\* or in cs_tcp_raw_close.
Idle == [at |-> "idle", conn |-> None, data |-> 0,
         es |-> None, pcb |-> None, how |-> "none"]
Sending(at, c, d) == [at |-> at, conn |-> c, data |-> d,
                      es |-> None, pcb |-> None, how |-> "none"]
Closing(c, e, a, how) == [at |-> "close", conn |-> c, data |-> 0,
                          es |-> e, pcb |-> a, how |-> how]

PcbStates == {"FREE", "ESTABLISHED", "CLOSE_WAIT", "FIN_WAIT", "LAST_ACK",
              "TIME_WAIT"}
Chunks    == 1 .. MaxData
Data      == 1 .. MaxData + MaxWrites   \* what a Write may carry
Segments  == Data \X (1 .. Segs)
Entries   == [conn : Conns, data : Data]   \* struct sendEntry

PcbRec  == [st : PcbStates, conn : Conns \cup {None},
            arg : Heap \cup {None}, unread : 0 .. TcpWnd,
            unacked : 0 .. SndBuf, refused : BOOLEAN]
EsRec   == [live : BOOLEAN, state : {"ACCEPTED", "RECEIVED", "CLOSING"},
            pcb : Blocks \cup {None}, p : Seq(Segments)]
ProcRec == [at : {"idle", "recv", "done", "close"},
            conn : Conns \cup {None}, data : Chunks \cup {0},
            es : Heap \cup {None}, pcb : Blocks \cup {None},
            how : {"none", "fin", "reset", "abort"}]

\* Mutant: the lock is not taken.
UnlockedIgnored(c) == TRUE

\* p.lck.Lock() can return: no Write is between its Lock and its Unlock.
Unlocked(c) == lck[c] = None

\* Mutant: every ACK hands out a token, counted or not.
OwedUncounted(c) == c # None /\ ~err[c]

\* go_tcp_send_done_h has a token to hand to the Write of connection c.
Owed(c) == c # None /\ ~err[c] /\ sendCount[c] > 0

\* Send goes on: the connection of the entry is still open.
SendOpen(c) == ~err[c]

\* Mutant: what is left of the last Write is overlooked.
DrainedIgnored(e) == TRUE

\* es->p == NULL: nothing is left of the last Write.
Drained(e) == es[e].p = <<>>

\* Mutant: es->pcb is not set.
NewEsNoPcb(a) ==
  [live |-> TRUE, state |-> "ACCEPTED", pcb |-> None, p |-> <<>>]

\* The cs_tcp_raw_state of a connection accepted on block a.
NewEs(a) == [live |-> TRUE, state |-> "ACCEPTED", pcb |-> a, p |-> <<>>]

\* The tcp_pcb of connection c once its callbacks are hooked up with es e.
NewPcb(c, e) == [st |-> "ESTABLISHED", conn |-> c, arg |-> e,
                 unread |-> 0, unacked |-> 0, refused |-> FALSE]

\* Mutant: the window is not opened again.
RecvedForgotten(b) == b

\* tcp_recved on block b; it never opens the window beyond TCP_WND.
Recved(b) == IF b.unread > 0 THEN [b EXCEPT !.unread = @ - 1] ELSE b

\* One Write laid out in a chain of Segs pbufs by pbuf_alloc and pbuf_take.
Chain(d) == [k \in 1 .. Segs |-> <<d, k>>]

-----------------------------------------------------------------------------
(***************************************************************************)
(* lwIP's tcp_close on block a (external).  Unread or refused data makes   *)
(* it send RST and free the block at once; a block that is already closing *)
(* is left alone; a freed block is freed a second time.                    *)
(***************************************************************************)
Unread(b) == b.unread > 0 \/ b.refused

TcpClose(b) ==
  CASE b.st \in {"ESTABLISHED", "CLOSE_WAIT"} /\ Unread(b) -> FreePcb
    [] b.st = "ESTABLISHED" /\ ~Unread(b) -> [b EXCEPT !.st = "FIN_WAIT"]
    [] b.st = "CLOSE_WAIT"  /\ ~Unread(b) -> [b EXCEPT !.st = "LAST_ACK"]
    [] OTHER -> b

\* A refused pbuf has already been freed by go_cs_tcp_recv_h, so the purge of
\* the block frees it again.
TcpCloseFault(b) ==
  CASE b.st = "FREE" -> "pcb"
    [] b.st \in {"ESTABLISHED", "CLOSE_WAIT"} /\ b.refused -> "pbuf"
    [] OTHER -> "none"

\* tcp_alloc takes a free block, else the oldest one in TIME_WAIT, else one in
\* LAST_ACK; only then does it abort an active connection of low priority.
Allocatable(a) ==
  \/ pcb[a].st = "FREE"
  \/ pcb[a].st = "TIME_WAIT" /\ \A b \in Blocks : pcb[b].st # "FREE"
  \/ pcb[a].st = "LAST_ACK"
       /\ \A b \in Blocks : pcb[b].st \notin {"FREE", "TIME_WAIT"}

\* Mutant: the loop ignores tcp_sndbuf.
RawSendCountsUnbounded(st, n, u) ==
  IF st # "ESTABLISHED" THEN {0} ELSE {n}

\* How many of n pbufs the loop of cs_tcp_raw_send hands to tcp_write when
\* u segments are unacknowledged: what fits the send buffer, fewer when
\* tcp_write answers ERR_MEM, none in a state where it answers ERR_CONN.
RawSendCounts(st, n, u) ==
  LET room == SndBuf - u
      fits == IF n <= room THEN n ELSE room
  IN  IF st # "ESTABLISHED" THEN {0}
      ELSE IF "nomem" \in Env THEN 0 .. fits ELSE {fits}

-----------------------------------------------------------------------------
\* Mutant: go_tcp_close_h leaves the entry in tcpPcbs.
EnterRawCloseKeep(a, e, b, how) ==
  /\ pcb' = [pcb EXCEPT ![a] = [b EXCEPT !.arg = None]]
  /\ proc' = Closing(tcpPcbs[e], e, a, how)
  /\ UNCHANGED tcpPcbs

\* Mutant: the block is aborted before tcp_close is called on it.
EnterRawCloseAborted(a, e, b, how) ==
  /\ pcb' = [pcb EXCEPT ![a] = FreePcb]
  /\ tcpPcbs' = [tcpPcbs EXCEPT ![e] = None]
  /\ proc' = Closing(tcpPcbs[e], e, a, how)

(***************************************************************************)
(* cs_tcp_raw_close, in two steps, because go_tcp_close_h takes p.lck.     *)
(* Before the lock the callbacks are unhooked and the registry entry is    *)
(* deleted; b is what the block holds while the callback runs.             *)
(***************************************************************************)
EnterRawClose(a, e, b, how) ==
  /\ pcb' = [pcb EXCEPT ![a] = [b EXCEPT !.arg = None]]
  /\ tcpPcbs' = [tcpPcbs EXCEPT ![e] = None]
  /\ proc' = Closing(tcpPcbs[e], e, a, how)

\* After the lock: PCB.close, then cs_tcp_raw_free and tcp_close.  A block
\* reset by its peer is freed by tcp_input when the callback returns.
ProcRawClose ==
  LET a == proc.pcb
      c == proc.conn
  IN
  /\ proc.at = "close"
  /\ c # None => Unlocked(c)
  /\ err' = [err EXCEPT ![c] = TRUE]
  /\ es' = [es EXCEPT ![proc.es] = FreeEs]
  /\ pcb' = [pcb EXCEPT ![a] = IF proc.how = "reset" THEN FreePcb
                               ELSE TcpClose(pcb[a])]
  /\ fault' = TcpCloseFault(pcb[a])
  /\ proc' = Idle
  /\ UNCHANGED <<lck, recvQ, sendWait, sendCount, pcbOf, esOf, tcpPcbs,
                 queues, appVars, peerSent, peerFin, stream>>

-----------------------------------------------------------------------------
(* Segments that arrive, and the callbacks tcp_input makes for them.       *)

\* go_tcp_accept_h: the new PCB is entered under the address of its es, unless
\* another one is still there.
GoTcpAccept(c, a, e) ==
  IF tcpPcbs[e] = None
  THEN /\ tcpPcbs' = [tcpPcbs EXCEPT ![e] = c]
       /\ pcbOf' = [pcbOf EXCEPT ![c] = a]
       /\ esOf' = [esOf EXCEPT ![c] = e]
  ELSE UNCHANGED <<tcpPcbs, pcbOf, esOf>>

\* cs_tcp_raw_accept.  When mem_malloc returns NULL nothing is kept: lwIP drops
\* the block again.
Accept(c, a, e) ==
  /\ proc.at = "idle"
  /\ pcbOf[c] = None /\ ~es[e].live /\ Allocatable(a)
  /\ pcb' = [pcb EXCEPT ![a] = NewPcb(c, e)]
  /\ es' = [es EXCEPT ![e] = NewEs(a)]
  /\ GoTcpAccept(c, a, e)
  /\ UNCHANGED <<err, lck, recvQ, sendWait, sendCount, queues, appVars,
                 peerSent, peerFin, stream, proc, fault>>

\* cs_tcp_raw_recv with a pbuf, go_cs_tcp_recv_h and go_tcp_recv_h up to the
\* send on recvQueued.  A refused pbuf stays with lwIP, which keeps a pointer
\* to it although the shim has freed it.  The branches of tcp.c that test for
\* ES_CLOSING (here and in cs_tcp_send) are never taken: ClosingIsTransient.
RecvData(a) ==
  LET e == pcb[a].arg
      c == tcpPcbs[e]
      x == pcb[a].conn
  IN
  /\ proc.at = "idle"
  /\ pcb[a].st = "ESTABLISHED" /\ ~pcb[a].refused
  /\ pcb[a].unread < TcpWnd /\ ~peerFin[x] /\ peerSent[x] < MaxData
  /\ peerSent' = [peerSent EXCEPT ![x] = @ + 1]
  /\ es' = [es EXCEPT ![e].state = "RECEIVED"]
  /\ IF c = None \/ err[c]
     THEN /\ pcb' = [pcb EXCEPT ![a].unread = @ + 1, ![a].refused = TRUE]
          /\ UNCHANGED proc
     ELSE /\ pcb' = [pcb EXCEPT ![a].unread = @ + 1]
          /\ proc' = Sending("recv", c, peerSent[x] + 1)
  /\ UNCHANGED <<goVars, queues, appVars, peerFin, stream, fault>>

\* "pcb.recvQueued <- data" blocks while the channel is full and panics when
\* Close has closed it since go_tcp_recv_h looked at p.err.
ProcRecvPut ==
  LET c == proc.conn IN
  /\ proc.at = "recv"
  /\ err[c] \/ Len(recvQ[c]) < RecvCap
  /\ IF err[c]
     THEN fault' = "panic" /\ UNCHANGED recvQ
     ELSE recvQ' = [recvQ EXCEPT ![c] = Append(@, proc.data)]
          /\ UNCHANGED fault
  /\ proc' = Idle
  /\ UNCHANGED <<err, lck, sendWait, sendCount, pcbOf, esOf, tcpPcbs,
                 queues, appVars, netVars>>

\* Data for a connection tcp_close has half-closed: lwIP aborts it, that is it
\* frees the block and then calls cs_tcp_raw_error.
RecvDataClosed(a) ==
  LET x == pcb[a].conn IN
  /\ proc.at = "idle"
  /\ pcb[a].st = "FIN_WAIT" /\ ~peerFin[x] /\ peerSent[x] < MaxData
  /\ peerSent' = [peerSent EXCEPT ![x] = @ + 1]
  /\ EnterRawClose(a, pcb[a].arg, FreePcb, "abort")
  /\ UNCHANGED <<err, lck, recvQ, sendWait, sendCount, pcbOf, esOf, queues,
                 appVars, es, peerFin, stream, fault>>

\* Any further segment makes lwIP offer a refused pbuf again: the shim frees
\* it a second time.
ReplayRefused(a) ==
  /\ proc.at = "idle"
  /\ pcb[a].st = "ESTABLISHED" /\ pcb[a].refused
  /\ fault' = "pbuf"
  /\ UNCHANGED <<goVars, queues, appVars, netVars, proc>>

\* Mutant: the close waits for the pending chain, as code that is commented
\* out in cs_tcp_raw_recv did.
RecvFinDeferred(a) ==
  LET x == pcb[a].conn IN
  /\ proc.at = "idle" /\ "fin" \in Env
  /\ pcb[a].st = "ESTABLISHED" /\ ~pcb[a].refused /\ ~peerFin[x]
  /\ peerFin' = [peerFin EXCEPT ![x] = TRUE]
  /\ es' = [es EXCEPT ![pcb[a].arg].state = "CLOSING"]
  /\ pcb' = [pcb EXCEPT ![a].st = "CLOSE_WAIT"]
  /\ UNCHANGED <<goVars, queues, appVars, peerSent, stream, proc, fault>>

\* cs_tcp_raw_recv with p = NULL: the peer has closed its side.
RecvFin(a) ==
  LET x == pcb[a].conn
      e == pcb[a].arg
  IN
  /\ proc.at = "idle" /\ "fin" \in Env
  /\ pcb[a].st \in {"ESTABLISHED", "FIN_WAIT"} /\ ~pcb[a].refused
  /\ ~peerFin[x]
  /\ peerFin' = [peerFin EXCEPT ![x] = TRUE]
  /\ es' = [es EXCEPT ![e].state = "CLOSING"]
  /\ EnterRawClose(a, e, [pcb[a] EXCEPT !.st =
                            IF @ = "ESTABLISHED" THEN "CLOSE_WAIT"
                            ELSE "TIME_WAIT"], "fin")
  /\ UNCHANGED <<err, lck, recvQ, sendWait, sendCount, pcbOf, esOf, queues,
                 appVars, peerSent, stream, fault>>

\* RST from the peer: cs_tcp_raw_error while the block is still allocated.
RecvRst(a) ==
  /\ proc.at = "idle" /\ "rst" \in Env
  /\ pcb[a].st \in {"ESTABLISHED", "FIN_WAIT"} /\ ~pcb[a].refused
  /\ EnterRawClose(a, pcb[a].arg, pcb[a], "reset")
  /\ UNCHANGED <<err, lck, recvQ, sendWait, sendCount, pcbOf, esOf, queues,
                 appVars, es, peerSent, peerFin, stream, fault>>

\* The last ACK, or a RST, of a connection whose callbacks are unhooked.
RecvLastAck(a) ==
  /\ proc.at = "idle" /\ pcb[a].st = "LAST_ACK"
  /\ pcb' = [pcb EXCEPT ![a] = FreePcb]
  /\ UNCHANGED <<goVars, queues, appVars, es, peerSent, peerFin, stream,
                 proc, fault>>

\* A SYN when no block can be reclaimed: tcp_alloc aborts an active
\* connection, which all have TCP_PRIO_MIN (cs_tcp_raw_accept).
KillPrio(a) ==
  /\ proc.at = "idle" /\ "kill" \in Env
  /\ \A b \in Blocks : ~Allocatable(b)
  /\ EnterRawClose(a, pcb[a].arg, FreePcb, "abort")
  /\ UNCHANGED <<err, lck, recvQ, sendWait, sendCount, pcbOf, esOf, queues,
                 appVars, es, peerSent, peerFin, stream, fault>>

\* cs_tcp_raw_send of the chain ps on block a, whose u segments are
\* unacknowledged; b is the block otherwise.
RawSend(a, e, b, u, ps) ==
  \E m \in RawSendCounts(b.st, Len(ps), u) :
    /\ pcb' = [pcb EXCEPT ![a] = [b EXCEPT !.unacked = u + m]]
    /\ es' = [es EXCEPT ![e].p = SubSeq(ps, m + 1, Len(ps))]
    /\ stream' = [x \in Conns |-> IF x = b.conn
                                  THEN stream[x] \o SubSeq(ps, 1, m)
                                  ELSE stream[x]]

\* An ACK of n segments: cs_tcp_send, and go_tcp_send_done_h up to the send
\* on sendWait when the pending chain is empty.
RecvAck(a, n) ==
  LET e == pcb[a].arg
      c == tcpPcbs[e]
      u == pcb[a].unacked - n
  IN
  /\ proc.at = "idle"
  /\ pcb[a].st \in {"ESTABLISHED", "FIN_WAIT"} /\ ~pcb[a].refused
  /\ n <= pcb[a].unacked
  /\ IF ~Drained(e)
     THEN RawSend(a, e, pcb[a], u, es[e].p) /\ UNCHANGED <<sendCount, proc>>
     ELSE /\ pcb' = [pcb EXCEPT ![a].unacked = u]
          /\ IF Owed(c)
             THEN /\ sendCount' = [sendCount EXCEPT ![c] = @ - 1]
                  /\ proc' = Sending("done", c, 0)
             ELSE UNCHANGED <<sendCount, proc>>
          /\ UNCHANGED <<es, stream>>
  /\ UNCHANGED <<err, lck, recvQ, sendWait, pcbOf, esOf, tcpPcbs, queues,
                 appVars, peerSent, peerFin, fault>>

\* "pcb.sendWait <- 1": blocks on a full channel, panics on a closed one.
ProcDonePut ==
  LET c == proc.conn IN
  /\ proc.at = "done"
  /\ err[c] \/ sendWait[c] < 1
  /\ IF err[c]
     THEN fault' = "panic" /\ UNCHANGED sendWait
     ELSE sendWait' = [sendWait EXCEPT ![c] = @ + 1] /\ UNCHANGED fault
  /\ proc' = Idle
  /\ UNCHANGED <<err, lck, recvQ, sendCount, pcbOf, esOf, tcpPcbs, queues,
                 appVars, netVars>>

-----------------------------------------------------------------------------
(* The cases of the select in go_netif_proc.                               *)

\* case r := <-recvedQueue.
ProcRecved ==
  /\ proc.at = "idle" /\ recvedQ # <<>>
  /\ LET c == Head(recvedQ)
         a == pcbOf[c]
     IN  pcb' = IF err[c] THEN pcb
                ELSE [pcb EXCEPT ![a] = Recved(pcb[a])]
  /\ recvedQ' = Tail(recvedQ)
  /\ UNCHANGED <<goVars, sendQ, closeQ, appVars, es, peerSent, peerFin,
                 stream, proc, fault>>

\* case c := <-closeQueue: tcp_close of whatever block c was made with.
ProcClose ==
  /\ proc.at = "idle" /\ closeQ # <<>>
  /\ LET a == pcbOf[Head(closeQ)]
     IN  /\ pcb' = [pcb EXCEPT ![a] = TcpClose(pcb[a])]
         /\ fault' = TcpCloseFault(pcb[a])
  /\ closeQ' = Tail(closeQ)
  /\ UNCHANGED <<goVars, sendQ, recvedQ, appVars, es, peerSent, peerFin,
                 stream, proc>>

\* case s := <-sendQueue: sendEntry.Send and cs_tcp_char_send.  What
\* cs_tcp_char_send returns (100, 1 or 0) is ignored by Send.
ProcSend ==
  LET s == Head(sendQ)
      c == s.conn
      e == esOf[c]
      a == pcbOf[c]
  IN
  /\ proc.at = "idle" /\ sendQ # <<>>
  /\ sendQ' = Tail(sendQ)
  /\ IF ~SendOpen(c)
     THEN UNCHANGED <<sendCount, es, pcb, stream>>
     ELSE /\ sendCount' = [sendCount EXCEPT ![c] = @ + 1]
          /\ IF ~Drained(e)
             THEN UNCHANGED <<es, pcb, stream>>
             ELSE \/ "nomem" \in Env /\ UNCHANGED <<es, pcb, stream>>
                  \/ RawSend(a, e, pcb[a], pcb[a].unacked, Chain(s.data))
  /\ UNCHANGED <<err, lck, recvQ, sendWait, pcbOf, esOf, tcpPcbs, recvedQ,
                 closeQ, appVars, peerSent, peerFin, proc, fault>>

-----------------------------------------------------------------------------
(* PCB.Read, by the one goroutine that reads connection c.                 *)

ReadCheck(c) ==
  /\ pcbOf[c] # None /\ rpc[c] = "idle"
  /\ rpc' = [rpc EXCEPT ![c] = IF err[c] THEN "done" ELSE "recv"]
  /\ UNCHANGED <<goVars, queues, wpc, wbuf, cpc, wrote, closes, netVars,
                 proc, fault>>

\* <-p.recvQueued with a chunk: it is copied to the caller's buffer.
ReadGet(c) ==
  /\ rpc[c] = "recv" /\ recvQ[c] # <<>>
  /\ recvQ' = [recvQ EXCEPT ![c] = Tail(@)]
  /\ rpc' = [rpc EXCEPT ![c] = "credit"]
  /\ UNCHANGED <<err, lck, sendWait, sendCount, pcbOf, esOf, tcpPcbs, queues,
                 wpc, wbuf, cpc, wrote, closes, netVars, proc, fault>>

\* The caller's buffer is too small for the chunk: Read panics.
ReadSmall(c) ==
  /\ rpc[c] = "recv" /\ recvQ[c] # <<>> /\ "small" \in Env
  /\ fault' = "panic"
  /\ UNCHANGED <<goVars, queues, appVars, netVars, proc>>

\* <-p.recvQueued on the closed, drained channel: Read returns p.err.
ReadEnd(c) ==
  /\ rpc[c] = "recv" /\ recvQ[c] = <<>> /\ err[c]
  /\ rpc' = [rpc EXCEPT ![c] = "done"]
  /\ UNCHANGED <<goVars, queues, wpc, wbuf, cpc, wrote, closes, netVars,
                 proc, fault>>

\* recvedQueue <- &recvedEntry{...}
ReadCredit(c) ==
  /\ rpc[c] = "credit" /\ Len(recvedQ) < QueueCap
  /\ recvedQ' = Append(recvedQ, c)
  /\ rpc' = [rpc EXCEPT ![c] = "idle"]
  /\ UNCHANGED <<goVars, sendQ, closeQ, wpc, wbuf, cpc, wrote, closes,
                 netVars, proc, fault>>

(* PCB.Write of data d by goroutine w.  p.err is looked at before the lock *)
(* is taken and not again.                                                 *)

WriteCheck(c, w, d) ==
  /\ pcbOf[c] # None /\ wpc[c][w] = "idle" /\ ~err[c]
  /\ wpc' = [wpc EXCEPT ![c][w] = "lock"]
  /\ wbuf' = [wbuf EXCEPT ![c][w] = d]
  /\ wrote' = [wrote EXCEPT ![c] = @ + 1]
  /\ UNCHANGED <<goVars, queues, rpc, cpc, closes, netVars, proc, fault>>

WriteLock(c, w) ==
  /\ wpc[c][w] = "lock" /\ Unlocked(c)
  /\ lck' = [lck EXCEPT ![c] = w]
  /\ wpc' = [wpc EXCEPT ![c][w] = "queue"]
  /\ UNCHANGED <<err, recvQ, sendWait, sendCount, pcbOf, esOf, tcpPcbs,
                 queues, rpc, wbuf, cpc, wrote, closes, netVars, proc, fault>>

WriteQueue(c, w) ==
  /\ wpc[c][w] = "queue" /\ Len(sendQ) < QueueCap
  /\ sendQ' = Append(sendQ, [conn |-> c, data |-> wbuf[c][w]])
  /\ wpc' = [wpc EXCEPT ![c][w] = "wait"]
  /\ UNCHANGED <<goVars, recvedQ, closeQ, rpc, wbuf, cpc, wrote, closes,
                 netVars, proc, fault>>

\* <-p.sendWait gives a token, or returns at once when the channel is closed.
WriteDone(c, w) ==
  /\ wpc[c][w] = "wait" /\ (sendWait[c] > 0 \/ err[c])
  /\ sendWait' = [sendWait EXCEPT ![c] = IF @ > 0 THEN @ - 1 ELSE @]
  /\ lck' = [lck EXCEPT ![c] = None]
  /\ wpc' = [wpc EXCEPT ![c][w] = "idle"]
  /\ UNCHANGED <<err, recvQ, sendCount, pcbOf, esOf, tcpPcbs, queues, rpc,
                 wbuf, cpc, wrote, closes, netVars, proc, fault>>

(* PCB.Close: PCB.close under the lock, then closeQueue <- p whether or    *)
(* not the connection had been closed before.                              *)

CloseLock(c) ==
  /\ pcbOf[c] # None /\ cpc[c] = "idle" /\ closes[c] < MaxCloses
  /\ Unlocked(c)
  /\ err' = [err EXCEPT ![c] = TRUE]
  /\ cpc' = [cpc EXCEPT ![c] = "queue"]
  /\ closes' = [closes EXCEPT ![c] = @ + 1]
  /\ UNCHANGED <<lck, recvQ, sendWait, sendCount, pcbOf, esOf, tcpPcbs,
                 queues, rpc, wpc, wbuf, wrote, netVars, proc, fault>>

CloseQueue(c) ==
  /\ cpc[c] = "queue" /\ Len(closeQ) < QueueCap
  /\ closeQ' = Append(closeQ, c)
  /\ cpc' = [cpc EXCEPT ![c] = "idle"]
  /\ UNCHANGED <<goVars, sendQ, recvedQ, rpc, wpc, wbuf, wrote, closes,
                 netVars, proc, fault>>

-----------------------------------------------------------------------------
Init ==
  /\ err = [c \in Conns |-> FALSE]
  /\ lck = [c \in Conns |-> None]
  /\ recvQ = [c \in Conns |-> <<>>]
  /\ sendWait = [c \in Conns |-> 0]
  /\ sendCount = [c \in Conns |-> 0]
  /\ pcbOf = [c \in Conns |-> None]
  /\ esOf = [c \in Conns |-> None]
  /\ tcpPcbs = [e \in Heap |-> None]
  /\ sendQ = <<>> /\ recvedQ = <<>> /\ closeQ = <<>>
  /\ rpc = [c \in Conns |-> "idle"]
  /\ wpc = [c \in Conns |-> [w \in Writers |-> "idle"]]
  /\ wbuf = [c \in Conns |-> [w \in Writers |-> 0]]
  /\ cpc = [c \in Conns |-> "idle"]
  /\ wrote = [c \in Conns |-> 0]
  /\ closes = [c \in Conns |-> 0]
  /\ es = [e \in Heap |-> FreeEs]
  /\ pcb = [a \in Blocks |-> FreePcb]
  /\ peerSent = [c \in Conns |-> 0]
  /\ peerFin = [c \in Conns |-> FALSE]
  /\ stream = [c \in Conns |-> <<>>]
  /\ proc = Idle
  /\ fault = "none"

\* Segments: one iteration of the select takes a frame from inputQueue and
\* runs cs_netif_proc.
Input ==
  \/ \E c \in Conns, a \in Blocks, e \in Heap : Accept(c, a, e)
  \/ \E a \in Blocks : RecvData(a)
  \/ \E a \in Blocks : RecvDataClosed(a)
  \/ \E a \in Blocks : ReplayRefused(a)
  \/ \E a \in Blocks : RecvFin(a)
  \/ \E a \in Blocks : RecvRst(a)
  \/ \E a \in Blocks : RecvLastAck(a)
  \/ \E a \in Blocks : KillPrio(a)
  \/ \E a \in Blocks, n \in 1 .. SndBuf : RecvAck(a, n)

\* Proc going on inside a callback, and the other cases of its select.
Proc == \/ ProcRecvPut
        \/ ProcDonePut
        \/ ProcRawClose
        \/ ProcRecved
        \/ ProcClose
        \/ ProcSend

Read(c) ==
  ReadCheck(c) \/ ReadGet(c) \/ ReadSmall(c) \/ ReadEnd(c) \/ ReadCredit(c)

WriteRest(c, w) == WriteLock(c, w) \/ WriteQueue(c, w) \/ WriteDone(c, w)

\* An application that reads, writes from several goroutines and closes.
App ==
  \E c \in Conns :
    \/ Read(c)
    \/ \E w \in Writers :
         \/ wrote[c] < MaxWrites /\ WriteCheck(c, w, wrote[c] + 1)
         \/ WriteRest(c, w)
    \/ CloseLock(c)
    \/ CloseQueue(c)

\* A panic ends the process and a double free leaves lwIP's pools corrupt:
\* the model says nothing about what follows.
Next == fault = "none" /\ (Input \/ Proc \/ App)

Spec == Init /\ [][Next]_vars
-----------------------------------------------------------------------------
(* Properties.                                                             *)

\* Every field and channel of the bridge keeps its type; sendWait
\* (make(chan int, 1)) holds at most one token, a block's window and send
\* buffer stay within TCP_WND and TCP_SND_BUF.
TypeOK ==
  /\ err \in [Conns -> BOOLEAN]
  /\ lck \in [Conns -> Writers \cup {None}]
  /\ recvQ \in [Conns -> Seq(Chunks)]
  /\ sendWait \in [Conns -> 0 .. 1]
  /\ sendCount \in [Conns -> Nat]
  /\ pcbOf \in [Conns -> Blocks \cup {None}]
  /\ esOf \in [Conns -> Heap \cup {None}]
  /\ tcpPcbs \in [Heap -> Conns \cup {None}]
  /\ sendQ \in Seq(Entries)
  /\ recvedQ \in Seq(Conns)
  /\ closeQ \in Seq(Conns)
  /\ rpc \in [Conns -> {"idle", "recv", "credit", "done"}]
  /\ wpc \in [Conns -> [Writers -> {"idle", "lock", "queue", "wait"}]]
  /\ wbuf \in [Conns -> [Writers -> Data \cup {0}]]
  /\ cpc \in [Conns -> {"idle", "queue"}]
  /\ wrote \in [Conns -> Nat]
  /\ closes \in [Conns -> 0 .. MaxCloses]
  /\ es \in [Heap -> EsRec]
  /\ pcb \in [Blocks -> PcbRec]
  /\ peerSent \in [Conns -> 0 .. MaxData]
  /\ peerFin \in [Conns -> BOOLEAN]
  /\ stream \in [Conns -> Seq(Segments)]
  /\ proc \in ProcRec
  /\ fault \in {"none", "panic", "pcb", "pbuf"}

\* p.lck is held exactly by the Write between its Lock and its Unlock
\* (lwipcs.go:143-149): two Writes of a connection never overlap.
LockHeld ==
  \A c \in Conns, w \in Writers :
    lck[c] = w <=> wpc[c][w] \in {"queue", "wait"}

\* Where the credit of the outstanding Write of connection c can be.
Queued(c) == \E i \in 1 .. Len(sendQ) : sendQ[i].conn = c
Giving(c) == proc.at = "done" /\ proc.conn = c
Waiting(c) == \E w \in Writers : wpc[c][w] = "wait"

\* Send credit is conserved: as long as connection c is open, a Write waits on
\* sendWait exactly when its entry is in sendQueue, or it is counted in
\* sendCount, or Proc is about to hand over its token, or the token is in the
\* channel, and in one of these places only (Write, Send, go_tcp_send_done_h).
SendCredit ==
  \A c \in Conns : ~err[c] =>
    /\ Waiting(c) <=> (Queued(c) \/ sendCount[c] > 0 \/ Giving(c)
                         \/ sendWait[c] > 0)
    /\ sendCount[c] <= 1
    /\ Queued(c) => sendCount[c] = 0 /\ ~Giving(c) /\ sendWait[c] = 0
    /\ sendCount[c] > 0 => ~Giving(c) /\ sendWait[c] = 0
    /\ Giving(c) => sendWait[c] = 0
    /\ \A i, j \in 1 .. Len(sendQ) :
         sendQ[i].conn = c /\ sendQ[j].conn = c => i = j

\* go_tcp_send_done_h never blocks Proc and never panics: when it sends on
\* sendWait the channel is open and has room, although it looked at p.err
\* without the lock (lwipcs.go:256-263).
TokenHasRoom ==
  proc.at = "done" => ~err[proc.conn] /\ sendWait[proc.conn] = 0

\* tcpPcbs holds exactly the connections whose cs_tcp_raw_state is allocated,
\* under the address the PCB was made with (go_tcp_accept_h, go_tcp_close_h,
\* cs_tcp_raw_free): no entry outlives its es, no es loses its entry except
\* inside cs_tcp_raw_close.
RegistryMatchesHeap ==
  \A e \in Heap :
    /\ es[e].live <=> (tcpPcbs[e] # None \/ (proc.at = "close" /\ proc.es = e))
    /\ tcpPcbs[e] # None => esOf[tcpPcbs[e]] = e

\* LWIP_ASSERT("arg != NULL") in the callbacks of tcp.c: a block that can
\* still get a callback carries a live cs_tcp_raw_state that points back at it,
\* so that no other such block carries it, and under whose address tcpPcbs has
\* the PCB of this very connection, also when block and address had another
\* owner before.
CallbackArgLive ==
  \A a \in Blocks :
    pcb[a].st \in {"ESTABLISHED", "FIN_WAIT"} /\ proc.pcb # a =>
      /\ pcb[a].arg # None
      /\ es[pcb[a].arg].live /\ es[pcb[a].arg].pcb = a
      /\ tcpPcbs[pcb[a].arg] = pcb[a].conn

\* ES_CLOSING is never seen by a callback: cs_tcp_raw_recv sets it and frees
\* the es before it returns, so no code path defers a close to cs_tcp_send or
\* cs_tcp_raw_poll.
ClosingIsTransient ==
  \A e \in Heap :
    es[e].state = "CLOSING" => proc.at = "close" /\ proc.es = e

\* The chunks of connection c that the peer has sent and tcp_recved not seen.
InFlight(c) ==
  Len(recvQ[c])
    + Cardinality({i \in 1 .. Len(recvedQ) : recvedQ[i] = c})
    + (IF rpc[c] = "credit" THEN 1 ELSE 0)
    + (IF proc.at = "recv" /\ proc.conn = c THEN 1 ELSE 0)

\* The receive window of an open connection is exactly what has not been read
\* to the end: chunks in Proc's hand, in recvQueued, in Read's hand, or in
\* recvedQueue on the way to tcp_recved.  No chunk closes the window for good
\* and none opens it twice.
WindowConserved ==
  \A a \in Blocks :
    LET c == pcb[a].conn IN
    pcb[a].st = "ESTABLISHED" /\ ~err[c] => pcb[a].unread = InFlight(c)

\* The send on recvQueued in go_tcp_recv_h, and the one on sendWait, find the
\* channel open.
NoPanic == fault # "panic"

\* What an open PCB holds is live: its es is allocated and its tcp_pcb block
\* still carries this connection, unless Proc is just closing it.
LiveHandles ==
  \A c \in Conns :
    pcbOf[c] # None /\ ~err[c] /\ ~(proc.at = "close" /\ proc.conn = c) =>
      /\ es[esOf[c]].live /\ tcpPcbs[esOf[c]] = c
      /\ pcb[pcbOf[c]].conn = c /\ pcb[pcbOf[c]].st = "ESTABLISHED"
      /\ pcb[pcbOf[c]].arg = esOf[c]

\* "Close will close pcb" (lwipcs.go:157): the tcp_close that go_netif_proc
\* makes for a Close of connection c is applied to a block that carries c.
CloseOwnBlock ==
  [][closeQ # <<>> /\ closeQ' = Tail(closeQ)
       => pcb[pcbOf[Head(closeQ)]].conn = Head(closeQ)]_vars

\* No tcp_close of go_netif_proc hits a block that carries another connection:
\* what CloseOwnBlock asks for, but that a block may have been freed meanwhile.
CloseNotForeign ==
  [][closeQ # <<>> /\ closeQ' = Tail(closeQ)
       => pcb[pcbOf[Head(closeQ)]].conn \in {None, Head(closeQ)}]_vars
=============================================================================
