-------------------------- MODULE TcpBridgeProofs --------------------------
(***************************************************************************)
(* Proofs about TcpBridge and TcpEcho, for any number of connections,      *)
(* writers, blocks and es addresses, any capacities, and any environment   *)
(* Env unless the theorem says otherwise.                                  *)
(*                                                                         *)
(* SendCredit is not inductive alone: that the credit of a Write is in one *)
(* place needs the lock (LockHeld), that the hand-over in Proc cannot be   *)
(* overtaken by Close needs TokenHasRoom, and that every callback finds a  *)
(* block, an es and a connection of the right kind needs the structural    *)
(* part Base.  The inductive invariant is IInv == Base /\ Credit.          *)
(*                                                                         *)
(* On top of it, each part resting on the ones before:                     *)
(*   Handles   tcpPcbs, the es and the blocks refer to one another;        *)
(*   Opens     a PCB without error has its own established block;          *)
(*   Window    what the peer may not send is in the channels or in a hand; *)
(*   EchoIInv  all of these and what an application without Close adds;    *)
(*   PipeInv   the chunks from recvQueued through io.Copy and es->p to the *)
(*             stream are numbered on, from which the refinement follows.  *)
(*                                                                         *)
(* One lemma per action shows that it keeps a part (names in ...Base,      *)
(* ...Credit, ...Handles and so on); frame lemmas do the actions that      *)
(* leave what the part is about alone.                                     *)
(***************************************************************************)
EXTENDS TcpEcho, FiniteSetTheorems, TLAPS

\* What Proc carries through a callback: a connection and a chunk for a channel
\* send, a block and an es for cs_tcp_raw_close, and there a block that its
\* tcp_close takes to a state without callbacks.
ProcOK ==
  /\ proc.at \in {"recv", "done"} => proc.conn \in Conns
  /\ proc.at = "recv" => proc.data \in Chunks
  /\ proc.at = "close" =>
       /\ proc.pcb \in Blocks /\ proc.es \in Heap
       /\ proc.how = "reset"
            \/ pcb[proc.pcb].st \in {"CLOSE_WAIT", "TIME_WAIT", "FREE"}

\* What a tcp_pcb block carries: a connection unless it is free, an es whenever
\* it can get a callback; CLOSE_WAIT lasts only while cs_tcp_raw_close runs.
BlockOK ==
  \A a \in Blocks :
    /\ pcb[a].st # "FREE" => pcb[a].conn \in Conns
    /\ pcb[a].st = "CLOSE_WAIT" => proc.at = "close" /\ proc.pcb = a
    /\ pcb[a].st \in {"ESTABLISHED", "FIN_WAIT"} =>
         pcb[a].arg \in Heap \/ (proc.at = "close" /\ proc.pcb = a)

\* A PCB gets its block and its es together, and only a PCB that has them is
\* written to or queued in sendQueue.
MadeOK ==
  /\ \A c \in Conns : pcbOf[c] # None => esOf[c] # None
  /\ \A c \in Conns, w \in Writers :
       wpc[c][w] # "idle" => pcbOf[c] # None /\ wbuf[c][w] \in Data
  /\ \A i \in 1 .. Len(sendQ) : pcbOf[sendQ[i].conn] # None

\* The structural part of the invariant.
Base == TypeOK /\ ProcOK /\ BlockOK /\ MadeOK

\* The part about the lock and the send credit.
Credit == LockHeld /\ SendCredit /\ TokenHasRoom

\* The inductive invariant of TcpBridge.
IInv == Base /\ Credit

USE DEF goVars, queues, appVars, netVars

-----------------------------------------------------------------------------
(* Facts about the records and sequences of the model.                     *)

\* Every element of sendQueue names a connection and the data of a Write.
LEMMA EntryType ==
  ASSUME NEW s \in Seq(Entries), NEW i \in 1 .. Len(s)
  PROVE  s[i] \in Entries /\ s[i].conn \in Conns /\ s[i].data \in Data
<1>1. s[i] \in Entries
  OBVIOUS
<1> QED BY <1>1 DEF Entries

\* Released records are records of their type.
LEMMA FreeTypes ==
  FreePcb \in PcbRec /\ FreePcb.st = "FREE" /\ FreeEs \in EsRec
    /\ Idle \in ProcRec /\ Idle.at = "idle"
BY CapAssumption DEF FreePcb, FreeEs, Idle, PcbRec, EsRec, ProcRec, PcbStates

\* cs_tcp_raw_accept fills a block and an es of the right type.
LEMMA NewTypes ==
  ASSUME NEW c \in Conns, NEW a \in Blocks, NEW e \in Heap
  PROVE  /\ NewPcb(c, e) \in PcbRec /\ NewEs(a) \in EsRec
         /\ NewPcb(c, e).st = "ESTABLISHED" /\ NewPcb(c, e).conn = c
         /\ NewPcb(c, e).arg = e
BY CapAssumption DEF NewPcb, PcbRec, PcbStates, NewEs, EsRec

\* Proc inside a channel send.
LEMMA SendingType ==
  ASSUME NEW at \in {"recv", "done"}, NEW c \in Conns, NEW d \in Chunks \cup {0}
  PROVE  /\ Sending(at, c, d) \in ProcRec
         /\ Sending(at, c, d).at = at /\ Sending(at, c, d).conn = c
         /\ Sending(at, c, d).data = d
BY DEF Sending, ProcRec

\* Proc inside cs_tcp_raw_close.
LEMMA ClosingType ==
  ASSUME NEW c \in Conns \cup {None}, NEW e \in Heap, NEW a \in Blocks,
         NEW how \in {"fin", "reset", "abort"}
  PROVE  /\ Closing(c, e, a, how) \in ProcRec
         /\ Closing(c, e, a, how).at = "close"
         /\ Closing(c, e, a, how).pcb = a /\ Closing(c, e, a, how).es = e
         /\ Closing(c, e, a, how).how = how
BY DEF Closing, ProcRec

\* tcp_close keeps the block's connection, leaves no block in CLOSE_WAIT and
\* makes none active.
LEMMA TcpCloseType ==
  ASSUME NEW b \in PcbRec
  PROVE  /\ TcpClose(b) \in PcbRec
         /\ TcpClose(b).st # "CLOSE_WAIT"
         /\ TcpClose(b).st # "FREE" => TcpClose(b).conn = b.conn /\ b.st # "FREE"
         /\ TcpClose(b).st \in {"ESTABLISHED", "FIN_WAIT"} =>
              /\ TcpClose(b).arg = b.arg
              /\ b.st \in {"ESTABLISHED", "FIN_WAIT"}
<1>1. CASE b.st \in {"ESTABLISHED", "CLOSE_WAIT"} /\ Unread(b)
  <2>1. TcpClose(b) = FreePcb
    BY <1>1 DEF TcpClose
  <2> QED BY <2>1, FreeTypes
<1>2. CASE b.st = "ESTABLISHED" /\ ~Unread(b)
  <2>1. TcpClose(b) = [b EXCEPT !.st = "FIN_WAIT"]
    BY <1>2 DEF TcpClose
  <2> QED BY <1>2, <2>1 DEF PcbRec, PcbStates
<1>3. CASE b.st = "CLOSE_WAIT" /\ ~Unread(b)
  <2>1. TcpClose(b) = [b EXCEPT !.st = "LAST_ACK"]
    BY <1>3 DEF TcpClose
  <2> QED BY <1>3, <2>1 DEF PcbRec, PcbStates
<1>4. CASE b.st \notin {"ESTABLISHED", "CLOSE_WAIT"}
  <2>1. TcpClose(b) = b
    BY <1>4 DEF TcpClose
  <2> QED BY <1>4, <2>1
<1> QED BY <1>1, <1>2, <1>3, <1>4

\* A block that is established after tcp_close was left alone by it.
LEMMA TcpCloseStill ==
  ASSUME NEW b \in PcbRec, TcpClose(b).st = "ESTABLISHED"
  PROVE  TcpClose(b) = b
<1>1. b.st \in {"ESTABLISHED", "CLOSE_WAIT"} /\ Unread(b) => FALSE
  BY FreeTypes DEF TcpClose
<1>2. b.st = "ESTABLISHED" /\ ~Unread(b) => FALSE
  <2>1. [b EXCEPT !.st = "FIN_WAIT"].st = "FIN_WAIT"
    BY DEF PcbRec
  <2> QED BY <2>1 DEF TcpClose
<1>3. b.st = "CLOSE_WAIT" /\ ~Unread(b) => FALSE
  <2>1. [b EXCEPT !.st = "LAST_ACK"].st = "LAST_ACK"
    BY DEF PcbRec
  <2> QED BY <2>1 DEF TcpClose
<1> QED BY <1>1, <1>2, <1>3 DEF TcpClose

\* tcp_close refuses nothing.
LEMMA TcpCloseRefused ==
  ASSUME NEW b \in PcbRec, ~b.refused
  PROVE  ~TcpClose(b).refused
<1>1. ~FreePcb.refused
  BY DEF FreePcb
<1>2. \A s \in PcbStates : ~[b EXCEPT !.st = s].refused
  BY DEF PcbRec
<1> QED BY <1>1, <1>2 DEF TcpClose, PcbStates

\* What tcp_close can go wrong with.
LEMMA FaultType == \A b : TcpCloseFault(b) \in {"none", "pcb", "pbuf"}
BY DEF TcpCloseFault

\* tcp_recved moves the window of a block only.
LEMMA RecvedType ==
  ASSUME NEW b \in PcbRec
  PROVE  /\ Recved(b) \in PcbRec /\ Recved(b).st = b.st
         /\ Recved(b).conn = b.conn /\ Recved(b).arg = b.arg
         /\ Recved(b).refused = b.refused
<1>1. CASE b.unread > 0
  <2>1. Recved(b) = [b EXCEPT !.unread = b.unread - 1]
    BY <1>1 DEF Recved
  <2>2. b.unread - 1 \in 0 .. TcpWnd
    BY <1>1, CapAssumption DEF PcbRec
  <2> QED BY <2>1, <2>2 DEF PcbRec
<1>2. CASE ~(b.unread > 0)
  BY <1>2 DEF Recved
<1> QED BY <1>1, <1>2

\* A Write becomes a chain of Segs segments.
LEMMA ChainType ==
  ASSUME NEW d \in Data
  PROVE  Chain(d) \in Seq(Segments) /\ Len(Chain(d)) = Segs
BY CapAssumption DEF Chain, Segments

\* cs_tcp_raw_send takes no more than the chain holds and the send buffer fits.
LEMMA CountsType ==
  ASSUME NEW st, NEW n \in Nat, NEW u \in 0 .. SndBuf,
         NEW m \in RawSendCounts(st, n, u)
  PROVE  m \in 0 .. n /\ u + m \in 0 .. SndBuf
BY CapAssumption DEF RawSendCounts

\* The callbacks may set es->state.
LEMMA EsStateType ==
  ASSUME NEW r \in EsRec
  PROVE  /\ [r EXCEPT !.state = "RECEIVED"] \in EsRec
         /\ [r EXCEPT !.state = "CLOSING"] \in EsRec
BY DEF EsRec

-----------------------------------------------------------------------------
(* The structural invariant: types, and what the callbacks rely on.        *)

\* The structural invariant holds before the first segment arrives.
LEMMA InitBase == Init => Base
<1> SUFFICES ASSUME Init PROVE Base
  OBVIOUS
<1>1. TypeOK
  BY FreeTypes, CapAssumption DEF Init, TypeOK
<1>2. ProcOK /\ BlockOK /\ MadeOK
  BY DEF Init, ProcOK, BlockOK, MadeOK, FreePcb, Idle
<1> QED BY <1>1, <1>2 DEF Base

\* Accepting a connection (cs_tcp_raw_accept, go_tcp_accept_h).
LEMMA AcceptBase ==
  ASSUME Base, NEW c \in Conns, NEW a \in Blocks, NEW e \in Heap,
         Accept(c, a, e)
  PROVE  Base'
<1>1. pcb' \in [Blocks -> PcbRec] /\ es' \in [Heap -> EsRec]
  BY NewTypes DEF Base, TypeOK, Accept
<1>2. TypeOK'
  BY <1>1 DEF Base, TypeOK, Accept, GoTcpAccept
<1>3. ProcOK'
  BY DEF Base, TypeOK, ProcOK, Accept
<1>4. BlockOK'
  BY NewTypes DEF Base, TypeOK, BlockOK, Accept
<1>5. \A x \in Conns : /\ pcbOf[x] # None => pcbOf'[x] # None
                       /\ pcbOf'[x] # None => esOf'[x] # None
  <2>1. a # None /\ e # None
    BY NoneAssumption
  <2>2. CASE tcpPcbs[e] = None
    BY <2>1, <2>2 DEF Base, TypeOK, MadeOK, Accept, GoTcpAccept
  <2>3. CASE tcpPcbs[e] # None
    BY <2>3 DEF Base, MadeOK, Accept, GoTcpAccept
  <2> QED BY <2>2, <2>3
<1>6. \A i \in 1 .. Len(sendQ) : sendQ[i].conn \in Conns
  BY EntryType DEF Base, TypeOK
<1>7. MadeOK'
  BY <1>5, <1>6 DEF Base, MadeOK, Accept
<1> QED BY <1>2, <1>3, <1>4, <1>7 DEF Base

\* Data for an open connection (cs_tcp_raw_recv, go_tcp_recv_h).
LEMMA RecvDataBase ==
  ASSUME Base, NEW a \in Blocks, RecvData(a)
  PROVE  Base'
<1> DEFINE e == pcb[a].arg
           c == tcpPcbs[e]
           x == pcb[a].conn
<1>1. /\ proc.at = "idle" /\ pcb[a] \in PcbRec /\ pcb[a].st = "ESTABLISHED"
      /\ pcb[a].unread < TcpWnd /\ peerSent[x] < MaxData
  BY DEF Base, TypeOK, RecvData
<1>2. e \in Heap /\ x \in Conns /\ c \in Conns \cup {None}
  BY <1>1 DEF Base, TypeOK, BlockOK
<1>3. es[e] \in EsRec
  BY <1>2 DEF Base, TypeOK
<1>4. es' \in [Heap -> EsRec]
  BY <1>2, <1>3, EsStateType DEF Base, TypeOK, RecvData
<1>5. pcb[a].unread + 1 \in 0 .. TcpWnd
  BY <1>1, CapAssumption DEF PcbRec
<1>6. PICK b \in PcbRec :
        /\ b.st = pcb[a].st /\ b.conn = pcb[a].conn /\ b.arg = pcb[a].arg
        /\ pcb' = [pcb EXCEPT ![a] = b]
  <2>1. CASE c = None \/ err[c]
    <3> DEFINE b == [pcb[a] EXCEPT !.unread = pcb[a].unread + 1,
                                   !.refused = TRUE]
    <3>1. pcb' = [pcb EXCEPT ![a] = b]
      BY <2>1, <1>1 DEF RecvData, Base, TypeOK
    <3>2. /\ b \in PcbRec /\ b.st = pcb[a].st /\ b.conn = pcb[a].conn
          /\ b.arg = pcb[a].arg
      BY <1>1, <1>5 DEF PcbRec
    <3> QED BY <3>1, <3>2
  <2>2. CASE ~(c = None \/ err[c])
    <3> DEFINE b == [pcb[a] EXCEPT !.unread = pcb[a].unread + 1]
    <3>1. pcb' = [pcb EXCEPT ![a] = b]
      BY <2>2, <1>1 DEF RecvData, Base, TypeOK
    <3>2. /\ b \in PcbRec /\ b.st = pcb[a].st /\ b.conn = pcb[a].conn
          /\ b.arg = pcb[a].arg
      BY <1>1, <1>5 DEF PcbRec
    <3> QED BY <3>1, <3>2
  <2> QED BY <2>1, <2>2
<1>7. pcb' \in [Blocks -> PcbRec]
  BY <1>6 DEF Base, TypeOK
<1>8. peerSent[x] + 1 \in Chunks /\ peerSent[x] + 1 \in 0 .. MaxData
  <2>1. peerSent[x] \in 0 .. MaxData
    BY <1>2 DEF Base, TypeOK
  <2> QED BY <2>1, <1>1, CapAssumption DEF Chunks
<1>9. peerSent' \in [Conns -> 0 .. MaxData]
  BY <1>8 DEF RecvData, Base, TypeOK
<1>10. \/ proc' = proc
       \/ c \in Conns /\ proc' = Sending("recv", c, peerSent[x] + 1)
  <2>1. CASE c = None \/ err[c]
    BY <2>1 DEF RecvData
  <2>2. CASE c # None /\ ~err[c]
    BY <1>2, <2>2 DEF RecvData
  <2> QED BY <2>1, <2>2
<1>11. proc' \in ProcRec /\ ProcOK' /\ proc'.at # "close"
  <2>1. CASE proc' = proc
    BY <1>1, <2>1 DEF Base, TypeOK, ProcOK
  <2>2. CASE c \in Conns /\ proc' = Sending("recv", c, peerSent[x] + 1)
    <3>1. /\ proc' \in ProcRec /\ proc'.at = "recv" /\ proc'.conn \in Conns
          /\ proc'.data \in Chunks
      BY <1>8, <2>2, SendingType
    <3> QED BY <3>1 DEF ProcOK
  <2> QED BY <1>10, <2>1, <2>2
<1>12. TypeOK'
  BY <1>4, <1>7, <1>11, <1>9 DEF Base, TypeOK, RecvData
<1>13. BlockOK'
  BY <1>1, <1>6, <1>11 DEF Base, TypeOK, BlockOK
<1>14. MadeOK'
  BY DEF Base, MadeOK, RecvData
<1> QED BY <1>11, <1>12, <1>13, <1>14 DEF Base

\* The first half of cs_tcp_raw_close, whoever calls it.
LEMMA EnterRawCloseBase ==
  ASSUME Base, NEW a \in Blocks, NEW e \in Heap, NEW b \in PcbRec,
         b.st # "FREE" => b.conn \in Conns,
         NEW how \in {"fin", "reset", "abort"},
         how = "reset" \/ b.st \in {"CLOSE_WAIT", "TIME_WAIT", "FREE"},
         proc.at = "idle", EnterRawClose(a, e, b, how)
  PROVE  /\ pcb' \in [Blocks -> PcbRec] /\ proc' \in ProcRec
         /\ tcpPcbs' \in [Heap -> Conns \cup {None}]
         /\ ProcOK' /\ BlockOK'
<1> DEFINE d == [b EXCEPT !.arg = None]
<1>1. d \in PcbRec /\ d.st = b.st /\ d.conn = b.conn
  BY DEF PcbRec
<1>2. pcb' = [pcb EXCEPT ![a] = d] /\ pcb' \in [Blocks -> PcbRec]
  BY <1>1 DEF EnterRawClose, Base, TypeOK
<1>3. tcpPcbs' \in [Heap -> Conns \cup {None}]
  BY DEF EnterRawClose, Base, TypeOK
<1>4. /\ tcpPcbs[e] \in Conns \cup {None}
      /\ proc' = Closing(tcpPcbs[e], e, a, how)
  BY DEF EnterRawClose, Base, TypeOK
<1>5. /\ proc' \in ProcRec /\ proc'.at = "close" /\ proc'.pcb = a
      /\ proc'.es = e /\ proc'.how = how
  BY <1>4, ClosingType
<1>6. ProcOK'
  BY <1>1, <1>2, <1>5 DEF ProcOK, Base, TypeOK
<1>7. BlockOK'
  BY <1>1, <1>2, <1>5 DEF Base, TypeOK, BlockOK
<1> QED BY <1>2, <1>3, <1>5, <1>6, <1>7

\* Data for a half-closed connection.
LEMMA RecvDataClosedBase ==
  ASSUME Base, NEW a \in Blocks, RecvDataClosed(a)
  PROVE  Base'
<1>1. /\ proc.at = "idle" /\ pcb[a].arg \in Heap
      /\ EnterRawClose(a, pcb[a].arg, FreePcb, "abort")
  BY DEF Base, BlockOK, RecvDataClosed
<1>2. /\ pcb' \in [Blocks -> PcbRec] /\ proc' \in ProcRec
      /\ tcpPcbs' \in [Heap -> Conns \cup {None}] /\ ProcOK' /\ BlockOK'
  BY <1>1, FreeTypes, EnterRawCloseBase
<1>3. pcb[a].conn \in Conns /\ peerSent[pcb[a].conn] < MaxData
  BY DEF Base, BlockOK, RecvDataClosed
<1>4. peerSent[pcb[a].conn] + 1 \in 0 .. MaxData
  <2>1. peerSent[pcb[a].conn] \in 0 .. MaxData
    BY <1>3 DEF Base, TypeOK
  <2> QED BY <2>1, <1>3, CapAssumption
<1>5. peerSent' \in [Conns -> 0 .. MaxData]
  BY <1>4 DEF RecvDataClosed, Base, TypeOK
<1>6. TypeOK'
  BY <1>2, <1>5 DEF Base, TypeOK, RecvDataClosed
<1>7. MadeOK'
  BY DEF Base, MadeOK, RecvDataClosed
<1> QED BY <1>2, <1>6, <1>7 DEF Base

\* FIN of the peer (cs_tcp_raw_recv with p = NULL).
LEMMA RecvFinBase ==
  ASSUME Base, NEW a \in Blocks, RecvFin(a)
  PROVE  Base'
<1> DEFINE e == pcb[a].arg
           s == IF pcb[a].st = "ESTABLISHED" THEN "CLOSE_WAIT" ELSE "TIME_WAIT"
           b == [pcb[a] EXCEPT !.st = s]
<1>1. /\ proc.at = "idle" /\ e \in Heap /\ pcb[a].conn \in Conns
      /\ pcb[a] \in PcbRec
  BY DEF Base, TypeOK, BlockOK, RecvFin
<1>2. /\ b \in PcbRec /\ b.conn = pcb[a].conn
      /\ b.st \in {"CLOSE_WAIT", "TIME_WAIT"}
  BY <1>1 DEF PcbRec, PcbStates
<1>3. EnterRawClose(a, e, b, "fin")
  BY DEF RecvFin
<1>4. /\ pcb' \in [Blocks -> PcbRec] /\ proc' \in ProcRec
      /\ tcpPcbs' \in [Heap -> Conns \cup {None}] /\ ProcOK' /\ BlockOK'
  <2> HIDE DEF b
  <2> QED BY <1>1, <1>2, <1>3, EnterRawCloseBase
<1>5. es' \in [Heap -> EsRec]
  <2>1. es[e] \in EsRec
    BY <1>1 DEF Base, TypeOK
  <2> QED BY <1>1, <2>1, EsStateType DEF RecvFin, Base, TypeOK
<1>6. TypeOK'
  BY <1>4, <1>5 DEF Base, TypeOK, RecvFin
<1>7. MadeOK'
  BY DEF Base, MadeOK, RecvFin
<1> QED BY <1>4, <1>6, <1>7 DEF Base

\* RST of the peer (cs_tcp_raw_error).
LEMMA RecvRstBase ==
  ASSUME Base, NEW a \in Blocks, RecvRst(a)
  PROVE  Base'
<1>1. /\ proc.at = "idle" /\ pcb[a].arg \in Heap /\ pcb[a].conn \in Conns
      /\ pcb[a] \in PcbRec /\ EnterRawClose(a, pcb[a].arg, pcb[a], "reset")
  BY DEF Base, TypeOK, BlockOK, RecvRst
<1>2. /\ pcb' \in [Blocks -> PcbRec] /\ proc' \in ProcRec
      /\ tcpPcbs' \in [Heap -> Conns \cup {None}] /\ ProcOK' /\ BlockOK'
  BY <1>1, EnterRawCloseBase
<1>3. TypeOK'
  BY <1>2 DEF Base, TypeOK, RecvRst
<1>4. MadeOK'
  BY DEF Base, MadeOK, RecvRst
<1> QED BY <1>2, <1>3, <1>4 DEF Base

\* An active connection aborted to make room (cs_tcp_raw_error).
LEMMA KillPrioBase ==
  ASSUME Base, NEW a \in Blocks, KillPrio(a)
  PROVE  Base'
<1>1. proc.at = "idle" /\ EnterRawClose(a, pcb[a].arg, FreePcb, "abort")
  BY DEF KillPrio
<1>2. \A b \in Blocks : pcb[b].st \notin {"FREE", "TIME_WAIT", "LAST_ACK"}
  BY DEF KillPrio, Allocatable
<1>3. pcb[a].st \in {"ESTABLISHED", "FIN_WAIT"}
  <2>1. pcb[a].st \in PcbStates
    BY DEF Base, TypeOK, PcbRec
  <2> QED BY <1>1, <1>2, <2>1 DEF Base, BlockOK, PcbStates
<1>4. pcb[a].arg \in Heap
  BY <1>1, <1>3 DEF Base, BlockOK
<1>5. /\ pcb' \in [Blocks -> PcbRec] /\ proc' \in ProcRec
      /\ tcpPcbs' \in [Heap -> Conns \cup {None}] /\ ProcOK' /\ BlockOK'
  BY <1>1, <1>4, FreeTypes, EnterRawCloseBase
<1>6. TypeOK'
  BY <1>5 DEF Base, TypeOK, KillPrio
<1>7. MadeOK'
  BY DEF Base, MadeOK, KillPrio
<1> QED BY <1>5, <1>6, <1>7 DEF Base

\* cs_tcp_raw_send changes only what is pending, unacknowledged and sent.
LEMMA RawSendTypes ==
  ASSUME Base, NEW a \in Blocks, NEW e \in Heap, NEW u \in 0 .. SndBuf,
         NEW ps \in Seq(Segments), RawSend(a, e, pcb[a], u, ps)
  PROVE  /\ pcb' \in [Blocks -> PcbRec] /\ es' \in [Heap -> EsRec]
         /\ stream' \in [Conns -> Seq(Segments)]
         /\ \A b \in Blocks : /\ pcb'[b].st = pcb[b].st
                              /\ pcb'[b].conn = pcb[b].conn
                              /\ pcb'[b].arg = pcb[b].arg
<1>1. PICK m \in RawSendCounts(pcb[a].st, Len(ps), u) :
        /\ pcb' = [pcb EXCEPT ![a] = [pcb[a] EXCEPT !.unacked = u + m]]
        /\ es' = [es EXCEPT ![e].p = SubSeq(ps, m + 1, Len(ps))]
        /\ stream' = [x \in Conns |-> IF x = pcb[a].conn
                                      THEN stream[x] \o SubSeq(ps, 1, m)
                                      ELSE stream[x]]
  BY DEF RawSend
<1>2. Len(ps) \in Nat /\ m \in 0 .. Len(ps) /\ u + m \in 0 .. SndBuf
  BY CountsType
<1>3. /\ SubSeq(ps, 1, m) \in Seq(Segments)
      /\ SubSeq(ps, m + 1, Len(ps)) \in Seq(Segments)
  BY <1>2
<1>4. stream' \in [Conns -> Seq(Segments)]
  <2>1. \A x \in Conns : stream[x] \in Seq(Segments)
    BY DEF Base, TypeOK
  <2> QED BY <1>1, <1>3, <2>1
<1>5. es' \in [Heap -> EsRec]
  <2>1. es[e] \in EsRec
    BY DEF Base, TypeOK
  <2>2. [es[e] EXCEPT !.p = SubSeq(ps, m + 1, Len(ps))] \in EsRec
    BY <1>3, <2>1 DEF EsRec
  <2> QED BY <1>1, <2>2 DEF Base, TypeOK
<1>6. /\ pcb' \in [Blocks -> PcbRec]
      /\ \A b \in Blocks : /\ pcb'[b].st = pcb[b].st
                           /\ pcb'[b].conn = pcb[b].conn
                           /\ pcb'[b].arg = pcb[b].arg
  <2> DEFINE d == [pcb[a] EXCEPT !.unacked = u + m]
  <2>1. pcb[a] \in PcbRec
    BY DEF Base, TypeOK
  <2>2. /\ d \in PcbRec /\ d.st = pcb[a].st /\ d.conn = pcb[a].conn
        /\ d.arg = pcb[a].arg
    BY <1>2, <2>1 DEF PcbRec
  <2> HIDE DEF d
  <2>3. pcb' = [pcb EXCEPT ![a] = d]
    BY <1>1 DEF d
  <2> QED BY <2>2, <2>3 DEF Base, TypeOK
<1> QED BY <1>4, <1>5, <1>6

\* A step that moves no block and no writer keeps the last three parts.
LEMMA FrameBase ==
  ASSUME Base, pcb' = pcb, proc' = proc, wpc' = wpc, wbuf' = wbuf,
         pcbOf' = pcbOf, esOf' = esOf, sendQ' = sendQ
  PROVE  ProcOK' /\ BlockOK' /\ MadeOK'
BY DEF Base, ProcOK, BlockOK, MadeOK

\* An ACK (cs_tcp_send, go_tcp_send_done_h).
LEMMA RecvAckBase ==
  ASSUME Base, NEW a \in Blocks, NEW n \in 1 .. SndBuf, RecvAck(a, n)
  PROVE  Base'
<1> DEFINE e == pcb[a].arg
           c == tcpPcbs[e]
           u == pcb[a].unacked - n
<1>1. /\ proc.at = "idle" /\ e \in Heap /\ pcb[a] \in PcbRec
      /\ n <= pcb[a].unacked
  BY DEF Base, TypeOK, BlockOK, RecvAck
<1>2. u \in 0 .. SndBuf
  BY <1>1, CapAssumption DEF PcbRec
<1>3. c \in Conns \cup {None} /\ es[e] \in EsRec
  BY <1>1 DEF Base, TypeOK
<1>4. /\ pcb' \in [Blocks -> PcbRec] /\ es' \in [Heap -> EsRec]
      /\ stream' \in [Conns -> Seq(Segments)]
      /\ \A b \in Blocks : /\ pcb'[b].st = pcb[b].st
                           /\ pcb'[b].conn = pcb[b].conn
                           /\ pcb'[b].arg = pcb[b].arg
  <2>1. CASE ~Drained(e)
    <3>1. RawSend(a, e, pcb[a], u, es[e].p)
      BY <2>1 DEF RecvAck
    <3>2. es[e].p \in Seq(Segments)
      BY <1>3 DEF EsRec
    <3> HIDE DEF u, e
    <3> QED BY <1>1, <1>2, <3>1, <3>2, RawSendTypes
  <2>2. CASE Drained(e)
    <3> DEFINE d == [pcb[a] EXCEPT !.unacked = u]
    <3>1. /\ d \in PcbRec /\ d.st = pcb[a].st /\ d.conn = pcb[a].conn
          /\ d.arg = pcb[a].arg
      BY <1>1, <1>2 DEF PcbRec
    <3>2. pcb' = [pcb EXCEPT ![a] = d] /\ es' = es /\ stream' = stream
      BY <2>2 DEF RecvAck, Base, TypeOK
    <3> HIDE DEF d
    <3> QED BY <3>1, <3>2 DEF Base, TypeOK
  <2> QED BY <2>1, <2>2
<1>5. \/ sendCount' = sendCount /\ proc' = proc
      \/ /\ c \in Conns /\ sendCount[c] > 0 /\ proc' = Sending("done", c, 0)
         /\ sendCount' = [sendCount EXCEPT ![c] = @ - 1]
  BY <1>3 DEF RecvAck, Owed
<1>6. sendCount' \in [Conns -> Nat]
  <2>1. CASE sendCount' = sendCount
    BY <2>1 DEF Base, TypeOK
  <2>2. CASE /\ c \in Conns /\ sendCount[c] > 0
             /\ sendCount' = [sendCount EXCEPT ![c] = @ - 1]
    <3>1. sendCount[c] \in Nat /\ sendCount[c] - 1 \in Nat
      BY <2>2 DEF Base, TypeOK
    <3> QED BY <2>2, <3>1 DEF Base, TypeOK
  <2> QED BY <1>5, <2>1, <2>2
<1>7. proc' \in ProcRec /\ ProcOK' /\ proc'.at # "close"
  BY <1>1, <1>5, SendingType DEF Base, TypeOK, ProcOK
<1>8. TypeOK'
  BY <1>4, <1>6, <1>7 DEF Base, TypeOK, RecvAck
<1>9. BlockOK'
  BY <1>1, <1>4, <1>7 DEF Base, BlockOK
<1>10. MadeOK'
  BY DEF Base, MadeOK, RecvAck
<1> QED BY <1>7, <1>8, <1>9, <1>10 DEF Base

\* lwIP offers a refused pbuf again.
LEMMA ReplayRefusedBase ==
  ASSUME Base, NEW a \in Blocks, ReplayRefused(a)
  PROVE  Base'
<1>1. TypeOK'
  BY DEF Base, TypeOK, ReplayRefused
<1> QED BY <1>1, FrameBase DEF Base, ReplayRefused

\* The last ACK of a closed connection.
LEMMA RecvLastAckBase ==
  ASSUME Base, NEW a \in Blocks, RecvLastAck(a)
  PROVE  Base'
<1>1. pcb' \in [Blocks -> PcbRec]
  BY FreeTypes DEF Base, TypeOK, RecvLastAck
<1>2. TypeOK'
  BY <1>1 DEF Base, TypeOK, RecvLastAck
<1>3. BlockOK'
  BY FreeTypes DEF Base, TypeOK, BlockOK, RecvLastAck
<1>4. ProcOK' /\ MadeOK'
  BY DEF Base, ProcOK, MadeOK, RecvLastAck
<1> QED BY <1>2, <1>3, <1>4 DEF Base

\* The send on recvQueued.
LEMMA ProcRecvPutBase ==
  ASSUME Base, ProcRecvPut
  PROVE  Base'
<1>1. proc.conn \in Conns /\ proc.data \in Chunks /\ proc.at = "recv"
  BY DEF Base, ProcOK, ProcRecvPut
<1>2. recvQ' \in [Conns -> Seq(Chunks)]
  <2>1. recvQ[proc.conn] \in Seq(Chunks)
    BY <1>1 DEF Base, TypeOK
  <2>2. Append(recvQ[proc.conn], proc.data) \in Seq(Chunks)
    BY <1>1, <2>1
  <2> QED BY <2>2 DEF ProcRecvPut, Base, TypeOK
<1>3. TypeOK'
  BY <1>2, FreeTypes DEF Base, TypeOK, ProcRecvPut
<1>4. ProcOK' /\ MadeOK'
  BY FreeTypes DEF Base, ProcOK, MadeOK, ProcRecvPut
<1>5. BlockOK'
  BY <1>1 DEF Base, BlockOK, ProcRecvPut
<1> QED BY <1>3, <1>4, <1>5 DEF Base

\* The send on sendWait.
LEMMA ProcDonePutBase ==
  ASSUME Base, ProcDonePut
  PROVE  Base'
<1>1. proc.conn \in Conns /\ proc.at = "done"
  BY DEF Base, ProcOK, ProcDonePut
<1>2. sendWait' \in [Conns -> 0 .. 1]
  <2>1. CASE err[proc.conn]
    BY <2>1 DEF ProcDonePut, Base, TypeOK
  <2>2. CASE ~err[proc.conn]
    <3>1. sendWait[proc.conn] \in 0 .. 1 /\ sendWait[proc.conn] < 1
      BY <1>1, <2>2 DEF ProcDonePut, Base, TypeOK
    <3>2. sendWait[proc.conn] + 1 \in 0 .. 1
      BY <3>1
    <3> QED BY <2>2, <3>2 DEF ProcDonePut, Base, TypeOK
  <2> QED BY <2>1, <2>2
<1>3. TypeOK'
  BY <1>2, FreeTypes DEF Base, TypeOK, ProcDonePut
<1>4. ProcOK' /\ MadeOK'
  BY FreeTypes DEF Base, ProcOK, MadeOK, ProcDonePut
<1>5. BlockOK'
  BY <1>1 DEF Base, BlockOK, ProcDonePut
<1> QED BY <1>3, <1>4, <1>5 DEF Base

\* The second half of cs_tcp_raw_close.
LEMMA ProcRawCloseBase ==
  ASSUME Base, ProcRawClose
  PROVE  Base'
<1> DEFINE a == proc.pcb
           b == IF proc.how = "reset" THEN FreePcb ELSE TcpClose(pcb[a])
<1>1. a \in Blocks /\ proc.es \in Heap /\ proc.at = "close"
  BY DEF Base, ProcOK, ProcRawClose
<1>2. pcb[a] \in PcbRec
  BY <1>1 DEF Base, TypeOK
<1>3. /\ b \in PcbRec /\ b.st # "CLOSE_WAIT"
      /\ b.st # "FREE" => b.conn \in Conns
  BY <1>1, <1>2, FreeTypes, TcpCloseType DEF Base, BlockOK
<1>4. b.st \notin {"ESTABLISHED", "FIN_WAIT"} \/ b.arg \in Heap
  BY <1>1, <1>2, FreeTypes, TcpCloseType DEF Base, ProcOK
<1>5. pcb' = [pcb EXCEPT ![a] = b] /\ proc' = Idle
  BY DEF ProcRawClose
<1> HIDE DEF b
<1>6. TypeOK'
  BY <1>3, <1>5, FreeTypes, FaultType DEF Base, TypeOK, ProcRawClose
<1>7. ProcOK' /\ MadeOK'
  BY FreeTypes DEF Base, ProcOK, MadeOK, ProcRawClose
<1>8. BlockOK'
  BY <1>1, <1>3, <1>4, <1>5 DEF Base, TypeOK, BlockOK
<1> QED BY <1>6, <1>7, <1>8 DEF Base

\* The case of recvedQueue in go_netif_proc.
LEMMA ProcRecvedBase ==
  ASSUME Base, ProcRecved
  PROVE  Base'
<1> DEFINE c == Head(recvedQ)
           a == pcbOf[c]
<1>1. recvedQ' \in Seq(Conns)
  BY DEF ProcRecved, Base, TypeOK
<1>2. \A x \in Blocks : pcb[x] \in PcbRec
  BY DEF Base, TypeOK
<1>3. /\ pcb' \in [Blocks -> PcbRec]
      /\ \A x \in Blocks : /\ pcb'[x].st = pcb[x].st
                           /\ pcb'[x].conn = pcb[x].conn
                           /\ pcb'[x].arg = pcb[x].arg
  <2>1. pcb' = pcb \/ pcb' = [pcb EXCEPT ![a] = Recved(pcb[a])]
    BY DEF ProcRecved
  <2>2. CASE pcb' = pcb
    BY <2>2 DEF Base, TypeOK
  <2>3. CASE a \in Blocks /\ pcb' = [pcb EXCEPT ![a] = Recved(pcb[a])]
    <3>1. /\ Recved(pcb[a]) \in PcbRec /\ Recved(pcb[a]).st = pcb[a].st
          /\ Recved(pcb[a]).conn = pcb[a].conn
          /\ Recved(pcb[a]).arg = pcb[a].arg
      BY <1>2, <2>3, RecvedType
    <3> QED BY <2>3, <3>1 DEF Base, TypeOK
  <2>4. CASE a \notin Blocks /\ pcb' = [pcb EXCEPT ![a] = Recved(pcb[a])]
    BY <2>4 DEF Base, TypeOK
  <2> QED BY <2>1, <2>2, <2>3, <2>4
<1>4. TypeOK'
  BY <1>1, <1>3 DEF Base, TypeOK, ProcRecved
<1>5. ProcOK' /\ BlockOK'
  BY <1>3 DEF Base, ProcOK, BlockOK, ProcRecved
<1>6. MadeOK'
  BY DEF Base, MadeOK, ProcRecved
<1> QED BY <1>4, <1>5, <1>6 DEF Base

\* The case of closeQueue in go_netif_proc.
LEMMA ProcCloseBase ==
  ASSUME Base, ProcClose
  PROVE  Base'
<1> DEFINE a == pcbOf[Head(closeQ)]
<1>1. closeQ' \in Seq(Conns) /\ proc.at = "idle" /\ proc' = proc
  BY DEF ProcClose, Base, TypeOK
<1>2. \A x \in Blocks : pcb[x] \in PcbRec
  BY DEF Base, TypeOK
<1>3. pcb' = [pcb EXCEPT ![a] = TcpClose(pcb[a])]
  BY DEF ProcClose
<1>4. pcb' \in [Blocks -> PcbRec]
  BY <1>2, <1>3, TcpCloseType DEF Base, TypeOK
<1>5. \A x \in Blocks : pcb'[x] = pcb[x] \/ pcb'[x] = TcpClose(pcb[x])
  BY <1>3 DEF Base, TypeOK
<1>6. BlockOK'
  BY <1>1, <1>2, <1>5, TcpCloseType DEF Base, BlockOK
<1>7. TypeOK'
  BY <1>1, <1>4, FaultType DEF Base, TypeOK, ProcClose
<1>8. ProcOK' /\ MadeOK'
  BY <1>1 DEF Base, ProcOK, MadeOK, ProcClose
<1> QED BY <1>6, <1>7, <1>8 DEF Base

\* The case of sendQueue in go_netif_proc (sendEntry.Send).
LEMMA ProcSendBase ==
  ASSUME Base, ProcSend
  PROVE  Base'
<1> DEFINE s == Head(sendQ)
           c == s.conn
           e == esOf[c]
           a == pcbOf[c]
<1>1. sendQ \in Seq(Entries) /\ sendQ # <<>> /\ sendQ' = Tail(sendQ)
  BY DEF ProcSend, Base, TypeOK
<1>2. /\ s = sendQ[1] /\ 1 \in 1 .. Len(sendQ) /\ sendQ' \in Seq(Entries)
      /\ Len(sendQ') = Len(sendQ) - 1
      /\ \A i \in 1 .. Len(sendQ') : /\ i + 1 \in 1 .. Len(sendQ)
                                     /\ sendQ'[i] = sendQ[i + 1]
  BY <1>1
<1>3. s \in Entries /\ c \in Conns /\ s.data \in Data
  BY <1>1, <1>2, EntryType
<1>4. a \in Blocks /\ e \in Heap
  BY <1>2, <1>3 DEF Base, TypeOK, MadeOK
<1>5. /\ pcb' \in [Blocks -> PcbRec] /\ es' \in [Heap -> EsRec]
      /\ stream' \in [Conns -> Seq(Segments)]
      /\ \A b \in Blocks : /\ pcb'[b].st = pcb[b].st
                           /\ pcb'[b].conn = pcb[b].conn
                           /\ pcb'[b].arg = pcb[b].arg
  <2>1. CASE UNCHANGED <<es, pcb, stream>>
    BY <2>1 DEF Base, TypeOK
  <2>2. CASE RawSend(a, e, pcb[a], pcb[a].unacked, Chain(s.data))
    <3>1. Chain(s.data) \in Seq(Segments)
      BY <1>3, ChainType
    <3>2. pcb[a].unacked \in 0 .. SndBuf
      BY <1>4 DEF Base, TypeOK, PcbRec
    <3> HIDE DEF a, e, s
    <3> QED BY <1>4, <2>2, <3>1, <3>2, RawSendTypes
  <2> QED BY <2>1, <2>2 DEF ProcSend
<1>6. sendCount' \in [Conns -> Nat]
  <2>1. sendCount[c] + 1 \in Nat
    BY <1>3 DEF Base, TypeOK
  <2>2. \/ sendCount' = sendCount
        \/ sendCount' = [sendCount EXCEPT ![c] = sendCount[c] + 1]
    BY DEF ProcSend
  <2> QED BY <2>1, <2>2 DEF Base, TypeOK
<1>7. TypeOK'
  BY <1>2, <1>5, <1>6 DEF Base, TypeOK, ProcSend
<1>8. ProcOK' /\ BlockOK'
  BY <1>5 DEF Base, ProcOK, BlockOK, ProcSend
<1>9. MadeOK'
  BY <1>2 DEF Base, MadeOK, ProcSend
<1> QED BY <1>7, <1>8, <1>9 DEF Base

\* The steps of PCB.Read.
LEMMA ReadBase ==
  ASSUME Base, NEW c \in Conns, Read(c)
  PROVE  Base'
<1>1. CASE ReadCheck(c)
  BY <1>1, FrameBase DEF Base, TypeOK, ReadCheck
<1>2. CASE ReadGet(c)
  <2>1. recvQ' \in [Conns -> Seq(Chunks)]
    <3>1. recvQ[c] \in Seq(Chunks) /\ recvQ[c] # <<>>
      BY <1>2 DEF ReadGet, Base, TypeOK
    <3>2. Tail(recvQ[c]) \in Seq(Chunks)
      BY <3>1
    <3> QED BY <1>2, <3>2 DEF ReadGet, Base, TypeOK
  <2>2. TypeOK'
    BY <1>2, <2>1 DEF Base, TypeOK, ReadGet
  <2> QED BY <1>2, <2>2, FrameBase DEF Base, ReadGet
<1>3. CASE ReadEnd(c)
  BY <1>3, FrameBase DEF Base, TypeOK, ReadEnd
<1>4. CASE ReadCredit(c)
  <2>1. recvedQ' \in Seq(Conns)
    BY <1>4 DEF ReadCredit, Base, TypeOK
  <2>2. TypeOK'
    BY <1>4, <2>1 DEF Base, TypeOK, ReadCredit
  <2> QED BY <1>4, <2>2, FrameBase DEF Base, ReadCredit
<1>5. CASE ReadSmall(c)
  <2>1. TypeOK'
    BY <1>5 DEF Base, TypeOK, ReadSmall, goVars, queues, appVars, netVars
  <2> QED BY <1>5, <2>1, FrameBase
          DEF Base, ReadSmall, goVars, queues, appVars, netVars
<1> QED BY <1>1, <1>2, <1>3, <1>4, <1>5 DEF Read

\* The steps of PCB.Close.
LEMMA CloseBase ==
  ASSUME Base, NEW c \in Conns, CloseLock(c) \/ CloseQueue(c)
  PROVE  Base'
<1>1. CASE CloseLock(c)
  <2>1. closes' \in [Conns -> 0 .. MaxCloses]
    <3>1. closes[c] \in 0 .. MaxCloses /\ closes[c] < MaxCloses
      BY <1>1 DEF CloseLock, Base, TypeOK
    <3>2. closes[c] + 1 \in 0 .. MaxCloses
      BY <3>1, CapAssumption
    <3> QED BY <1>1, <3>2 DEF CloseLock, Base, TypeOK
  <2>2. TypeOK'
    BY <1>1, <2>1 DEF Base, TypeOK, CloseLock
  <2> QED BY <1>1, <2>2, FrameBase DEF Base, CloseLock
<1>2. CASE CloseQueue(c)
  <2>1. closeQ' \in Seq(Conns)
    BY <1>2 DEF CloseQueue, Base, TypeOK
  <2>2. TypeOK'
    BY <1>2, <2>1 DEF Base, TypeOK, CloseQueue
  <2> QED BY <1>2, <2>2, FrameBase DEF Base, CloseQueue
<1> QED BY <1>1, <1>2

\* The steps of PCB.Write.
LEMMA WriteBase ==
  ASSUME Base, NEW c \in Conns, NEW w \in Writers, NEW d \in Data,
         WriteCheck(c, w, d) \/ WriteRest(c, w)
  PROVE  Base'
<1>1. CASE WriteCheck(c, w, d)
  <2>1. TypeOK'
    <3>1. wpc' \in [Conns -> [Writers -> {"idle", "lock", "queue", "wait"}]]
      BY <1>1 DEF Base, TypeOK, WriteCheck
    <3>2. wbuf' \in [Conns -> [Writers -> Data \cup {0}]]
      BY <1>1 DEF Base, TypeOK, WriteCheck
    <3>3. wrote' \in [Conns -> Nat]
      BY <1>1 DEF Base, TypeOK, WriteCheck
    <3> QED BY <1>1, <3>1, <3>2, <3>3 DEF Base, TypeOK, WriteCheck
  <2>2. MadeOK'
    BY <1>1 DEF Base, TypeOK, MadeOK, WriteCheck
  <2>3. ProcOK' /\ BlockOK'
    BY <1>1 DEF Base, ProcOK, BlockOK, WriteCheck
  <2> QED BY <2>1, <2>2, <2>3 DEF Base
<1>2. CASE WriteLock(c, w)
  <2>1. TypeOK'
    BY <1>2 DEF Base, TypeOK, WriteLock
  <2>2. MadeOK'
    BY <1>2 DEF Base, TypeOK, MadeOK, WriteLock
  <2>3. ProcOK' /\ BlockOK'
    BY <1>2 DEF Base, ProcOK, BlockOK, WriteLock
  <2> QED BY <2>1, <2>2, <2>3 DEF Base
<1>3. CASE WriteQueue(c, w)
  <2> DEFINE s == [conn |-> c, data |-> wbuf[c][w]]
  <2>1. s \in Entries /\ s.conn = c /\ pcbOf[c] # None
    BY <1>3 DEF Entries, Base, MadeOK, WriteQueue
  <2>2. sendQ \in Seq(Entries) /\ sendQ' = Append(sendQ, s)
    BY <1>3 DEF Base, TypeOK, WriteQueue
  <2> HIDE DEF s
  <2>3. /\ sendQ' \in Seq(Entries) /\ Len(sendQ') = Len(sendQ) + 1
        /\ sendQ'[Len(sendQ) + 1] = s
        /\ \A i \in 1 .. Len(sendQ) : sendQ'[i] = sendQ[i]
    BY <2>1, <2>2
  <2>4. TypeOK'
    BY <1>3, <2>3 DEF Base, TypeOK, WriteQueue
  <2>5. \A i \in 1 .. Len(sendQ') : pcbOf[sendQ'[i].conn] # None
    BY <2>1, <2>2, <2>3 DEF Base, MadeOK
  <2>6. MadeOK'
    BY <1>3, <2>5 DEF Base, TypeOK, MadeOK, WriteQueue
  <2>7. ProcOK' /\ BlockOK'
    BY <1>3 DEF Base, ProcOK, BlockOK, WriteQueue
  <2> QED BY <2>4, <2>6, <2>7 DEF Base
<1>4. CASE WriteDone(c, w)
  <2>1. sendWait' \in [Conns -> 0 .. 1]
    BY <1>4 DEF Base, TypeOK, WriteDone
  <2>2. TypeOK'
    BY <1>4, <2>1 DEF Base, TypeOK, WriteDone
  <2>3. MadeOK'
    BY <1>4 DEF Base, TypeOK, MadeOK, WriteDone
  <2>4. ProcOK' /\ BlockOK'
    BY <1>4 DEF Base, ProcOK, BlockOK, WriteDone
  <2> QED BY <2>2, <2>3, <2>4 DEF Base
<1> QED BY <1>1, <1>2, <1>3, <1>4 DEF WriteRest

-----------------------------------------------------------------------------
(* The lock and the send credit.                                           *)

\* No lock is held and no credit is out at the start.
LEMMA InitCredit == Init => Credit
BY NoneAssumption
   DEF Init, Credit, LockHeld, SendCredit, TokenHasRoom, Queued, Giving,
       Waiting, Idle

\* Most steps touch neither the lock nor a place where credit can be.
LEMMA FrameCredit ==
  ASSUME Credit, err' = err, lck' = lck, wpc' = wpc, sendQ' = sendQ,
         sendCount' = sendCount, sendWait' = sendWait,
         proc' = proc \/ (proc.at # "done" /\ proc'.at # "done")
  PROVE  Credit'
BY DEF Credit, LockHeld, SendCredit, TokenHasRoom, Queued, Giving, Waiting

\* go_tcp_send_done_h takes the credit out of sendCount into its hand.
LEMMA RecvAckCredit ==
  ASSUME Base, Credit, NEW a \in Blocks, NEW n \in 1 .. SndBuf, RecvAck(a, n)
  PROVE  Credit'
<1> DEFINE c == tcpPcbs[pcb[a].arg]
<1>1. /\ UNCHANGED <<err, lck, wpc, sendQ, sendWait>> /\ proc.at = "idle"
      /\ pcb[a].arg \in Heap
  BY DEF RecvAck, Base, BlockOK
<1>2. CASE UNCHANGED <<sendCount, proc>>
  BY <1>1, <1>2, FrameCredit
<1>3. CASE /\ Owed(c) /\ sendCount' = [sendCount EXCEPT ![c] = @ - 1]
           /\ proc' = Sending("done", c, 0)
  <2>1. c \in Conns /\ ~err[c] /\ sendCount[c] > 0
    BY <1>1, <1>3 DEF Owed, Base, TypeOK
  <2>2. /\ proc'.at = "done" /\ proc'.conn = c
    BY <1>3 DEF Sending
  <2>3. sendCount[c] \in Nat /\ sendCount'[c] = sendCount[c] - 1
        /\ \A x \in Conns : x # c => sendCount'[x] = sendCount[x]
    BY <1>3, <2>1 DEF Base, TypeOK
  <2>4. LockHeld'
    BY <1>1 DEF Credit, LockHeld
  <2>5. /\ Waiting(c) /\ ~Queued(c) /\ ~Giving(c) /\ sendWait[c] = 0
        /\ sendCount[c] = 1
    BY <2>1, <2>3 DEF Credit, SendCredit
  <2>6. \A x \in Conns : /\ Waiting(x)' <=> Waiting(x)
                         /\ Queued(x)' <=> Queued(x)
                         /\ ~Giving(x)
                         /\ Giving(x)' <=> x = c
    BY <1>1, <2>2 DEF Waiting, Queued, Giving
  <2>7. SendCredit'
    BY <1>1, <2>1, <2>3, <2>5, <2>6 DEF Credit, SendCredit
  <2>8. TokenHasRoom'
    BY <1>1, <2>1, <2>2, <2>5 DEF TokenHasRoom
  <2> QED BY <2>4, <2>7, <2>8 DEF Credit
<1> QED BY <1>2, <1>3 DEF RecvAck

\* The credit goes from Proc's hand into sendWait.
LEMMA ProcDonePutCredit ==
  ASSUME Base, Credit, ProcDonePut
  PROVE  Credit'
<1> DEFINE c == proc.conn
<1>1. /\ UNCHANGED <<err, lck, wpc, sendQ, sendCount>> /\ proc.at = "done"
      /\ c \in Conns /\ proc' = Idle /\ Idle.at = "idle"
  BY FreeTypes DEF ProcDonePut, Base, ProcOK
<1>2. ~err[c] /\ sendWait[c] = 0 /\ Giving(c)
  BY <1>1 DEF Credit, TokenHasRoom, Giving
<1>3. sendWait' = [sendWait EXCEPT ![c] = @ + 1]
  BY <1>2 DEF ProcDonePut
<1>4. sendWait'[c] = 1 /\ \A x \in Conns : x # c => sendWait'[x] = sendWait[x]
  BY <1>1, <1>2, <1>3 DEF Base, TypeOK
<1>5. Waiting(c) /\ ~Queued(c) /\ sendCount[c] = 0
  BY <1>1, <1>2 DEF Credit, SendCredit, Base, TypeOK
<1>6. \A x \in Conns : /\ Waiting(x)' <=> Waiting(x)
                       /\ Queued(x)' <=> Queued(x)
                       /\ ~Giving(x)'
                       /\ Giving(x) => x = c
  BY <1>1 DEF Waiting, Queued, Giving
<1>7. SendCredit'
  BY <1>1, <1>4, <1>5, <1>6 DEF Credit, SendCredit
<1> QED BY <1>1, <1>7 DEF Credit, LockHeld, TokenHasRoom

\* Setting p.err under the free lock, in PCB.close.
LEMMA CloseCredit ==
  ASSUME Base, Credit, NEW c \in Conns \cup {None},
         err' = [err EXCEPT ![c] = TRUE], c # None => lck[c] = None,
         UNCHANGED <<lck, wpc, sendQ, sendCount, sendWait>>,
         proc' = proc \/ (proc.at # "done" /\ proc'.at # "done")
  PROVE  Credit'
<1>1. \A x \in Conns : ~err'[x] => ~err[x] /\ x # c
  BY DEF Base, TypeOK
<1>2. \A x \in Conns : x # c => err'[x] = err[x]
  BY DEF Base, TypeOK
<1>3. c # None => ~Waiting(c)
  BY NoneAssumption DEF Credit, LockHeld, Waiting
<1>4. c # None => ~Giving(c)
  BY <1>3 DEF Credit, SendCredit, TokenHasRoom, Giving
<1>5. \A x \in Conns : /\ Waiting(x)' <=> Waiting(x)
                       /\ Queued(x)' <=> Queued(x)
                       /\ Giving(x)' <=> Giving(x)
  BY DEF Waiting, Queued, Giving
<1>6. SendCredit'
  BY <1>1, <1>5 DEF Credit, SendCredit
<1>7. TokenHasRoom'
  BY <1>2, <1>4, NoneAssumption DEF Credit, TokenHasRoom, Giving, Base, ProcOK
<1> QED BY <1>6, <1>7 DEF Credit, LockHeld

\* sendEntry.Send moves the credit from sendQueue to sendCount.
LEMMA ProcSendCredit ==
  ASSUME Base, Credit, ProcSend
  PROVE  Credit'
<1>1. /\ UNCHANGED <<err, lck, wpc, sendWait, proc>> /\ proc.at = "idle"
      /\ sendQ \in Seq(Entries) /\ sendQ # <<>> /\ sendQ' = Tail(sendQ)
  BY DEF ProcSend, Base, TypeOK
<1>2. /\ Head(sendQ) = sendQ[1] /\ 1 \in 1 .. Len(sendQ)
      /\ \A i \in 1 .. Len(sendQ') : /\ i + 1 \in 1 .. Len(sendQ)
                                     /\ sendQ'[i] = sendQ[i + 1]
      /\ \A i \in 1 .. Len(sendQ) :
           i # 1 => i - 1 \in 1 .. Len(sendQ') /\ sendQ'[i - 1] = sendQ[i]
  BY <1>1
<1>3. PICK c \in Conns : c = Head(sendQ).conn
  BY <1>1, <1>2, EntryType
<1>4. Queued(c)
  BY <1>2, <1>3 DEF Queued
<1>5. \A x \in Conns : x # c => (Queued(x)' <=> Queued(x))
  <2> SUFFICES ASSUME NEW x \in Conns, x # c
               PROVE  Queued(x)' <=> Queued(x)
    OBVIOUS
  <2>1. ASSUME NEW i \in 1 .. Len(sendQ'), sendQ'[i].conn = x
        PROVE  \E j \in 1 .. Len(sendQ) : sendQ[j].conn = x
    <3>1. i + 1 \in 1 .. Len(sendQ) /\ sendQ'[i] = sendQ[i + 1]
      BY <1>2, Zenon
    <3> QED BY <2>1, <3>1, Zenon
  <2>2. ASSUME NEW i \in 1 .. Len(sendQ), sendQ[i].conn = x
        PROVE  \E j \in 1 .. Len(sendQ') : sendQ'[j].conn = x
    <3>1. i # 1
      BY <1>2, <1>3, <2>2, Zenon
    <3>2. i - 1 \in 1 .. Len(sendQ') /\ sendQ'[i - 1] = sendQ[i]
      BY <1>2, <3>1, Zenon
    <3> QED BY <2>2, <3>2, Zenon
  <2> QED BY <2>1, <2>2, Zenon DEF Queued
<1>6. \A x \in Conns : ~err[x] =>
        \A i, j \in 1 .. Len(sendQ) :
          sendQ[i].conn = x /\ sendQ[j].conn = x => i = j
  BY DEF Credit, SendCredit
<1>7. \A x \in Conns : ~err[x] =>
        \A i, j \in 1 .. Len(sendQ') :
          sendQ'[i].conn = x /\ sendQ'[j].conn = x => i = j
  <2> SUFFICES ASSUME NEW x \in Conns, ~err[x],
                      NEW i \in 1 .. Len(sendQ'), NEW j \in 1 .. Len(sendQ'),
                      sendQ'[i].conn = x, sendQ'[j].conn = x
               PROVE  i = j
    OBVIOUS
  <2>1. /\ i + 1 \in 1 .. Len(sendQ) /\ sendQ[i + 1].conn = x
        /\ j + 1 \in 1 .. Len(sendQ) /\ sendQ[j + 1].conn = x
    BY <1>2
  <2>2. i + 1 = j + 1
    BY <2>1, <1>6
  <2> QED BY <2>2
<1>8. \A x \in Conns : /\ Waiting(x)' <=> Waiting(x)
                       /\ ~Giving(x) /\ ~Giving(x)'
  BY <1>1 DEF Waiting, Giving
<1>9. SendCredit'
  <2>1. CASE err[c]
    <3>1. sendCount' = sendCount
      BY <1>3, <2>1 DEF ProcSend, SendOpen
    <3> QED BY <1>1, <1>5, <1>7, <1>8, <2>1, <3>1 DEF Credit, SendCredit
  <2>2. CASE ~err[c]
    <3>1. sendCount' = [sendCount EXCEPT ![c] = @ + 1]
      BY <1>3, <2>2 DEF ProcSend, SendOpen
    <3>2. Waiting(c) /\ sendCount[c] = 0 /\ sendWait[c] = 0
      BY <1>4, <2>2 DEF Credit, SendCredit
    <3>3. ~Queued(c)'
      <4> SUFFICES ASSUME NEW i \in 1 .. Len(sendQ'), sendQ'[i].conn = c
                   PROVE  FALSE
        BY DEF Queued
      <4>1. i + 1 \in 1 .. Len(sendQ) /\ sendQ[i + 1].conn = c
        BY <1>2
      <4>2. i + 1 = 1
        BY <4>1, <1>2, <1>3, <1>6, <2>2
      <4> QED BY <4>2
    <3>4. /\ sendCount'[c] = 1
          /\ \A x \in Conns : x # c => sendCount'[x] = sendCount[x]
      BY <3>1, <3>2 DEF Base, TypeOK
    <3>5. \A x \in Conns : ~err[x] /\ x # c =>
            /\ Waiting(x) <=> (Queued(x) \/ sendCount[x] > 0 \/ sendWait[x] > 0)
            /\ sendCount[x] <= 1
            /\ Queued(x) => sendCount[x] = 0 /\ sendWait[x] = 0
            /\ sendCount[x] > 0 => sendWait[x] = 0
      BY <1>8 DEF Credit, SendCredit
    <3> QED BY <1>1, <1>5, <1>7, <1>8, <3>2, <3>3, <3>4, <3>5 DEF SendCredit
  <2> QED BY <2>1, <2>2
<1> QED BY <1>1, <1>9 DEF Credit, LockHeld, TokenHasRoom

\* Write passes its check of p.err, before it takes the lock.
LEMMA WriteCheckCredit ==
  ASSUME Base, Credit, NEW c \in Conns, NEW w \in Writers, NEW d,
         WriteCheck(c, w, d)
  PROVE  Credit'
<1>1. /\ UNCHANGED <<err, lck, sendQ, sendCount, sendWait, proc>>
      /\ wpc[c][w] = "idle"
  BY DEF WriteCheck
<1>2. \A x \in Conns, y \in Writers :
        \/ wpc'[x][y] = wpc[x][y]
        \/ wpc[x][y] = "idle" /\ wpc'[x][y] = "lock"
  BY <1>1 DEF WriteCheck, Base, TypeOK
<1>3. LockHeld'
  BY <1>1, <1>2 DEF Credit, LockHeld
<1>4. \A x \in Conns : /\ Waiting(x)' <=> Waiting(x)
                       /\ Queued(x)' <=> Queued(x)
                       /\ Giving(x)' <=> Giving(x)
  BY <1>1, <1>2 DEF Waiting, Queued, Giving
<1>5. SendCredit'
  BY <1>1, <1>4 DEF Credit, SendCredit
<1> QED BY <1>1, <1>3, <1>5 DEF Credit, TokenHasRoom

\* Write takes the lock.
LEMMA WriteLockCredit ==
  ASSUME Base, Credit, NEW c \in Conns, NEW w \in Writers, WriteLock(c, w)
  PROVE  Credit'
<1>1. /\ UNCHANGED <<err, sendQ, sendCount, sendWait, proc>>
      /\ wpc[c][w] = "lock" /\ lck[c] = None
  BY DEF WriteLock, Unlocked
<1>2. /\ lck'[c] = w /\ wpc'[c][w] = "queue"
      /\ \A x \in Conns : x # c => lck'[x] = lck[x]
      /\ \A x \in Conns, y \in Writers :
           ~(x = c /\ y = w) => wpc'[x][y] = wpc[x][y]
  BY DEF WriteLock, Base, TypeOK
<1>3. LockHeld'
  BY <1>1, <1>2, NoneAssumption DEF Credit, LockHeld
<1>4. \A x \in Conns : /\ Waiting(x)' <=> Waiting(x)
                       /\ Queued(x)' <=> Queued(x)
                       /\ Giving(x)' <=> Giving(x)
  BY <1>1, <1>2 DEF Waiting, Queued, Giving
<1>5. SendCredit'
  BY <1>1, <1>4 DEF Credit, SendCredit
<1> QED BY <1>1, <1>3, <1>5 DEF Credit, TokenHasRoom

\* Write creates the credit when it queues its entry.
LEMMA WriteQueueCredit ==
  ASSUME Base, Credit, NEW c \in Conns, NEW w \in Writers, WriteQueue(c, w)
  PROVE  Credit'
<1>1. /\ UNCHANGED <<err, lck, sendCount, sendWait, proc>>
      /\ wpc[c][w] = "queue"
  BY DEF WriteQueue
<1>2. /\ wpc'[c][w] = "wait"
      /\ \A x \in Conns, y \in Writers :
           ~(x = c /\ y = w) => wpc'[x][y] = wpc[x][y]
  BY DEF WriteQueue, Base, TypeOK
<1>3. LockHeld'
  BY <1>1, <1>2 DEF Credit, LockHeld
<1>4. /\ ~Waiting(c) /\ Waiting(c)'
      /\ \A x \in Conns : x # c => (Waiting(x)' <=> Waiting(x))
  BY <1>1, <1>2 DEF Credit, LockHeld, Waiting
<1>5. PICK s \in Entries : s.conn = c /\ sendQ' = Append(sendQ, s)
  <2>1. [conn |-> c, data |-> wbuf[c][w]] \in Entries
    BY <1>1 DEF Entries, Base, MadeOK
  <2> QED BY <2>1 DEF WriteQueue
<1>6. /\ Len(sendQ) \in Nat /\ Len(sendQ') = Len(sendQ) + 1
      /\ sendQ'[Len(sendQ) + 1] = s
      /\ \A i \in 1 .. Len(sendQ) : sendQ'[i] = sendQ[i]
  BY <1>5 DEF Base, TypeOK
<1>7. /\ Queued(c)'
      /\ \A x \in Conns : x # c => (Queued(x)' <=> Queued(x))
  BY <1>5, <1>6 DEF Queued
<1>8. \A x \in Conns : Giving(x)' <=> Giving(x)
  BY <1>1 DEF Giving
<1>9. ~err[c] => /\ ~Queued(c) /\ sendCount[c] = 0 /\ ~Giving(c)
                 /\ sendWait[c] = 0
  BY <1>4 DEF Credit, SendCredit, Base, TypeOK
<1>10. \A x \in Conns : ~err[x] =>
         \A i, j \in 1 .. Len(sendQ') :
           sendQ'[i].conn = x /\ sendQ'[j].conn = x => i = j
  <2> SUFFICES ASSUME NEW x \in Conns, ~err[x],
                      NEW i \in 1 .. Len(sendQ'), NEW j \in 1 .. Len(sendQ'),
                      sendQ'[i].conn = x, sendQ'[j].conn = x
               PROVE  i = j
    OBVIOUS
  <2>1. CASE x = c
    <3>1. \A k \in 1 .. Len(sendQ) : sendQ[k].conn # c
      BY <1>9, <2>1 DEF Queued
    <3> QED BY <1>6, <2>1, <3>1
  <2>2. CASE x # c
    <3>1. i \in 1 .. Len(sendQ) /\ j \in 1 .. Len(sendQ)
      BY <1>5, <1>6, <2>2
    <3> QED BY <1>6, <3>1 DEF Credit, SendCredit
  <2> QED BY <2>1, <2>2
<1>11. SendCredit'
  BY <1>1, <1>4, <1>7, <1>8, <1>9, <1>10 DEF Credit, SendCredit
<1> QED BY <1>1, <1>3, <1>11 DEF Credit, TokenHasRoom

\* Write takes the token out of sendWait and releases the lock.
LEMMA WriteDoneCredit ==
  ASSUME Base, Credit, NEW c \in Conns, NEW w \in Writers, WriteDone(c, w)
  PROVE  Credit'
<1>1. /\ UNCHANGED <<err, sendQ, sendCount, proc>> /\ wpc[c][w] = "wait"
      /\ sendWait[c] > 0 \/ err[c]
  BY DEF WriteDone
<1>2. /\ lck'[c] = None /\ wpc'[c][w] = "idle"
      /\ \A x \in Conns : x # c => /\ lck'[x] = lck[x]
                                   /\ sendWait'[x] = sendWait[x]
      /\ \A x \in Conns, y \in Writers :
           ~(x = c /\ y = w) => wpc'[x][y] = wpc[x][y]
  BY DEF WriteDone, Base, TypeOK
<1>3. LockHeld'
  BY <1>1, <1>2, NoneAssumption DEF Credit, LockHeld
<1>4. /\ Waiting(c) /\ ~Waiting(c)'
      /\ \A x \in Conns : x # c => (Waiting(x)' <=> Waiting(x))
  BY <1>1, <1>2, NoneAssumption DEF Credit, LockHeld, Waiting
<1>5. ~err[c] => /\ sendWait[c] = 1 /\ sendWait'[c] = 0
                 /\ ~Queued(c) /\ sendCount[c] = 0 /\ ~Giving(c)
  BY <1>1 DEF WriteDone, Credit, SendCredit, Base, TypeOK
<1>6. \A x \in Conns : /\ Queued(x)' <=> Queued(x)
                       /\ Giving(x)' <=> Giving(x)
  BY <1>1 DEF Queued, Giving
<1>7. SendCredit'
  BY <1>1, <1>2, <1>4, <1>5, <1>6 DEF Credit, SendCredit
<1>8. TokenHasRoom'
  BY <1>1, <1>2, <1>5 DEF Credit, TokenHasRoom, Giving, Base, ProcOK
<1> QED BY <1>3, <1>7, <1>8 DEF Credit

-----------------------------------------------------------------------------
(* Every step of the bridge keeps the invariant.                           *)

\* Every segment that arrives keeps the invariant.
LEMMA InputStep ==
  ASSUME IInv, Input
  PROVE  IInv'
<1>0. Base /\ Credit
  BY DEF IInv
<1>1. ASSUME NEW c \in Conns, NEW a \in Blocks, NEW e \in Heap, Accept(c, a, e)
      PROVE  IInv'
  BY <1>0, <1>1, AcceptBase, FrameCredit DEF Accept, IInv
<1>2. ASSUME NEW a \in Blocks, RecvData(a)
      PROVE  IInv'
  <2>1. proc' = proc \/ (proc.at # "done" /\ proc'.at # "done")
    BY <1>2 DEF RecvData, Sending
  <2> QED BY <1>0, <1>2, <2>1, RecvDataBase, FrameCredit DEF RecvData, IInv
<1>3. ASSUME NEW a \in Blocks, RecvDataClosed(a)
      PROVE  IInv'
  BY <1>0, <1>3, RecvDataClosedBase, FrameCredit
     DEF RecvDataClosed, EnterRawClose, Closing, IInv
<1>4. ASSUME NEW a \in Blocks, ReplayRefused(a)
      PROVE  IInv'
  BY <1>0, <1>4, ReplayRefusedBase, FrameCredit DEF ReplayRefused, IInv
<1>5. ASSUME NEW a \in Blocks, RecvFin(a)
      PROVE  IInv'
  BY <1>0, <1>5, RecvFinBase, FrameCredit
     DEF RecvFin, EnterRawClose, Closing, IInv
<1>6. ASSUME NEW a \in Blocks, RecvRst(a)
      PROVE  IInv'
  BY <1>0, <1>6, RecvRstBase, FrameCredit
     DEF RecvRst, EnterRawClose, Closing, IInv
<1>7. ASSUME NEW a \in Blocks, RecvLastAck(a)
      PROVE  IInv'
  BY <1>0, <1>7, RecvLastAckBase, FrameCredit DEF RecvLastAck, IInv
<1>8. ASSUME NEW a \in Blocks, KillPrio(a)
      PROVE  IInv'
  BY <1>0, <1>8, KillPrioBase, FrameCredit
     DEF KillPrio, EnterRawClose, Closing, IInv
<1>9. ASSUME NEW a \in Blocks, NEW n \in 1 .. SndBuf, RecvAck(a, n)
      PROVE  IInv'
  BY <1>0, <1>9, RecvAckBase, RecvAckCredit DEF IInv
<1> QED BY <1>1, <1>2, <1>3, <1>4, <1>5, <1>6, <1>7, <1>8, <1>9 DEF Input

\* Every step of Proc keeps the invariant.
LEMMA ProcStep ==
  ASSUME IInv, Proc
  PROVE  IInv'
<1>0. Base /\ Credit
  BY DEF IInv
<1>1. CASE ProcRecvPut
  BY <1>0, <1>1, ProcRecvPutBase, FrameCredit, FreeTypes DEF ProcRecvPut, IInv
<1>2. CASE ProcDonePut
  BY <1>0, <1>2, ProcDonePutBase, ProcDonePutCredit DEF IInv
<1>3. CASE ProcRawClose
  <2>1. proc.conn \in Conns \cup {None}
    BY <1>0 DEF Base, TypeOK, ProcRec
  <2>2. Credit'
    BY <1>0, <1>3, <2>1, CloseCredit, FreeTypes DEF ProcRawClose, Unlocked
  <2> QED BY <1>0, <1>3, <2>2, ProcRawCloseBase DEF IInv
<1>4. CASE ProcRecved
  BY <1>0, <1>4, ProcRecvedBase, FrameCredit DEF ProcRecved, IInv
<1>5. CASE ProcClose
  BY <1>0, <1>5, ProcCloseBase, FrameCredit DEF ProcClose, IInv
<1>6. CASE ProcSend
  BY <1>0, <1>6, ProcSendBase, ProcSendCredit DEF IInv
<1> QED BY <1>1, <1>2, <1>3, <1>4, <1>5, <1>6 DEF Proc

\* Every step of Read keeps the invariant.
LEMMA ReadStep ==
  ASSUME IInv, NEW c \in Conns, Read(c)
  PROVE  IInv'
<1>0. Base /\ Credit
  BY DEF IInv
<1>1. Credit'
  BY <1>0, FrameCredit DEF Read, ReadCheck, ReadGet, ReadSmall, ReadEnd,
     ReadCredit, goVars, queues, appVars, netVars
<1> QED BY <1>0, <1>1, ReadBase DEF IInv

\* Every step of Write keeps the invariant.
LEMMA WriteStep ==
  ASSUME IInv, NEW c \in Conns, NEW w \in Writers, NEW d \in Data,
         WriteCheck(c, w, d) \/ WriteRest(c, w)
  PROVE  IInv'
<1>0. Base /\ Credit
  BY DEF IInv
<1>1. Credit'
  BY <1>0, WriteCheckCredit, WriteLockCredit, WriteQueueCredit,
     WriteDoneCredit DEF WriteRest
<1> QED BY <1>0, <1>1, WriteBase DEF IInv

\* Every step of Close keeps the invariant.
LEMMA CloseStep ==
  ASSUME IInv, NEW c \in Conns, CloseLock(c) \/ CloseQueue(c)
  PROVE  IInv'
<1>0. Base /\ Credit
  BY DEF IInv
<1>1. CASE CloseLock(c)
  BY <1>0, <1>1, CloseBase, CloseCredit DEF CloseLock, Unlocked, IInv
<1>2. CASE CloseQueue(c)
  BY <1>0, <1>2, CloseBase, FrameCredit DEF CloseQueue, IInv
<1> QED BY <1>1, <1>2

\* The invariant holds initially.
LEMMA InitIInv == Init => IInv
BY InitBase, InitCredit DEF IInv

\* A step of the bridge under any application: one that reads, writes what it
\* likes and closes.
AppStep(c) ==
  \/ Read(c)
  \/ \E w \in Writers : \/ \E d \in Data : WriteCheck(c, w, d)
                        \/ WriteRest(c, w)
  \/ CloseLock(c)
  \/ CloseQueue(c)

\* A step of the bridge under such an application, which Next and EchoNext are.
Step == Input \/ Proc \/ \E c \in Conns : AppStep(c)

\* Next is such a step.
LEMMA NextIsStep ==
  ASSUME Base, Next
  PROVE  Step
<1>1. CASE Input \/ Proc
  BY <1>1 DEF Step
<1>2. CASE App
  <2>1. PICK c \in Conns :
          \/ Read(c)
          \/ \E w \in Writers :
               \/ wrote[c] < MaxWrites /\ WriteCheck(c, w, wrote[c] + 1)
               \/ WriteRest(c, w)
          \/ CloseLock(c)
          \/ CloseQueue(c)
    BY <1>2 DEF App
  <2>2. wrote[c] < MaxWrites => wrote[c] + 1 \in Data
    <3>1. wrote[c] \in Nat
      BY DEF Base, TypeOK
    <3> QED BY <3>1, CapAssumption DEF Data
  <2> QED BY <2>1, <2>2 DEF Step, AppStep
<1> QED BY <1>1, <1>2 DEF Next

\* The invariant is inductive.
LEMMA StepIInv ==
  ASSUME IInv, Step
  PROVE  IInv'
<1>1. CASE Input \/ Proc
  BY <1>1, InputStep, ProcStep
<1>2. ASSUME NEW c \in Conns, AppStep(c)
      PROVE  IInv'
  <2>1. ASSUME NEW w \in Writers, WriteRest(c, w)
        PROVE  IInv'
    <3>1. wbuf[c][w] \in Data
      BY <2>1 DEF WriteRest, WriteLock, WriteQueue, WriteDone, IInv, Base,
                  MadeOK
    <3> QED BY <2>1, <3>1, WriteStep
  <2> QED BY <1>2, <2>1, ReadStep, WriteStep, CloseStep DEF AppStep
<1> QED BY <1>1, <1>2 DEF Step

\* A stuttering step keeps it.
LEMMA StutterIInv ==
  ASSUME IInv, UNCHANGED vars
  PROVE  IInv'
<1>1. UNCHANGED <<goVars, queues, appVars, netVars, proc, fault>>
  BY DEF vars
<1>2. Credit'
  BY <1>1, FrameCredit DEF IInv
<1>3. TypeOK'
  BY <1>1 DEF IInv, Base, TypeOK
<1>4. ProcOK' /\ BlockOK' /\ MadeOK'
  BY <1>1, FrameBase DEF IInv
<1> QED BY <1>2, <1>3, <1>4 DEF IInv, Base

\* Every step of the specification keeps it.
LEMMA NextIInv == IInv /\ [Next]_vars => IInv'
<1> SUFFICES ASSUME IInv, [Next]_vars
             PROVE  IInv'
  OBVIOUS
<1>1. CASE Next
  BY <1>1, NextIsStep, StepIInv DEF IInv
<1> QED BY <1>1, StutterIInv

\* The invariant holds always.
LEMMA SpecIInv == Spec => []IInv
BY InitIInv, NextIInv, PTL DEF Spec

\* The types and channel capacities of the bridge hold for any number of
\* connections, writers, blocks and es addresses and any channel capacities.
THEOREM TypeCorrect == Spec => []TypeOK
<1>1. IInv => TypeOK
  BY DEF IInv, Base
<1> QED BY <1>1, SpecIInv, PTL

\* p.lck serialises the Writes of a connection.
THEOREM LockSafe == Spec => []LockHeld
<1>1. IInv => LockHeld
  BY DEF IInv, Credit
<1> QED BY <1>1, SpecIInv, PTL

\* The credit of the Write in progress is in exactly one place, whatever the
\* order in which Proc, the writers, Close and the peer take their steps.
THEOREM SendCreditConserved == Spec => []SendCredit
<1>1. IInv => SendCredit
  BY DEF IInv, Credit
<1> QED BY <1>1, SpecIInv, PTL

\* go_tcp_send_done_h neither blocks Proc nor panics on sendWait.
THEOREM TokenNeverBlocks == Spec => []TokenHasRoom
<1>1. IInv => TokenHasRoom
  BY DEF IInv, Credit
<1> QED BY <1>1, SpecIInv, PTL

-----------------------------------------------------------------------------
(* The registry tcpPcbs, the es addresses and the arguments of callbacks.  *)

\* The states in which lwIP calls the callbacks of a block.
Active == {"ESTABLISHED", "FIN_WAIT"}

\* cs_tcp_raw_close runs for a registered connection, on its own block and es.
Places ==
  /\ proc.at # "close" => proc.pcb = None
  /\ proc.at = "close" =>
       /\ proc.conn \in Conns /\ pcbOf[proc.conn] = proc.pcb
       /\ es[proc.es].pcb = proc.pcb /\ tcpPcbs[proc.es] = None

\* A block that is not free carries a connection that was made with it.
Owned == \A a \in Blocks : pcb[a].st # "FREE" => pcbOf[pcb[a].conn] = a

\* Only a PCB that has its block is in tcpPcbs.
Registered == \A e \in Heap : tcpPcbs[e] # None => pcbOf[tcpPcbs[e]] # None

\* The part of the invariant about the registry.
Handles ==
  /\ RegistryMatchesHeap /\ CallbackArgLive /\ ClosingIsTransient
  /\ Places /\ Owned /\ Registered

\* No connection, no es: the registry is right at the start.
LEMMA InitHandles == Init => Handles
BY DEF Init, Handles, RegistryMatchesHeap, CallbackArgLive,
       ClosingIsTransient, Places, Owned, Registered, FreePcb, FreeEs, Idle

\* A block lwIP can call back about has its es, its connection and its entry.
LEMMA CallbackFacts ==
  ASSUME Base, Handles, NEW a \in Blocks, pcb[a].st \in Active,
         proc.at # "close"
  PROVE  /\ pcb[a].arg \in Heap /\ pcb[a].conn \in Conns
         /\ es[pcb[a].arg].live /\ es[pcb[a].arg].pcb = a
         /\ tcpPcbs[pcb[a].arg] = pcb[a].conn /\ pcbOf[pcb[a].conn] = a
<1>1. pcb[a].arg \in Heap /\ pcb[a].conn \in Conns
  BY DEF Base, BlockOK, Active
<1>2. proc.pcb # a
  BY NoneAssumption DEF Handles, Places
<1> QED BY <1>1, <1>2 DEF Handles, CallbackArgLive, Owned, Active

\* A step that makes no block active, allocates and frees no es and is not in
\* cs_tcp_raw_close leaves the registry right.
LEMMA FrameHandles ==
  ASSUME Base, Handles,
         tcpPcbs' = tcpPcbs, esOf' = esOf, pcbOf' = pcbOf,
         \A b \in Blocks :
           /\ pcb'[b].st # "FREE" =>
                pcb[b].st # "FREE" /\ pcb'[b].conn = pcb[b].conn
           /\ pcb'[b].st \in Active =>
                pcb[b].st \in Active /\ pcb'[b].arg = pcb[b].arg,
         \A e \in Heap :
           /\ es'[e].live = es[e].live /\ es'[e].pcb = es[e].pcb
           /\ es'[e].state = "CLOSING" => es[e].state = "CLOSING",
         \/ proc' = proc
         \/ proc.at # "close" /\ proc'.at # "close" /\ proc'.pcb = None
  PROVE  Handles'
<1>1. RegistryMatchesHeap' /\ ClosingIsTransient' /\ Registered'
  BY DEF Handles, RegistryMatchesHeap, ClosingIsTransient, Registered
<1>2. Places'
  <2>1. CASE proc' = proc
    BY <2>1 DEF Handles, Places, Base, ProcOK
  <2>2. CASE proc'.at # "close" /\ proc'.pcb = None
    BY <2>2 DEF Places
  <2> QED BY <2>1, <2>2
<1>3. Owned'
  BY DEF Handles, Owned, Base, BlockOK
<1>4. CallbackArgLive'
  <2> SUFFICES ASSUME NEW a \in Blocks, pcb'[a].st \in Active, proc'.pcb # a
               PROVE  /\ pcb'[a].arg # None /\ es'[pcb'[a].arg].live
                      /\ es'[pcb'[a].arg].pcb = a
                      /\ tcpPcbs'[pcb'[a].arg] = pcb'[a].conn
    BY DEF CallbackArgLive, Active
  <2>1. /\ pcb[a].st \in Active /\ pcb'[a].arg = pcb[a].arg
        /\ pcb'[a].conn = pcb[a].conn
    BY DEF Active
  <2>2. proc.pcb # a
    BY NoneAssumption DEF Handles, Places
  <2>3. pcb[a].arg \in Heap
    BY <2>1, <2>2 DEF Base, BlockOK, Active
  <2> QED BY <2>1, <2>2, <2>3 DEF Handles, CallbackArgLive, Active
<1> QED BY <1>1, <1>2, <1>3, <1>4 DEF Handles

\* cs_tcp_raw_accept and go_tcp_accept_h: a free es has no entry, so that the
\* new connection is always entered.
LEMMA AcceptHandles ==
  ASSUME Base, Handles, NEW c \in Conns, NEW a \in Blocks, NEW e \in Heap,
         Accept(c, a, e)
  PROVE  Handles' /\ tcpPcbs[e] = None /\ pcb'[a] = NewPcb(c, e)
           /\ pcbOf' = [pcbOf EXCEPT ![c] = a]
<1>1. /\ proc.at = "idle" /\ pcbOf[c] = None /\ ~es[e].live
      /\ proc' = proc /\ a # None /\ e # None /\ c # None
  BY NoneAssumption DEF Accept
<1>2. tcpPcbs[e] = None
  BY <1>1 DEF Handles, RegistryMatchesHeap
<1>3. /\ tcpPcbs' = [tcpPcbs EXCEPT ![e] = c]
      /\ pcbOf' = [pcbOf EXCEPT ![c] = a] /\ esOf' = [esOf EXCEPT ![c] = e]
  BY <1>2 DEF Accept, GoTcpAccept
<1>4. /\ tcpPcbs'[e] = c /\ pcbOf'[c] = a /\ esOf'[c] = e
      /\ \A x \in Heap : x # e => tcpPcbs'[x] = tcpPcbs[x]
      /\ \A x \in Conns : x # c => pcbOf'[x] = pcbOf[x] /\ esOf'[x] = esOf[x]
  BY <1>3 DEF Base, TypeOK
<1>5. /\ es'[e].live /\ es'[e].pcb = a /\ es'[e].state = "ACCEPTED"
      /\ \A x \in Heap : x # e => es'[x] = es[x]
  BY DEF Accept, NewEs, Base, TypeOK
<1>6. /\ pcb'[a] = NewPcb(c, e)
      /\ \A b \in Blocks : b # a => pcb'[b] = pcb[b]
  BY DEF Accept, Base, TypeOK
<1>7. \A x \in Heap : tcpPcbs[x] # c
  BY <1>1 DEF Handles, Registered
<1>8. \A b \in Blocks : b # a /\ pcb[b].st # "FREE" =>
        pcb[b].conn \in Conns /\ pcb[b].conn # c
  <2> SUFFICES ASSUME NEW b \in Blocks, pcb[b].st # "FREE"
               PROVE  pcb[b].conn \in Conns /\ pcb[b].conn # c
    OBVIOUS
  <2>1. pcb[b].conn \in Conns /\ pcbOf[pcb[b].conn] = b /\ b # None
    BY NoneAssumption DEF Base, BlockOK, Handles, Owned
  <2> QED BY <1>1, <2>1
<1>9. RegistryMatchesHeap'
  <2>1. \A x \in Heap : tcpPcbs[x] \in Conns \cup {None}
    BY DEF Base, TypeOK
  <2> QED BY <1>1, <1>4, <1>5, <1>7, <2>1 DEF Handles, RegistryMatchesHeap
<1>10. ClosingIsTransient'
  BY <1>1, <1>5 DEF Handles, ClosingIsTransient
<1>11. Places'
  BY <1>1 DEF Handles, Places
<1>12. Owned'
  BY <1>4, <1>6, <1>8, NewTypes DEF Handles, Owned
<1>13. Registered'
  <2>1. \A x \in Heap : tcpPcbs[x] \in Conns \cup {None}
    BY DEF Base, TypeOK
  <2> QED BY <1>1, <1>4, <1>7, <2>1 DEF Handles, Registered
<1>14. CallbackArgLive'
  <2> SUFFICES ASSUME NEW b \in Blocks, pcb'[b].st \in Active
               PROVE  /\ pcb'[b].arg # None /\ es'[pcb'[b].arg].live
                      /\ es'[pcb'[b].arg].pcb = b
                      /\ tcpPcbs'[pcb'[b].arg] = pcb'[b].conn
    BY DEF CallbackArgLive, Active
  <2>1. CASE b = a
    BY <1>1, <1>4, <1>5, <1>6, <2>1, NewTypes
  <2>2. CASE b # a
    <3>1. pcb[b].st \in Active /\ pcb'[b] = pcb[b]
      BY <1>6, <2>2
    <3>2. /\ pcb[b].arg \in Heap /\ es[pcb[b].arg].live
          /\ es[pcb[b].arg].pcb = b /\ tcpPcbs[pcb[b].arg] = pcb[b].conn
      BY <1>1, <3>1, CallbackFacts
    <3>3. pcb[b].arg # e
      BY <1>1, <3>2
    <3> QED BY <1>4, <1>5, <3>1, <3>2, <3>3, NoneAssumption
  <2> QED BY <2>1, <2>2
<1> QED BY <1>2, <1>3, <1>6, <1>9, <1>10, <1>11, <1>12, <1>13, <1>14
        DEF Handles

\* The first half of cs_tcp_raw_close, whoever calls it: the entry that is
\* deleted is that of the block's own connection.
LEMMA EnterRawCloseHandles ==
  ASSUME Base, Handles, proc.at = "idle", NEW a \in Blocks,
         pcb[a].st \in Active, NEW b \in PcbRec,
         b.st # "FREE" => b.conn = pcb[a].conn,
         NEW how \in {"fin", "reset", "abort"},
         EnterRawClose(a, pcb[a].arg, b, how),
         esOf' = esOf, pcbOf' = pcbOf,
         \A x \in Heap :
           /\ es'[x].live = es[x].live /\ es'[x].pcb = es[x].pcb
           /\ es'[x].state = "CLOSING" =>
                es[x].state = "CLOSING" \/ x = pcb[a].arg
  PROVE  /\ Handles'
         /\ proc'.at = "close" /\ proc'.conn = pcb[a].conn /\ proc'.pcb = a
<1> DEFINE e == pcb[a].arg
<1>1. /\ e \in Heap /\ pcb[a].conn \in Conns /\ es[e].live /\ es[e].pcb = a
      /\ tcpPcbs[e] = pcb[a].conn /\ pcbOf[pcb[a].conn] = a
  BY CallbackFacts
<1>2. /\ proc'.at = "close" /\ proc'.conn = pcb[a].conn /\ proc'.pcb = a
      /\ proc'.es = e
  BY <1>1 DEF EnterRawClose, Closing
<1>3. /\ tcpPcbs'[e] = None
      /\ \A x \in Heap : x # e => tcpPcbs'[x] = tcpPcbs[x]
  BY <1>1 DEF EnterRawClose, Base, TypeOK
<1>4. /\ pcb'[a].st = b.st /\ pcb'[a].conn = b.conn
      /\ \A x \in Blocks : x # a => pcb'[x] = pcb[x]
  BY DEF EnterRawClose, Base, TypeOK, PcbRec
<1>5. RegistryMatchesHeap' /\ ClosingIsTransient'
  BY <1>1, <1>2, <1>3 DEF Handles, RegistryMatchesHeap, ClosingIsTransient
<1>6. Places'
  BY <1>1, <1>2, <1>3 DEF Places
<1>7. Owned'
  BY <1>1, <1>4 DEF Handles, Owned
<1>8. Registered'
  BY <1>3 DEF Handles, Registered
<1>9. CallbackArgLive'
  <2> SUFFICES ASSUME NEW x \in Blocks, pcb'[x].st \in Active, x # a
               PROVE  /\ pcb'[x].arg # None /\ es'[pcb'[x].arg].live
                      /\ es'[pcb'[x].arg].pcb = x
                      /\ tcpPcbs'[pcb'[x].arg] = pcb'[x].conn
    BY <1>2 DEF CallbackArgLive, Active
  <2>1. pcb'[x] = pcb[x]
    BY <1>4
  <2>2. /\ pcb[x].arg \in Heap /\ es[pcb[x].arg].live
        /\ es[pcb[x].arg].pcb = x /\ tcpPcbs[pcb[x].arg] = pcb[x].conn
    BY <2>1, CallbackFacts
  <2> QED BY <1>1, <1>3, <2>1, <2>2, NoneAssumption
<1> QED BY <1>2, <1>5, <1>6, <1>7, <1>8, <1>9 DEF Handles

\* The second half: the es is freed together with its entry, and no block that
\* still gets callbacks carries it.
LEMMA ProcRawCloseHandles ==
  ASSUME Base, Handles, ProcRawClose
  PROVE  Handles'
<1> DEFINE a == proc.pcb
           b == IF proc.how = "reset" THEN FreePcb ELSE TcpClose(pcb[a])
<1>1. a \in Blocks /\ proc.es \in Heap /\ proc.at = "close"
  BY DEF Base, ProcOK, ProcRawClose
<1>2. pcb[a] \in PcbRec
  BY <1>1 DEF Base, TypeOK
<1>3. /\ b.st \notin Active
      /\ b.st # "FREE" => pcb[a].st # "FREE" /\ b.conn = pcb[a].conn
  BY <1>1, <1>2, FreeTypes, TcpCloseType DEF Base, ProcOK, Active
<1>4. /\ pcb'[a] = b /\ \A x \in Blocks : x # a => pcb'[x] = pcb[x]
      /\ UNCHANGED <<tcpPcbs, pcbOf, esOf>>
  BY <1>1 DEF ProcRawClose, Base, TypeOK
<1> HIDE DEF b
<1>5. /\ ~es'[proc.es].live /\ es'[proc.es].state = "ACCEPTED"
      /\ \A x \in Heap : x # proc.es => es'[x] = es[x]
  BY <1>1 DEF ProcRawClose, FreeEs, Base, TypeOK
<1>6. proc'.at = "idle" /\ proc'.pcb = None
  BY DEF ProcRawClose, Idle
<1>7. tcpPcbs[proc.es] = None /\ es[proc.es].pcb = a
  BY <1>1 DEF Handles, Places
<1>8. RegistryMatchesHeap' /\ ClosingIsTransient' /\ Registered'
  BY <1>4, <1>5, <1>6, <1>7
     DEF Handles, RegistryMatchesHeap, ClosingIsTransient, Registered
<1>9. Places' /\ Owned'
  BY <1>1, <1>3, <1>4, <1>6 DEF Handles, Places, Owned
<1>10. CallbackArgLive'
  <2> SUFFICES ASSUME NEW x \in Blocks, pcb'[x].st \in Active
               PROVE  /\ pcb'[x].arg # None /\ es'[pcb'[x].arg].live
                      /\ es'[pcb'[x].arg].pcb = x
                      /\ tcpPcbs'[pcb'[x].arg] = pcb'[x].conn
    BY DEF CallbackArgLive, Active
  <2>1. x # a /\ pcb'[x] = pcb[x]
    BY <1>3, <1>4
  <2>2. pcb[x].arg \in Heap
    BY <2>1 DEF Base, BlockOK, Active
  <2>3. /\ pcb[x].arg # None /\ es[pcb[x].arg].live
        /\ es[pcb[x].arg].pcb = x /\ tcpPcbs[pcb[x].arg] = pcb[x].conn
    BY <2>1 DEF Handles, CallbackArgLive, Active
  <2> QED BY <1>4, <1>5, <1>7, <2>1, <2>2, <2>3
<1> QED BY <1>8, <1>9, <1>10 DEF Handles

\* A chunk of data moves the window of its block; a refused one marks it.
LEMMA RecvDataFrame ==
  ASSUME Base, NEW a \in Blocks, RecvData(a)
  PROVE  \E r \in PcbRec :
           /\ pcb' = [pcb EXCEPT ![a] = r]
           /\ r.st = pcb[a].st /\ r.conn = pcb[a].conn /\ r.arg = pcb[a].arg
           /\ r.unread = pcb[a].unread + 1
           /\ \/ r.refused = pcb[a].refused
              \/ tcpPcbs[pcb[a].arg] = None \/ err[tcpPcbs[pcb[a].arg]]
<1> DEFINE c == tcpPcbs[pcb[a].arg]
<1>1. pcb[a] \in PcbRec /\ pcb[a].unread < TcpWnd
  BY DEF Base, TypeOK, RecvData
<1>2. pcb[a].unread + 1 \in 0 .. TcpWnd
  BY <1>1, CapAssumption DEF PcbRec
<1>3. CASE c = None \/ err[c]
  <2> DEFINE r == [pcb[a] EXCEPT !.unread = pcb[a].unread + 1,
                                 !.refused = TRUE]
  <2>1. pcb' = [pcb EXCEPT ![a] = r]
    BY <1>1, <1>3 DEF RecvData, Base, TypeOK
  <2>2. /\ r \in PcbRec /\ r.st = pcb[a].st /\ r.conn = pcb[a].conn
        /\ r.arg = pcb[a].arg /\ r.unread = pcb[a].unread + 1
    BY <1>1, <1>2 DEF PcbRec
  <2> QED BY <1>3, <2>1, <2>2
<1>4. CASE ~(c = None \/ err[c])
  <2> DEFINE r == [pcb[a] EXCEPT !.unread = pcb[a].unread + 1]
  <2>1. pcb' = [pcb EXCEPT ![a] = r]
    BY <1>1, <1>4 DEF RecvData, Base, TypeOK
  <2>2. /\ r \in PcbRec /\ r.st = pcb[a].st /\ r.conn = pcb[a].conn
        /\ r.arg = pcb[a].arg /\ r.unread = pcb[a].unread + 1
        /\ r.refused = pcb[a].refused
    BY <1>1, <1>2 DEF PcbRec
  <2> QED BY <2>1, <2>2
<1> QED BY <1>3, <1>4

\* cs_tcp_raw_send touches neither the arguments of callbacks nor the registry.
LEMMA RawSendFrame ==
  ASSUME Base, NEW a \in Blocks, NEW e \in Heap, NEW u \in 0 .. SndBuf,
         NEW ps \in Seq(Segments), RawSend(a, e, pcb[a], u, ps)
  PROVE  /\ \A b \in Blocks : /\ pcb'[b].st = pcb[b].st
                              /\ pcb'[b].conn = pcb[b].conn
                              /\ pcb'[b].arg = pcb[b].arg
                              /\ pcb'[b].unread = pcb[b].unread
                              /\ pcb'[b].refused = pcb[b].refused
         /\ \A x \in Heap : /\ es'[x].live = es[x].live
                            /\ es'[x].pcb = es[x].pcb
                            /\ es'[x].state = es[x].state
<1>1. PICK m \in RawSendCounts(pcb[a].st, Len(ps), u) :
        /\ pcb' = [pcb EXCEPT ![a] = [pcb[a] EXCEPT !.unacked = u + m]]
        /\ es' = [es EXCEPT ![e].p = SubSeq(ps, m + 1, Len(ps))]
  BY DEF RawSend
<1>2. pcb[a] \in PcbRec /\ es[e] \in EsRec
  BY DEF Base, TypeOK
<1>3. \A b \in Blocks :
        \/ b # a /\ pcb'[b] = pcb[b]
        \/ b = a /\ pcb'[b] = [pcb[b] EXCEPT !.unacked = u + m]
  BY <1>1 DEF Base, TypeOK
<1>4. \A x \in Heap :
        \/ x # e /\ es'[x] = es[x]
        \/ x = e /\ es'[x] = [es[x] EXCEPT !.p = SubSeq(ps, m + 1, Len(ps))]
  BY <1>1 DEF Base, TypeOK
<1>5. \A b \in Blocks : /\ pcb'[b].st = pcb[b].st
                        /\ pcb'[b].conn = pcb[b].conn
                        /\ pcb'[b].arg = pcb[b].arg
                        /\ pcb'[b].unread = pcb[b].unread
                        /\ pcb'[b].refused = pcb[b].refused
  BY <1>2, <1>3 DEF PcbRec
<1>6. \A x \in Heap : /\ es'[x].live = es[x].live /\ es'[x].pcb = es[x].pcb
                      /\ es'[x].state = es[x].state
  BY <1>2, <1>4 DEF EsRec
<1> QED BY <1>5, <1>6

\* An ACK moves segments and leaves the rest of a block alone.
LEMMA RecvAckFrame ==
  ASSUME Base, NEW a \in Blocks, NEW n \in 1 .. SndBuf, RecvAck(a, n)
  PROVE  /\ \A b \in Blocks : /\ pcb'[b].st = pcb[b].st
                              /\ pcb'[b].conn = pcb[b].conn
                              /\ pcb'[b].arg = pcb[b].arg
                              /\ pcb'[b].unread = pcb[b].unread
                              /\ pcb'[b].refused = pcb[b].refused
         /\ \A x \in Heap : /\ es'[x].live = es[x].live
                            /\ es'[x].pcb = es[x].pcb
                            /\ es'[x].state = es[x].state
         /\ proc.at = "idle"
         /\ \/ proc' = proc
            \/ proc'.at = "done" /\ proc'.pcb = None
<1> DEFINE e == pcb[a].arg
           u == pcb[a].unacked - n
<1>1. /\ proc.at = "idle" /\ e \in Heap /\ pcb[a] \in PcbRec
      /\ n <= pcb[a].unacked /\ es[e] \in EsRec
  BY DEF Base, TypeOK, BlockOK, RecvAck
<1>2. proc' = proc \/ (proc'.at = "done" /\ proc'.pcb = None)
  BY DEF RecvAck, Sending
<1>3. CASE ~Drained(e)
  <2>1. RawSend(a, e, pcb[a], u, es[e].p)
    BY <1>3 DEF RecvAck
  <2>2. es[e].p \in Seq(Segments) /\ u \in 0 .. SndBuf
    BY <1>1, CapAssumption DEF EsRec, PcbRec
  <2> HIDE DEF u, e
  <2> QED BY <1>1, <1>2, <2>1, <2>2, RawSendFrame
<1>4. CASE Drained(e)
  <2> DEFINE r == [pcb[a] EXCEPT !.unacked = u]
  <2>1. es' = es /\ pcb' = [pcb EXCEPT ![a] = r]
    BY <1>4 DEF RecvAck, Base, TypeOK
  <2>2. /\ r.st = pcb[a].st /\ r.conn = pcb[a].conn /\ r.arg = pcb[a].arg
        /\ r.unread = pcb[a].unread /\ r.refused = pcb[a].refused
    BY <1>1 DEF PcbRec
  <2> HIDE DEF r
  <2> QED BY <1>1, <1>2, <2>1, <2>2 DEF Base, TypeOK
<1> QED BY <1>3, <1>4

\* So does Send.
LEMMA ProcSendFrame ==
  ASSUME Base, ProcSend
  PROVE  /\ \A b \in Blocks : /\ pcb'[b].st = pcb[b].st
                              /\ pcb'[b].conn = pcb[b].conn
                              /\ pcb'[b].arg = pcb[b].arg
                              /\ pcb'[b].unread = pcb[b].unread
                              /\ pcb'[b].refused = pcb[b].refused
         /\ \A x \in Heap : /\ es'[x].live = es[x].live
                            /\ es'[x].pcb = es[x].pcb
                            /\ es'[x].state = es[x].state
<1> DEFINE s == Head(sendQ)
           e == esOf[s.conn]
           a == pcbOf[s.conn]
<1>1. CASE UNCHANGED <<es, pcb>>
  BY <1>1
<1>2. CASE RawSend(a, e, pcb[a], pcb[a].unacked, Chain(s.data))
  <2>1. s = sendQ[1] /\ 1 \in 1 .. Len(sendQ) /\ sendQ \in Seq(Entries)
    BY DEF ProcSend, Base, TypeOK
  <2>2. s.conn \in Conns /\ s.data \in Data /\ pcbOf[s.conn] # None
    BY <2>1, EntryType DEF Base, MadeOK
  <2>3. a \in Blocks /\ e \in Heap
    <3> HIDE DEF s
    <3> QED BY <2>2 DEF Base, TypeOK, MadeOK
  <2>4. pcb[a].unacked \in 0 .. SndBuf /\ Chain(s.data) \in Seq(Segments)
    BY <2>2, <2>3, ChainType DEF Base, TypeOK, PcbRec
  <2> HIDE DEF a, e, s
  <2> QED BY <1>2, <2>3, <2>4, RawSendFrame
<1> QED BY <1>1, <1>2 DEF ProcSend

\* Every segment that arrives leaves the registry right.
LEMMA InputHandles ==
  ASSUME Base, Handles, Input
  PROVE  Handles'
<1>0. \A b \in Blocks : pcb[b] \in PcbRec
  BY DEF Base, TypeOK
<1>1. ASSUME NEW c \in Conns, NEW a \in Blocks, NEW e \in Heap, Accept(c, a, e)
      PROVE  Handles'
  BY <1>1, AcceptHandles
<1>2. ASSUME NEW a \in Blocks, RecvData(a)
      PROVE  Handles'
  <2>1. /\ proc.at = "idle" /\ pcb[a].st \in Active
        /\ \/ proc' = proc
           \/ proc'.at = "recv" /\ proc'.pcb = None
    BY <1>2 DEF RecvData, Sending, Active
  <2>2. pcb[a].arg \in Heap
    BY <2>1, CallbackFacts
  <2>3. \A b \in Blocks : /\ pcb'[b].st = pcb[b].st
                          /\ pcb'[b].conn = pcb[b].conn
                          /\ pcb'[b].arg = pcb[b].arg
    BY <1>2, RecvDataFrame DEF Base, TypeOK
  <2>4. \A x \in Heap : /\ es'[x].live = es[x].live /\ es'[x].pcb = es[x].pcb
                        /\ es'[x].state = "CLOSING" => es[x].state = "CLOSING"
    <3>1. \A x \in Heap : es[x] \in EsRec
      BY DEF Base, TypeOK
    <3> QED BY <1>2, <3>1 DEF RecvData, Base, TypeOK, EsRec
  <2> QED BY <1>2, <2>1, <2>3, <2>4, FrameHandles DEF RecvData
<1>3. ASSUME NEW a \in Blocks, RecvDataClosed(a)
      PROVE  Handles'
  BY <1>3, EnterRawCloseHandles, FreeTypes DEF RecvDataClosed, Active
<1>4. ASSUME NEW a \in Blocks, ReplayRefused(a)
      PROVE  Handles'
  BY <1>4, FrameHandles DEF ReplayRefused
<1>5. ASSUME NEW a \in Blocks, RecvFin(a)
      PROVE  Handles'
  <2> DEFINE s == IF pcb[a].st = "ESTABLISHED" THEN "CLOSE_WAIT"
                  ELSE "TIME_WAIT"
             b == [pcb[a] EXCEPT !.st = s]
  <2>1. proc.at = "idle" /\ pcb[a].st \in Active
    BY <1>5 DEF RecvFin, Active
  <2>2. b \in PcbRec /\ b.conn = pcb[a].conn
    BY <1>0 DEF PcbRec, PcbStates
  <2>3. EnterRawClose(a, pcb[a].arg, b, "fin")
    BY <1>5 DEF RecvFin
  <2>4. \A x \in Heap : /\ es'[x].live = es[x].live /\ es'[x].pcb = es[x].pcb
                        /\ x # pcb[a].arg => es'[x].state = es[x].state
    <3>1. \A x \in Heap : es[x] \in EsRec
      BY DEF Base, TypeOK
    <3>2. pcb[a].arg \in Heap
      BY <2>1, CallbackFacts
    <3> QED BY <1>5, <3>1, <3>2 DEF RecvFin, Base, TypeOK, EsRec
  <2> HIDE DEF b
  <2> QED BY <1>5, <2>1, <2>2, <2>3, <2>4, EnterRawCloseHandles DEF RecvFin
<1>6. ASSUME NEW a \in Blocks, RecvRst(a)
      PROVE  Handles'
  BY <1>0, <1>6, EnterRawCloseHandles DEF RecvRst, Active
<1>7. ASSUME NEW a \in Blocks, RecvLastAck(a)
      PROVE  Handles'
  <2>1. \A b \in Blocks : pcb'[b] = pcb[b] \/ pcb'[b].st = "FREE"
    BY <1>7, FreeTypes DEF RecvLastAck, Base, TypeOK
  <2> QED BY <1>7, <2>1, FrameHandles DEF RecvLastAck, Active
<1>8. ASSUME NEW a \in Blocks, KillPrio(a)
      PROVE  Handles'
  <2>1. pcb[a].st \notin {"FREE", "TIME_WAIT", "LAST_ACK"}
    BY <1>8 DEF KillPrio, Allocatable
  <2>2. pcb[a].st \in Active /\ proc.at = "idle"
    BY <1>0, <1>8, <2>1 DEF KillPrio, Base, BlockOK, PcbRec, PcbStates, Active
  <2> QED BY <1>8, <2>2, EnterRawCloseHandles, FreeTypes DEF KillPrio
<1>9. ASSUME NEW a \in Blocks, NEW n \in 1 .. SndBuf, RecvAck(a, n)
      PROVE  Handles'
  BY <1>9, RecvAckFrame, FrameHandles DEF RecvAck
<1> QED BY <1>1, <1>2, <1>3, <1>4, <1>5, <1>6, <1>7, <1>8, <1>9 DEF Input

\* Every step of Proc leaves the registry right.
LEMMA ProcHandles ==
  ASSUME Base, Handles, Proc
  PROVE  Handles'
<1>0. \A b \in Blocks : pcb[b] \in PcbRec
  BY DEF Base, TypeOK
<1>1. CASE ProcRecvPut
  BY <1>1, FrameHandles DEF ProcRecvPut, Idle
<1>2. CASE ProcDonePut
  BY <1>2, FrameHandles DEF ProcDonePut, Idle
<1>3. CASE ProcRawClose
  BY <1>3, ProcRawCloseHandles
<1>4. CASE ProcRecved
  <2>1. \A b \in Blocks : pcb'[b] = pcb[b] \/ pcb'[b] = Recved(pcb[b])
    BY <1>4 DEF ProcRecved, Base, TypeOK
  <2>2. \A b \in Blocks : /\ pcb'[b].st = pcb[b].st
                          /\ pcb'[b].conn = pcb[b].conn
                          /\ pcb'[b].arg = pcb[b].arg
    BY <1>0, <2>1, RecvedType
  <2> QED BY <1>4, <2>2, FrameHandles DEF ProcRecved
<1>5. CASE ProcClose
  <2>1. \A b \in Blocks : pcb'[b] = pcb[b] \/ pcb'[b] = TcpClose(pcb[b])
    BY <1>5 DEF ProcClose, Base, TypeOK
  <2>2. \A b \in Blocks :
          /\ pcb'[b].st # "FREE" =>
               pcb[b].st # "FREE" /\ pcb'[b].conn = pcb[b].conn
          /\ pcb'[b].st \in Active =>
               pcb[b].st \in Active /\ pcb'[b].arg = pcb[b].arg
    BY <1>0, <2>1, TcpCloseType DEF Active
  <2> QED BY <1>5, <2>2, FrameHandles DEF ProcClose
<1>6. CASE ProcSend
  BY <1>6, ProcSendFrame, FrameHandles DEF ProcSend
<1> QED BY <1>1, <1>2, <1>3, <1>4, <1>5, <1>6 DEF Proc

\* The application cannot touch the registry.
LEMMA AppHandles ==
  ASSUME Base, Handles, NEW c \in Conns, AppStep(c)
  PROVE  Handles'
<1>1. UNCHANGED <<tcpPcbs, esOf, pcbOf, pcb, es, proc>>
  BY DEF AppStep, Read, ReadCheck, ReadGet, ReadSmall, ReadEnd, ReadCredit,
         WriteCheck, WriteRest, WriteLock, WriteQueue, WriteDone, CloseLock,
         CloseQueue, goVars, queues, appVars, netVars
<1> QED BY <1>1, FrameHandles

\* The registry stays right.
LEMMA StepHandles ==
  ASSUME Base, Handles, Step
  PROVE  Handles'
BY InputHandles, ProcHandles, AppHandles DEF Step

\* A stuttering step leaves it right.
LEMMA StutterHandles ==
  ASSUME Base, Handles, UNCHANGED vars
  PROVE  Handles'
<1>1. UNCHANGED <<tcpPcbs, esOf, pcbOf, pcb, es, proc>>
  BY DEF vars
<1> QED BY <1>1, FrameHandles

\* The registry is right in every reachable state.
LEMMA SpecHandles == Spec => [](IInv /\ Handles)
<1>1. Init => IInv /\ Handles
  BY InitIInv, InitHandles
<1>2. IInv /\ Handles /\ [Next]_vars => (IInv /\ Handles)'
  <2> SUFFICES ASSUME IInv, Handles, [Next]_vars
               PROVE  IInv' /\ Handles'
    OBVIOUS
  <2>1. IInv' /\ Base
    BY NextIInv DEF IInv
  <2>2. Handles'
    BY <2>1, NextIsStep, StepHandles, StutterHandles
  <2> QED BY <2>1, <2>2
<1> QED BY <1>1, <1>2, PTL DEF Spec

\* tcpPcbs and the es allocated by cs_tcp_raw_accept stay in step, for any
\* number of connections, blocks and addresses and whatever is closed when.
THEOREM RegistryRight == Spec => []RegistryMatchesHeap
<1>1. Handles => RegistryMatchesHeap
  BY DEF Handles
<1> QED BY <1>1, SpecHandles, PTL

\* Every callback gets a live es that belongs to its block, and go_tcp_recv_h,
\* go_tcp_send_done_h and go_tcp_close_h find with it the PCB of the connection
\* the segment is for, although blocks and addresses are used again and a late
\* Close may close a block that has a new owner.
THEOREM CallbacksFindTheirPcb == Spec => []CallbackArgLive
<1>1. Handles => CallbackArgLive
  BY DEF Handles
<1> QED BY <1>1, SpecHandles, PTL

\* No callback ever sees ES_CLOSING: the code for it in cs_tcp_raw_recv,
\* cs_tcp_raw_poll and cs_tcp_send is never reached.
THEOREM ClosingNeverSeen == Spec => []ClosingIsTransient
<1>1. Handles => ClosingIsTransient
  BY DEF Handles
<1> QED BY <1>1, SpecHandles, PTL

-----------------------------------------------------------------------------
(* What an open connection holds, and its receive window.  Both are lost   *)
(* when go_netif_proc closes the block of another connection, the case     *)
(* that CloseOwnBlock is about; OwnClose says that this step does not.     *)

\* The block of an open connection carries it and is established, and Proc is
\* not closing that block.
OpenOK ==
  \A c \in Conns :
    pcbOf[c] # None /\ ~err[c] /\ ~(proc.at = "close" /\ proc.conn = c) =>
      /\ pcb[pcbOf[c]].conn = c /\ pcb[pcbOf[c]].st = "ESTABLISHED"
      /\ proc.pcb # pcbOf[c]

\* What is queued for tcp_close has been closed.
QueuedClosed ==
  /\ \A i \in 1 .. Len(closeQ) : err[closeQ[i]]
  /\ \A c \in Conns : cpc[c] = "queue" => err[c]

\* Nothing has been received on a connection that is not made yet.
Fresh ==
  \A c \in Conns : pcbOf[c] = None =>
    /\ recvQ[c] = <<>> /\ rpc[c] = "idle"
    /\ ~(proc.at = "recv" /\ proc.conn = c)
    /\ \A i \in 1 .. Len(recvedQ) : recvedQ[i] # c

\* The part of the invariant about open connections.
Opens == OpenOK /\ QueuedClosed /\ Fresh

\* The closeQueue branch of go_netif_proc closes a block that is free or the
\* PCB's own: the step formula of CloseNotForeign.
OwnClose ==
  closeQ # <<>> /\ closeQ' = Tail(closeQ)
    => pcb[pcbOf[Head(closeQ)]].conn \in {None, Head(closeQ)}

\* Nothing is open at the start.
LEMMA InitOpens == Init => Opens
BY DEF Init, Opens, OpenOK, QueuedClosed, Fresh, Idle

\* LiveHandles is what OpenOK says, with what the registry adds.
LEMMA OpenIsLive ==
  ASSUME Base, Handles, Opens
  PROVE  LiveHandles
<1> SUFFICES ASSUME NEW c \in Conns, pcbOf[c] # None, ~err[c],
                    ~(proc.at = "close" /\ proc.conn = c)
             PROVE  /\ es[esOf[c]].live /\ tcpPcbs[esOf[c]] = c
                    /\ pcb[pcbOf[c]].conn = c
                    /\ pcb[pcbOf[c]].st = "ESTABLISHED"
                    /\ pcb[pcbOf[c]].arg = esOf[c]
  BY DEF LiveHandles
<1> DEFINE a == pcbOf[c]
<1>1. /\ a \in Blocks /\ pcb[a].conn = c /\ pcb[a].st = "ESTABLISHED"
      /\ proc.pcb # a
  BY DEF Opens, OpenOK, Base, TypeOK
<1>2. /\ pcb[a].arg \in Heap /\ es[pcb[a].arg].live
      /\ tcpPcbs[pcb[a].arg] = c
  BY <1>1 DEF Base, BlockOK, Handles, CallbackArgLive
<1>3. esOf[c] = pcb[a].arg
  BY <1>2, NoneAssumption DEF Handles, RegistryMatchesHeap
<1> QED BY <1>1, <1>2, <1>3

\* A step that leaves the established blocks to their owners.
LEMMA FrameOpen ==
  ASSUME Base, OpenOK, pcbOf' = pcbOf,
         \A c \in Conns : err[c] => err'[c],
         \A b \in Blocks : pcb[b].st = "ESTABLISHED" =>
           pcb'[b].st = "ESTABLISHED" /\ pcb'[b].conn = pcb[b].conn,
         \/ proc' = proc
         \/ proc.at # "close" /\ proc'.at # "close" /\ proc'.pcb = None
  PROVE  OpenOK'
<1> SUFFICES ASSUME NEW c \in Conns, pcbOf[c] # None, ~err'[c],
                    ~(proc'.at = "close" /\ proc'.conn = c)
             PROVE  /\ pcb'[pcbOf[c]].conn = c
                    /\ pcb'[pcbOf[c]].st = "ESTABLISHED"
                    /\ proc'.pcb # pcbOf[c]
  BY DEF OpenOK
<1>1. pcbOf[c] \in Blocks
  BY DEF Base, TypeOK
<1>2. ~err[c] /\ ~(proc.at = "close" /\ proc.conn = c)
  OBVIOUS
<1>3. /\ pcb[pcbOf[c]].conn = c /\ pcb[pcbOf[c]].st = "ESTABLISHED"
      /\ proc.pcb # pcbOf[c]
  BY <1>2 DEF OpenOK
<1> QED BY <1>1, <1>3, NoneAssumption

\* A step that receives nothing for a connection not made yet and closes none.
LEMMA FrameFresh ==
  ASSUME Base, Fresh, QueuedClosed,
         \A c \in Conns : pcbOf[c] # None => pcbOf'[c] # None,
         recvQ' = recvQ, rpc' = rpc, recvedQ' = recvedQ,
         closeQ' = closeQ, cpc' = cpc,
         \A c \in Conns : err[c] => err'[c],
         proc' = proc \/ proc'.at # "recv"
  PROVE  Fresh' /\ QueuedClosed'
<1>1. Fresh'
  BY DEF Fresh
<1>2. \A i \in 1 .. Len(closeQ) : closeQ[i] \in Conns
  BY DEF Base, TypeOK
<1> QED BY <1>1, <1>2 DEF QueuedClosed

\* The first half of cs_tcp_raw_close makes its own connection a closing one.
LEMMA EnterRawCloseOpen ==
  ASSUME Base, Handles, OpenOK, proc.at = "idle", NEW a \in Blocks,
         pcb[a].st \in Active, NEW b, NEW how,
         EnterRawClose(a, pcb[a].arg, b, how), pcbOf' = pcbOf, err' = err
  PROVE  OpenOK'
<1>1. /\ tcpPcbs[pcb[a].arg] = pcb[a].conn /\ pcbOf[pcb[a].conn] = a
  BY CallbackFacts
<1>2. proc'.at = "close" /\ proc'.conn = pcb[a].conn /\ proc'.pcb = a
  BY <1>1 DEF EnterRawClose, Closing
<1>3. \A x \in Blocks : x # a => pcb'[x] = pcb[x]
  BY DEF EnterRawClose, Base, TypeOK
<1> SUFFICES ASSUME NEW c \in Conns, pcbOf[c] # None, ~err[c],
                    c # pcb[a].conn
             PROVE  /\ pcb'[pcbOf[c]].conn = c
                    /\ pcb'[pcbOf[c]].st = "ESTABLISHED"
                    /\ pcbOf[c] # a
  BY <1>2 DEF OpenOK
<1>4. /\ pcbOf[c] \in Blocks /\ pcb[pcbOf[c]].conn = c
      /\ pcb[pcbOf[c]].st = "ESTABLISHED"
  BY DEF OpenOK, Base, TypeOK
<1> QED BY <1>3, <1>4

\* Every segment that arrives keeps the open connections open.
LEMMA InputOpens ==
  ASSUME Base, Handles, Opens, Input
  PROVE  Opens'
<1> USE DEF Opens
<1>0. \A b \in Blocks : pcb[b] \in PcbRec
  BY DEF Base, TypeOK
<1>1. ASSUME NEW c \in Conns, NEW a \in Blocks, NEW e \in Heap, Accept(c, a, e)
      PROVE  Opens'
  <2>1. /\ proc.at = "idle" /\ proc' = proc /\ pcbOf[c] = None
        /\ err' = err /\ pcb[a].st # "ESTABLISHED"
    BY <1>1 DEF Accept, Allocatable
  <2>2. pcbOf' = [pcbOf EXCEPT ![c] = a] /\ pcb'[a] = NewPcb(c, e)
    BY <1>1, AcceptHandles
  <2>3. \A x \in Blocks : x # a => pcb'[x] = pcb[x]
    BY <1>1 DEF Accept, Base, TypeOK
  <2>4. proc.pcb = None /\ a # None
    BY <2>1, NoneAssumption DEF Handles, Places
  <2>5. \A x \in Conns : x # c => pcbOf'[x] = pcbOf[x]
    BY <2>2 DEF Base, TypeOK
  <2>6. OpenOK'
    <3> SUFFICES ASSUME NEW x \in Conns, pcbOf'[x] # None, ~err[x]
                 PROVE  /\ pcb'[pcbOf'[x]].conn = x
                        /\ pcb'[pcbOf'[x]].st = "ESTABLISHED"
                        /\ proc.pcb # pcbOf'[x]
      BY <2>1 DEF OpenOK
    <3>1. CASE x = c
      BY <2>2, <2>4, <3>1, NewTypes DEF Base, TypeOK
    <3>2. CASE x # c
      <4>1. /\ pcbOf[x] \in Blocks /\ pcb[pcbOf[x]].conn = x
            /\ pcb[pcbOf[x]].st = "ESTABLISHED"
        BY <2>1, <2>5, <3>2 DEF OpenOK, Base, TypeOK
      <4> QED BY <2>1, <2>3, <2>4, <2>5, <3>2, <4>1, NoneAssumption
    <3> QED BY <3>1, <3>2
  <2>7. \A x \in Conns : pcbOf[x] # None => pcbOf'[x] # None
    BY <2>2, <2>4 DEF Base, TypeOK
  <2> QED BY <1>1, <2>6, <2>7, FrameFresh DEF Accept
<1>2. ASSUME NEW a \in Blocks, RecvData(a)
      PROVE  Opens'
  <2>1. /\ proc.at = "idle" /\ pcb[a].st \in Active
        /\ \/ proc' = proc
           \/ /\ proc'.at = "recv" /\ proc'.pcb = None
              /\ proc'.conn = tcpPcbs[pcb[a].arg]
    BY <1>2 DEF RecvData, Sending, Active
  <2>2. OpenOK'
    <3>1. \A b \in Blocks : /\ pcb'[b].st = pcb[b].st
                            /\ pcb'[b].conn = pcb[b].conn
      BY <1>2, RecvDataFrame DEF Base, TypeOK
    <3> QED BY <1>2, <2>1, <3>1, FrameOpen DEF RecvData
  <2>3. pcbOf[tcpPcbs[pcb[a].arg]] # None
    BY <2>1, CallbackFacts, NoneAssumption
  <2>4. Fresh'
    BY <1>2, <2>1, <2>3 DEF Fresh, RecvData
  <2>5. QueuedClosed'
    BY <1>2 DEF QueuedClosed, RecvData
  <2> QED BY <2>2, <2>4, <2>5
<1>3. ASSUME NEW a \in Blocks, RecvDataClosed(a)
      PROVE  Opens'
  <2>1. proc'.at = "close"
    BY <1>3 DEF RecvDataClosed, EnterRawClose, Closing
  <2> QED BY <1>3, <2>1, EnterRawCloseOpen, FrameFresh
          DEF RecvDataClosed, Active
<1>4. ASSUME NEW a \in Blocks, ReplayRefused(a)
      PROVE  Opens'
  BY <1>4, FrameOpen, FrameFresh DEF ReplayRefused
<1>5. ASSUME NEW a \in Blocks, RecvFin(a)
      PROVE  Opens'
  <2> DEFINE b == [pcb[a] EXCEPT !.st = IF pcb[a].st = "ESTABLISHED"
                                        THEN "CLOSE_WAIT" ELSE "TIME_WAIT"]
  <2>1. EnterRawClose(a, pcb[a].arg, b, "fin")
    BY <1>5 DEF RecvFin
  <2> HIDE DEF b
  <2>2. proc'.at = "close"
    BY <2>1 DEF EnterRawClose, Closing
  <2> QED BY <1>5, <2>1, <2>2, EnterRawCloseOpen, FrameFresh
          DEF RecvFin, Active
<1>6. ASSUME NEW a \in Blocks, RecvRst(a)
      PROVE  Opens'
  <2>1. proc'.at = "close"
    BY <1>6 DEF RecvRst, EnterRawClose, Closing
  <2> QED BY <1>6, <2>1, EnterRawCloseOpen, FrameFresh DEF RecvRst, Active
<1>7. ASSUME NEW a \in Blocks, RecvLastAck(a)
      PROVE  Opens'
  <2>1. \A b \in Blocks : pcb[b].st = "ESTABLISHED" => pcb'[b] = pcb[b]
    BY <1>7 DEF RecvLastAck, Base, TypeOK
  <2> QED BY <1>7, <2>1, FrameOpen, FrameFresh DEF RecvLastAck
<1>8. ASSUME NEW a \in Blocks, KillPrio(a)
      PROVE  Opens'
  <2>1. pcb[a].st \notin {"FREE", "TIME_WAIT", "LAST_ACK"}
    BY <1>8 DEF KillPrio, Allocatable
  <2>2. pcb[a].st \in Active /\ proc.at = "idle"
    BY <1>0, <1>8, <2>1 DEF KillPrio, Base, BlockOK, PcbRec, PcbStates, Active
  <2>3. proc'.at = "close"
    BY <1>8 DEF KillPrio, EnterRawClose, Closing
  <2> QED BY <1>8, <2>2, <2>3, EnterRawCloseOpen, FrameFresh DEF KillPrio
<1>9. ASSUME NEW a \in Blocks, NEW n \in 1 .. SndBuf, RecvAck(a, n)
      PROVE  Opens'
  <2>1. /\ \A b \in Blocks : pcb'[b].st = pcb[b].st /\ pcb'[b].conn = pcb[b].conn
        /\ proc.at = "idle"
        /\ proc' = proc \/ (proc'.at = "done" /\ proc'.pcb = None)
    BY <1>9, RecvAckFrame
  <2> QED BY <1>9, <2>1, FrameOpen, FrameFresh DEF RecvAck
<1> QED BY <1>1, <1>2, <1>3, <1>4, <1>5, <1>6, <1>7, <1>8, <1>9 DEF Input

\* Every step of Proc keeps the open connections open, unless it closes the
\* block of another one.
LEMMA ProcOpens ==
  ASSUME Base, Handles, Opens, Proc, OwnClose
  PROVE  Opens'
<1> USE DEF Opens
<1>0. \A b \in Blocks : pcb[b] \in PcbRec
  BY DEF Base, TypeOK
<1>1. CASE ProcRecvPut
  <2>1. OpenOK'
    BY <1>1, FrameOpen DEF ProcRecvPut, Idle
  <2>2. QueuedClosed'
    BY <1>1 DEF QueuedClosed, ProcRecvPut
  <2>3. Fresh'
    BY <1>1 DEF Fresh, ProcRecvPut, Idle, Base, TypeOK
  <2> QED BY <2>1, <2>2, <2>3
<1>2. CASE ProcDonePut
  BY <1>2, FrameOpen, FrameFresh DEF ProcDonePut, Idle
<1>3. CASE ProcRawClose
  <2>1. proc.at = "close" /\ proc.conn \in Conns /\ proc'.at = "idle"
          /\ proc'.pcb = None /\ pcbOf[proc.conn] = proc.pcb
    BY <1>3 DEF ProcRawClose, Idle, Handles, Places
  <2>2. /\ err' = [err EXCEPT ![proc.conn] = TRUE] /\ pcbOf' = pcbOf
        /\ \A b \in Blocks : b # proc.pcb => pcb'[b] = pcb[b]
    BY <1>3 DEF ProcRawClose, Base, TypeOK
  <2>3. OpenOK'
    <3> SUFFICES ASSUME NEW c \in Conns, pcbOf[c] # None, ~err'[c]
                 PROVE  /\ pcb'[pcbOf[c]].conn = c
                        /\ pcb'[pcbOf[c]].st = "ESTABLISHED"
                        /\ proc'.pcb # pcbOf[c]
      BY <2>1, <2>2 DEF OpenOK
    <3>1. c # proc.conn /\ ~err[c] /\ pcbOf[c] \in Blocks
      BY <2>1, <2>2 DEF Base, TypeOK
    <3>2. /\ pcb[pcbOf[c]].conn = c /\ pcb[pcbOf[c]].st = "ESTABLISHED"
          /\ proc.pcb # pcbOf[c]
      BY <3>1 DEF OpenOK
    <3> QED BY <2>1, <2>2, <3>1, <3>2
  <2>4. \A c \in Conns : err[c] => err'[c]
    BY <2>1, <2>2 DEF Base, TypeOK
  <2> QED BY <1>3, <2>1, <2>3, <2>4, FrameFresh DEF ProcRawClose
<1>4. CASE ProcRecved
  <2>1. \A b \in Blocks : pcb'[b] = pcb[b] \/ pcb'[b] = Recved(pcb[b])
    BY <1>4 DEF ProcRecved, Base, TypeOK
  <2>2. \A b \in Blocks : pcb'[b].st = pcb[b].st /\ pcb'[b].conn = pcb[b].conn
    BY <1>0, <2>1, RecvedType
  <2>3. OpenOK'
    BY <1>4, <2>2, FrameOpen DEF ProcRecved
  <2>4. QueuedClosed'
    BY <1>4 DEF QueuedClosed, ProcRecved
  <2>5. \A i \in 1 .. Len(recvedQ') :
          i + 1 \in 1 .. Len(recvedQ) /\ recvedQ'[i] = recvedQ[i + 1]
    BY <1>4 DEF ProcRecved, Base, TypeOK
  <2>6. Fresh'
    BY <1>4, <2>5 DEF Fresh, ProcRecved
  <2> QED BY <2>3, <2>4, <2>6
<1>5. CASE ProcClose
  <2> DEFINE h == Head(closeQ)
             a == pcbOf[h]
  <2>1. h = closeQ[1] /\ 1 \in 1 .. Len(closeQ) /\ h \in Conns
    BY <1>5 DEF ProcClose, Base, TypeOK
  <2>2. err[h]
    BY <2>1 DEF QueuedClosed
  <2>3. \A b \in Blocks : b # a => pcb'[b] = pcb[b]
    BY <1>5 DEF ProcClose, Base, TypeOK
  <2>4. pcb[a].conn \in {None, h}
    BY <1>5 DEF ProcClose, OwnClose
  <2>5. OpenOK'
    <3> SUFFICES ASSUME NEW c \in Conns, pcbOf[c] # None, ~err[c]
                 PROVE  /\ pcb'[pcbOf[c]].conn = c
                        /\ pcb'[pcbOf[c]].st = "ESTABLISHED"
                        /\ proc'.pcb # pcbOf[c]
      BY <1>5 DEF OpenOK, ProcClose
    <3> HIDE DEF h
    <3>1. /\ pcb[pcbOf[c]].conn = c /\ pcb[pcbOf[c]].st = "ESTABLISHED"
          /\ proc.pcb # pcbOf[c] /\ pcbOf[c] \in Blocks /\ c # h
      BY <1>5, <2>2 DEF OpenOK, ProcClose, Base, TypeOK
    <3>2. pcbOf[c] # a
      BY <2>4, <3>1, NoneAssumption
    <3>3. proc' = proc
      BY <1>5 DEF ProcClose
    <3> QED BY <2>3, <3>1, <3>2, <3>3
  <2>6. QueuedClosed'
    <3>1. \A i \in 1 .. Len(closeQ') :
            i + 1 \in 1 .. Len(closeQ) /\ closeQ'[i] = closeQ[i + 1]
      BY <1>5 DEF ProcClose, Base, TypeOK
    <3> QED BY <1>5, <3>1 DEF QueuedClosed, ProcClose
  <2>7. Fresh'
    BY <1>5 DEF Fresh, ProcClose
  <2> QED BY <2>5, <2>6, <2>7
<1>6. CASE ProcSend
  BY <1>6, ProcSendFrame, FrameOpen, FrameFresh DEF ProcSend
<1> QED BY <1>1, <1>2, <1>3, <1>4, <1>5, <1>6 DEF Proc

\* The application closes only what it queues, and reads only what is made.
LEMMA AppOpens ==
  ASSUME Base, Opens, NEW c \in Conns, AppStep(c)
  PROVE  Opens'
<1> USE DEF Opens
<1>1. UNCHANGED <<pcbOf, pcb, proc>> /\ \A x \in Conns : err[x] => err'[x]
  BY DEF AppStep, Read, ReadCheck, ReadGet, ReadSmall, ReadEnd, ReadCredit,
         WriteCheck, WriteRest, WriteLock, WriteQueue, WriteDone, CloseLock,
         CloseQueue, goVars, queues, appVars, netVars,
         Base, TypeOK
<1>2. OpenOK'
  BY <1>1, FrameOpen
<1>3. Fresh'
  <2>1. CASE Read(c)
    <3>1. pcbOf[c] # None
      BY <2>1 DEF Fresh, Read, ReadCheck, ReadGet, ReadSmall, ReadEnd, ReadCredit
    <3>2. \A x \in Conns : x # c => recvQ'[x] = recvQ[x] /\ rpc'[x] = rpc[x]
      BY <2>1 DEF Read, ReadCheck, ReadGet, ReadSmall, ReadEnd, ReadCredit,
                  Base, TypeOK, goVars, queues, appVars, netVars
    <3>3. \A i \in 1 .. Len(recvedQ') :
            recvedQ'[i] = c \/ (i \in 1 .. Len(recvedQ) /\ recvedQ'[i] = recvedQ[i])
      <4>1. CASE ReadCredit(c)
        <5>1. recvedQ \in Seq(Conns) /\ recvedQ' = Append(recvedQ, c)
          BY <4>1 DEF ReadCredit, Base, TypeOK
        <5> QED BY <5>1
      <4>2. CASE recvedQ' = recvedQ
        BY <4>2
      <4> QED BY <2>1, <4>1, <4>2
              DEF Read, ReadCheck, ReadGet, ReadSmall, ReadEnd, goVars, queues, appVars, netVars
    <3> QED BY <1>1, <3>1, <3>2, <3>3 DEF Fresh
  <2>2. CASE ~Read(c)
    <3>1. UNCHANGED <<recvQ, rpc, recvedQ>>
      BY <2>2 DEF AppStep, WriteCheck, WriteRest, WriteLock, WriteQueue,
                  WriteDone, CloseLock, CloseQueue
    <3> QED BY <1>1, <3>1 DEF Fresh
  <2> QED BY <2>1, <2>2
<1>4. QueuedClosed'
  <2>1. \A i \in 1 .. Len(closeQ) : closeQ[i] \in Conns
    BY DEF Base, TypeOK
  <2>2. CASE CloseLock(c)
    BY <1>1, <2>1, <2>2 DEF CloseLock, QueuedClosed, Base, TypeOK
  <2>3. CASE CloseQueue(c)
    <3>1. \A i \in 1 .. Len(closeQ') :
            closeQ'[i] = c \/ (i \in 1 .. Len(closeQ) /\ closeQ'[i] = closeQ[i])
      <4>1. closeQ \in Seq(Conns) /\ closeQ' = Append(closeQ, c)
        BY <2>3 DEF CloseQueue, Base, TypeOK
      <4> QED BY <4>1
    <3>2. err' = err /\ err[c]
      BY <2>3 DEF CloseQueue, QueuedClosed
    <3>3. \A x \in Conns : cpc'[x] = "queue" => cpc[x] = "queue"
      BY <2>3 DEF CloseQueue, Base, TypeOK
    <3> QED BY <2>1, <3>1, <3>2, <3>3 DEF QueuedClosed
  <2>4. CASE ~CloseLock(c) /\ ~CloseQueue(c)
    <3>1. UNCHANGED <<closeQ, cpc, err>>
      BY <2>4 DEF AppStep, Read, ReadCheck, ReadGet, ReadSmall, ReadEnd,
                  ReadCredit, WriteCheck, WriteRest, WriteLock, WriteQueue,
                  WriteDone, goVars, queues, appVars, netVars
    <3> QED BY <3>1 DEF QueuedClosed
  <2> QED BY <2>2, <2>3, <2>4
<1> QED BY <1>2, <1>3, <1>4

\* A step that closes no block of another connection keeps open connections
\* open.
LEMMA StepOpens ==
  ASSUME Base, Handles, Opens, Step, OwnClose
  PROVE  Opens'
BY InputOpens, ProcOpens, AppOpens DEF Step

\* A stuttering step does.
LEMMA StutterOpens ==
  ASSUME Base, Opens, UNCHANGED vars
  PROVE  Opens'
<1>1. UNCHANGED <<goVars, queues, appVars, netVars, proc, fault>>
  BY DEF vars
<1> QED BY <1>1, FrameOpen, FrameFresh DEF Opens

\* As long as no tcp_close of go_netif_proc hits the block of another
\* connection, open connections stay open.
LEMMA SpecOpens == Spec /\ CloseNotForeign => [](IInv /\ Handles /\ Opens)
<1>1. Init => IInv /\ Handles /\ Opens
  BY InitIInv, InitHandles, InitOpens
<1>2. IInv /\ Handles /\ Opens /\ [Next]_vars /\ [OwnClose]_vars
        => (IInv /\ Handles /\ Opens)'
  <2> SUFFICES ASSUME IInv, Handles, Opens, [Next]_vars, [OwnClose]_vars
               PROVE  IInv' /\ Handles' /\ Opens'
    OBVIOUS
  <2>1. IInv' /\ Base
    BY NextIInv DEF IInv
  <2>2. CASE UNCHANGED vars
    BY <2>1, <2>2, StutterHandles, StutterOpens
  <2>3. CASE Next /\ OwnClose
    BY <2>1, <2>3, NextIsStep, StepHandles, StepOpens
  <2> QED BY <2>1, <2>2, <2>3
<1>3. CloseNotForeign => [][OwnClose]_vars
  BY PTL DEF CloseNotForeign, OwnClose
<1> QED BY <1>1, <1>2, <1>3, PTL DEF Spec

\* Read, Write and the entries of recvedQueue and sendQueue use p.pcb and
\* p.state without any check but p.err: as long as no late Close hits the block
\* of another connection (CloseNotForeign), whatever else happens - RST, FIN,
\* abort for want of blocks, addresses used again - a PCB with p.err = nil has
\* its own established block and its own allocated es.
THEOREM OpenHandlesLive == Spec /\ CloseNotForeign => []LiveHandles
<1>1. IInv /\ Handles /\ Opens => LiveHandles
  BY OpenIsLive DEF IInv
<1> QED BY <1>1, SpecOpens, PTL

-----------------------------------------------------------------------------
(* The receive window.                                                     *)

\* How often x is in the queue q.
CountIn(q, x) == Cardinality({i \in 1 .. Len(q) : q[i] = x})

\* The count is a number.
LEMMA CountType ==
  ASSUME NEW S, NEW q \in Seq(S), NEW x
  PROVE  /\ IsFiniteSet({i \in 1 .. Len(q) : q[i] = x})
         /\ CountIn(q, x) \in Nat
         /\ (\A i \in 1 .. Len(q) : q[i] # x) => CountIn(q, x) = 0
<1> DEFINE A == {i \in 1 .. Len(q) : q[i] = x}
<1>1. IsFiniteSet(1 .. Len(q))
  BY FS_Interval
<1>2. A \in SUBSET (1 .. Len(q))
  OBVIOUS
<1>3. IsFiniteSet(A)
  <2> HIDE DEF A
  <2> QED BY <1>1, <1>2, FS_Subset
<1>4. (\A i \in 1 .. Len(q) : q[i] # x) => A = {}
  OBVIOUS
<1> QED BY <1>3, <1>4, FS_CardinalityType, FS_EmptySet DEF CountIn

\* An element put in the queue is counted once.
LEMMA CountAppend ==
  ASSUME NEW S, NEW q \in Seq(S), NEW x, NEW y \in S
  PROVE  CountIn(Append(q, y), x) = CountIn(q, x) + (IF y = x THEN 1 ELSE 0)
<1> DEFINE A == {i \in 1 .. Len(q) : q[i] = x}
           B == {i \in 1 .. Len(Append(q, y)) : Append(q, y)[i] = x}
           n == Len(q) + 1
<1>1. IsFiniteSet(A) /\ CountIn(q, x) \in Nat /\ CountIn(q, x) = Cardinality(A)
  BY CountType DEF CountIn
<1>2. n \notin A
  OBVIOUS
<1>3. /\ Len(Append(q, y)) = n /\ Append(q, y)[n] = y
      /\ \A i \in 1 .. Len(q) : Append(q, y)[i] = q[i]
  OBVIOUS
<1>4. B = IF y = x THEN A \cup {n} ELSE A
  <2>1. 1 .. n = (1 .. Len(q)) \cup {n}
    OBVIOUS
  <2> HIDE DEF n
  <2> QED BY <1>2, <1>3, <2>1
<1>5. CountIn(Append(q, y), x) = Cardinality(B)
  BY DEF CountIn
<1> HIDE DEF A, B, n
<1>6. Cardinality(A \cup {n}) = Cardinality(A) + 1
  BY <1>1, <1>2, FS_AddElement
<1> QED BY <1>1, <1>4, <1>5, <1>6

\* An element taken from the queue was counted once.
LEMMA CountTail ==
  ASSUME NEW S, NEW q \in Seq(S), NEW x, q # <<>>
  PROVE  CountIn(q, x) = CountIn(Tail(q), x) + (IF Head(q) = x THEN 1 ELSE 0)
<1> DEFINE A == {i \in 1 .. Len(Tail(q)) : Tail(q)[i] = x}
           B == {i \in 2 .. Len(q) : q[i] = x}
           C == {i \in 1 .. Len(q) : q[i] = x}
           f == [i \in A |-> i + 1]
<1>1. Tail(q) \in Seq(S) /\ Len(q) \in Nat /\ Len(q) >= 1 /\ Head(q) = q[1]
  OBVIOUS
<1>2. Len(Tail(q)) = Len(q) - 1 /\ \A i \in 1 .. Len(q) - 1 : Tail(q)[i] = q[i + 1]
  OBVIOUS
<1>3. IsFiniteSet(A) /\ CountIn(Tail(q), x) \in Nat
        /\ CountIn(Tail(q), x) = Cardinality(A)
  BY <1>1, CountType DEF CountIn
<1>4. f \in [A -> B] /\ \A i \in A : f[i] = i + 1
  BY <1>1, <1>2
<1>5. \A i \in A : i \in Int
  BY <1>1, <1>2
<1>6. \A j \in B : j - 1 \in A /\ f[j - 1] = j
  BY <1>1, <1>2, <1>4
<1>7. f \in Bijection(A, B)
  <2> HIDE DEF A, B, f
  <2>1. \A i, j \in A : f[i] = f[j] => i = j
    BY <1>4, <1>5
  <2>2. f \in Injection(A, B)
    BY <1>4, <2>1 DEF Injection, IsInjective
  <2>3. f \in Surjection(A, B)
    BY <1>4, <1>6 DEF Surjection
  <2> QED BY <2>2, <2>3 DEF Bijection
<1>8. IsFiniteSet(B) /\ Cardinality(B) = Cardinality(A)
  <2> HIDE DEF A, B, f
  <2> QED BY <1>3, <1>7, FS_Bijection DEF ExistsBijection
<1>9. 1 \notin B
  OBVIOUS
<1>10. C = IF Head(q) = x THEN B \cup {1} ELSE B
  BY <1>1
<1>11. CountIn(q, x) = Cardinality(C)
  BY DEF CountIn
<1> HIDE DEF A, B, C
<1>12. Cardinality(B \cup {1}) = Cardinality(B) + 1
  BY <1>8, <1>9, FS_AddElement
<1> QED BY <1>3, <1>8, <1>10, <1>11, <1>12

\* InFlight as a function of what it depends on: the channels recvQueued and
\* recvedQueue, the readers and Proc.
Flying(x, rq, cq, pc, pr) ==
  Len(rq[x]) + CountIn(cq, x) + (IF pc[x] = "credit" THEN 1 ELSE 0)
    + (IF pr.at = "recv" /\ pr.conn = x THEN 1 ELSE 0)

\* WindowConserved, in terms of it.
Window ==
  \A a \in Blocks :
    pcb[a].st = "ESTABLISHED" /\ ~err[pcb[a].conn] =>
      pcb[a].unread = Flying(pcb[a].conn, recvQ, recvedQ, rpc, proc)

\* The two say the same.
LEMMA WindowMeans == Window <=> WindowConserved
<1>1. \A x : InFlight(x) = Flying(x, recvQ, recvedQ, rpc, proc)
  BY Zenon DEF InFlight, Flying, CountIn
<1> QED BY <1>1 DEF Window, WindowConserved

\* What is in flight before and after a step.
Now(x) == Flying(x, recvQ, recvedQ, rpc, proc)
Then(x) == Flying(x, recvQ', recvedQ', rpc', proc')

USE DEF Now, Then

\* The parts are numbers.
LEMMA FlyingType ==
  ASSUME Base, NEW x \in Conns
  PROVE  Len(recvQ[x]) \in Nat /\ CountIn(recvedQ, x) \in Nat
<1>1. recvQ[x] \in Seq(Chunks) /\ recvedQ \in Seq(Conns)
  BY DEF Base, TypeOK
<1>2. Len(recvQ[x]) \in Nat
  BY <1>1
<1>3. CountIn(recvedQ, x) \in Nat
  BY <1>1, CountType
<1> QED BY <1>2, <1>3

\* A step that moves no chunk.
LEMMA FrameFlight ==
  ASSUME recvQ' = recvQ, recvedQ' = recvedQ, rpc' = rpc,
         \/ proc' = proc
         \/ proc.at # "recv" /\ proc'.at # "recv",
         NEW x \in Conns
  PROVE  Then(x) = Now(x)
BY DEF Flying

\* A step that establishes no block, moves no window, and of an open connection
\* no chunk out of sight.
LEMMA FrameWindow ==
  ASSUME Base, Window,
         \A x \in Conns : err[x] => err'[x],
         \A b \in Blocks : pcb'[b].st = "ESTABLISHED" =>
           /\ pcb[b].st = "ESTABLISHED" /\ pcb'[b].conn = pcb[b].conn
           /\ pcb'[b].unread = pcb[b].unread,
         \A x \in Conns : err'[x] \/ Then(x) = Now(x)
  PROVE  Window'
<1> SUFFICES ASSUME NEW a \in Blocks, pcb'[a].st = "ESTABLISHED",
                    ~err'[pcb'[a].conn]
             PROVE  pcb'[a].unread = Then(pcb'[a].conn)
  BY DEF Window
<1>1. /\ pcb[a].st = "ESTABLISHED" /\ pcb'[a].conn = pcb[a].conn
      /\ pcb'[a].unread = pcb[a].unread
  OBVIOUS
<1>2. pcb[a].conn \in Conns
  BY <1>1 DEF Base, BlockOK
<1>3. pcb[a].unread = Now(pcb[a].conn)
  BY <1>1, <1>2 DEF Window
<1>4. Then(pcb[a].conn) = Now(pcb[a].conn)
  BY <1>1, <1>2
<1>5. Then(pcb'[a].conn) = Then(pcb[a].conn)
  BY <1>1 DEF Flying
<1> QED BY <1>1, <1>3, <1>4, <1>5

\* The first half of cs_tcp_raw_close moves no window.
LEMMA EnterRawCloseWindow ==
  ASSUME Base, Window, proc.at = "idle", NEW a \in Blocks,
         NEW b \in PcbRec,
         b.st = "ESTABLISHED" =>
           /\ pcb[a].st = "ESTABLISHED" /\ b.conn = pcb[a].conn
           /\ b.unread = pcb[a].unread,
         NEW e, NEW how, EnterRawClose(a, e, b, how),
         UNCHANGED <<err, recvQ, recvedQ, rpc>>
  PROVE  Window'
<1>1. /\ pcb'[a].st = b.st /\ pcb'[a].conn = b.conn /\ pcb'[a].unread = b.unread
      /\ \A x \in Blocks : x # a => pcb'[x] = pcb[x]
  BY DEF EnterRawClose, Base, TypeOK, PcbRec
<1>2. proc'.at = "close"
  BY DEF EnterRawClose, Closing
<1>3. \A x \in Conns : Then(x) = Now(x)
  BY <1>2, FrameFlight
<1> QED BY <1>1, <1>3, FrameWindow

\* A chunk that arrives is in Proc's hand.
LEMMA RecvDataWindow ==
  ASSUME Base, Handles, Window, NEW a \in Blocks, RecvData(a)
  PROVE  Window'
<1> DEFINE c == pcb[a].conn
<1>1. /\ proc.at = "idle" /\ pcb[a].st = "ESTABLISHED"
      /\ UNCHANGED <<err, recvQ, recvedQ, rpc>>
  BY DEF RecvData
<1>2. tcpPcbs[pcb[a].arg] = c /\ c \in Conns /\ pcbOf[c] = a
  BY <1>1, CallbackFacts DEF Active
<1>3. PICK r \in PcbRec :
           /\ pcb' = [pcb EXCEPT ![a] = r]
           /\ r.st = pcb[a].st /\ r.conn = pcb[a].conn
           /\ r.unread = pcb[a].unread + 1
  BY RecvDataFrame
<1>4. /\ pcb'[a] = r
      /\ \A x \in Blocks : x # a => pcb'[x] = pcb[x]
  BY <1>3 DEF Base, TypeOK
<1>5. /\ err[c] => proc' = proc
      /\ ~err[c] => proc'.at = "recv" /\ proc'.conn = c
  BY <1>2, NoneAssumption DEF RecvData, Sending
<1>6. \A x \in Conns : x # c => Then(x) = Now(x)
  BY <1>1, <1>5 DEF Flying
<1>7. ~err[c] => Then(c) = Now(c) + 1
  <2>1. Len(recvQ[c]) \in Nat /\ CountIn(recvedQ, c) \in Nat
    BY <1>2, FlyingType
  <2> HIDE DEF c
  <2> QED BY <1>1, <1>5, <2>1 DEF Flying
<1> SUFFICES ASSUME NEW b \in Blocks, pcb'[b].st = "ESTABLISHED",
                    ~err[pcb'[b].conn]
             PROVE  pcb'[b].unread = Then(pcb'[b].conn)
  BY <1>1 DEF Window
<1>8. CASE b = a
  <2>1. pcb'[b].conn = c
    BY <1>3, <1>4, <1>8
  <2>2. pcb[a].unread = Now(c) /\ ~err[c]
    BY <1>1, <2>1 DEF Window
  <2> HIDE DEF c
  <2> QED BY <1>3, <1>4, <1>7, <1>8, <2>1, <2>2
<1>9. CASE b # a
  <2>1. pcb'[b] = pcb[b]
    BY <1>4, <1>9
  <2>2. pcb[b].conn \in Conns /\ pcbOf[pcb[b].conn] = b
    BY <2>1 DEF Base, BlockOK, Handles, Owned
  <2>3. pcb[b].unread = Now(pcb[b].conn)
    BY <2>1 DEF Window
  <2>4. Then(pcb[b].conn) = Now(pcb[b].conn)
    BY <1>2, <1>6, <1>9, <2>2
  <2> QED BY <2>1, <2>3, <2>4
<1> QED BY <1>8, <1>9

\* Every segment that arrives keeps the windows right.
LEMMA InputWindow ==
  ASSUME Base, Handles, Opens, Window, Input
  PROVE  Window'
<1>0. \A b \in Blocks : pcb[b] \in PcbRec
  BY DEF Base, TypeOK
<1>1. ASSUME NEW c \in Conns, NEW a \in Blocks, NEW e \in Heap, Accept(c, a, e)
      PROVE  Window'
  <2>1. /\ proc.at = "idle" /\ proc' = proc /\ pcbOf[c] = None
        /\ UNCHANGED <<err, recvQ, recvedQ, rpc>>
    BY <1>1 DEF Accept
  <2>2. pcb'[a] = NewPcb(c, e) /\ \A x \in Blocks : x # a => pcb'[x] = pcb[x]
    BY <1>1, AcceptHandles DEF Accept, Base, TypeOK
  <2>3. \A x \in Conns : Then(x) = Now(x)
    BY <2>1, FrameFlight
  <2>4. Now(c) = 0
    <3>1. /\ recvQ[c] = <<>> /\ rpc[c] = "idle"
          /\ \A i \in 1 .. Len(recvedQ) : recvedQ[i] # c
      BY <2>1 DEF Opens, Fresh
    <3>2. CountIn(recvedQ, c) = 0
      BY <3>1, CountType DEF Base, TypeOK
    <3> QED BY <2>1, <3>1, <3>2 DEF Flying
  <2> SUFFICES ASSUME NEW b \in Blocks, pcb'[b].st = "ESTABLISHED",
                      ~err[pcb'[b].conn]
               PROVE  pcb'[b].unread = Then(pcb'[b].conn)
    BY <2>1 DEF Window
  <2>5. CASE b = a
    BY <2>2, <2>3, <2>4, <2>5 DEF NewPcb
  <2>6. CASE b # a
    <3>1. pcb'[b] = pcb[b]
      BY <2>2, <2>6
    <3>2. pcb[b].conn \in Conns /\ pcb[b].unread = Now(pcb[b].conn)
      BY <3>1 DEF Window, Base, BlockOK
    <3> QED BY <2>3, <3>1, <3>2
  <2> QED BY <2>5, <2>6
<1>2. ASSUME NEW a \in Blocks, RecvData(a)
      PROVE  Window'
  BY <1>2, RecvDataWindow
<1>3. ASSUME NEW a \in Blocks, RecvDataClosed(a)
      PROVE  Window'
  BY <1>3, EnterRawCloseWindow, FreeTypes DEF RecvDataClosed
<1>4. ASSUME NEW a \in Blocks, ReplayRefused(a)
      PROVE  Window'
  BY <1>4, FrameFlight, FrameWindow DEF ReplayRefused
<1>5. ASSUME NEW a \in Blocks, RecvFin(a)
      PROVE  Window'
  <2> DEFINE s == IF pcb[a].st = "ESTABLISHED" THEN "CLOSE_WAIT"
                  ELSE "TIME_WAIT"
             b == [pcb[a] EXCEPT !.st = s]
  <2>1. b \in PcbRec /\ b.st # "ESTABLISHED"
    BY <1>0 DEF PcbRec, PcbStates
  <2>2. EnterRawClose(a, pcb[a].arg, b, "fin")
    BY <1>5 DEF RecvFin
  <2> HIDE DEF b
  <2> QED BY <1>5, <2>1, <2>2, EnterRawCloseWindow DEF RecvFin
<1>6. ASSUME NEW a \in Blocks, RecvRst(a)
      PROVE  Window'
  BY <1>0, <1>6, EnterRawCloseWindow DEF RecvRst
<1>7. ASSUME NEW a \in Blocks, RecvLastAck(a)
      PROVE  Window'
  <2>1. \A b \in Blocks : pcb'[b] = pcb[b] \/ pcb'[b].st = "FREE"
    BY <1>7, FreeTypes DEF RecvLastAck, Base, TypeOK
  <2> QED BY <1>7, <2>1, FrameFlight, FrameWindow DEF RecvLastAck
<1>8. ASSUME NEW a \in Blocks, KillPrio(a)
      PROVE  Window'
  BY <1>8, EnterRawCloseWindow, FreeTypes DEF KillPrio
<1>9. ASSUME NEW a \in Blocks, NEW n \in 1 .. SndBuf, RecvAck(a, n)
      PROVE  Window'
  <2>1. /\ \A b \in Blocks : /\ pcb'[b].st = pcb[b].st
                             /\ pcb'[b].conn = pcb[b].conn
                             /\ pcb'[b].unread = pcb[b].unread
        /\ proc.at = "idle"
        /\ proc' = proc \/ proc'.at = "done"
    BY <1>9, RecvAckFrame
  <2>2. \A x \in Conns : Then(x) = Now(x)
    BY <1>9, <2>1, FrameFlight DEF RecvAck
  <2> QED BY <1>9, <2>1, <2>2, FrameWindow DEF RecvAck
<1> QED BY <1>1, <1>2, <1>3, <1>4, <1>5, <1>6, <1>7, <1>8, <1>9 DEF Input

\* recvedQueue: tcp_recved of the chunk opens the window of its own block.
LEMMA ProcRecvedWindow ==
  ASSUME Base, Handles, Opens, Window, ProcRecved
  PROVE  Window'
<1> DEFINE c == Head(recvedQ)
           a == pcbOf[c]
<1>1. /\ proc.at = "idle" /\ recvedQ # <<>> /\ recvedQ' = Tail(recvedQ)
      /\ UNCHANGED <<err, recvQ, rpc, proc>>
  BY DEF ProcRecved
<1>2. /\ c \in Conns /\ c = recvedQ[1] /\ 1 \in 1 .. Len(recvedQ)
      /\ recvedQ \in Seq(Conns)
  BY <1>1 DEF Base, TypeOK
<1>3. \A x \in Conns :
        CountIn(recvedQ, x) = CountIn(recvedQ', x) + (IF c = x THEN 1 ELSE 0)
  BY <1>1, <1>2, CountTail
<1>4. \A x \in Conns :
        CountIn(recvedQ', x) \in Nat /\ Len(recvQ[x]) \in Nat
  <2>1. recvedQ' \in Seq(Conns)
    BY <1>1, <1>2
  <2>2. \A x \in Conns : CountIn(recvedQ', x) \in Nat
    BY <2>1, CountType
  <2> QED BY <2>2, FlyingType
<1> HIDE DEF c
<1>5. \A x \in Conns : x # c => Then(x) = Now(x)
  BY <1>1, <1>3, <1>4 DEF Flying
<1>6. Now(c) = Then(c) + 1 /\ Then(c) \in Nat
  <2>1. proc'.at # "recv" /\ proc.at # "recv" /\ rpc'[c] = rpc[c]
          /\ recvQ'[c] = recvQ[c]
    BY <1>1
  <2>2. CountIn(recvedQ, c) = CountIn(recvedQ', c) + 1
    BY <1>2, <1>3
  <2>3. CountIn(recvedQ', c) \in Nat /\ Len(recvQ[c]) \in Nat
    BY <1>2, <1>4
  <2> QED BY <2>1, <2>2, <2>3 DEF Flying
<1>7. CASE err[c]
  <2>1. pcb' = pcb
    BY <1>7 DEF ProcRecved, c
  <2> HIDE DEF Now, Then
  <2> QED BY <1>1, <1>5, <1>7, <2>1, FrameWindow
<1>8. CASE ~err[c]
  <2>1. a \in Blocks /\ pcb[a].conn = c /\ pcb[a].st = "ESTABLISHED"
    <3>1. a # None
      BY <1>2 DEF Opens, Fresh
    <3> QED BY <1>1, <1>2, <1>8, <3>1 DEF Opens, OpenOK, Base, TypeOK
  <2>2. /\ pcb'[a] = Recved(pcb[a])
        /\ \A x \in Blocks : x # a => pcb'[x] = pcb[x]
    BY <1>8, <2>1 DEF ProcRecved, Base, TypeOK, c
  <2>3. pcb[a] \in PcbRec /\ pcb[a].unread = Now(c)
    BY <1>8, <2>1 DEF Window, Base, TypeOK
  <2>4. Recved(pcb[a]).unread = Then(c)
    <3>1. pcb[a].unread > 0 /\ pcb[a].unread - 1 = Then(c)
      BY <1>6, <2>3
    <3>2. Recved(pcb[a]) = [pcb[a] EXCEPT !.unread = pcb[a].unread - 1]
      BY <3>1 DEF Recved
    <3> HIDE DEF Now, Then
    <3> QED BY <2>3, <3>1, <3>2 DEF PcbRec
  <2> SUFFICES ASSUME NEW b \in Blocks, pcb'[b].st = "ESTABLISHED",
                      ~err[pcb'[b].conn]
               PROVE  pcb'[b].unread = Then(pcb'[b].conn)
    BY <1>1 DEF Window
  <2>5. CASE b = a
    <3>1. pcb'[b].conn = c
      BY <2>1, <2>2, <2>3, <2>5, RecvedType
    <3> QED BY <2>2, <2>4, <2>5, <3>1
  <2>6. CASE b # a
    <3>1. pcb'[b] = pcb[b]
      BY <2>2, <2>6
    <3>2. /\ pcb[b].conn \in Conns /\ pcbOf[pcb[b].conn] = b
          /\ pcb[b].unread = Now(pcb[b].conn)
      BY <3>1 DEF Window, Base, BlockOK, Handles, Owned
    <3> HIDE DEF Now, Then
    <3> QED BY <1>5, <2>6, <3>1, <3>2
  <2> QED BY <2>5, <2>6
<1> QED BY <1>7, <1>8

\* Every step of Proc keeps the windows right.
LEMMA ProcWindow ==
  ASSUME Base, Handles, Opens, Window, Proc
  PROVE  Window'
<1>0. \A b \in Blocks : pcb[b] \in PcbRec
  BY DEF Base, TypeOK
<1>1. CASE ProcRecvPut
  <2> DEFINE c == proc.conn
  <2>1. /\ c \in Conns /\ proc.at = "recv" /\ proc'.at = "idle"
        /\ UNCHANGED <<err, recvedQ, rpc, pcb>>
    BY <1>1 DEF ProcRecvPut, Idle, Base, ProcOK
  <2>2. \A x \in Conns : x # c => Then(x) = Now(x)
    <3>1. \A x \in Conns : x # c => recvQ'[x] = recvQ[x]
      BY <1>1 DEF ProcRecvPut, Base, TypeOK
    <3> QED BY <2>1, <3>1 DEF Flying
  <2>3. CASE err[c]
    <3> HIDE DEF Now, Then
    <3> QED BY <2>1, <2>2, <2>3, FrameWindow
  <2>4. CASE ~err[c]
    <3>1. /\ recvQ[c] \in Seq(Chunks)
          /\ recvQ'[c] = Append(recvQ[c], proc.data)
      BY <1>1, <2>1, <2>4 DEF ProcRecvPut, Base, TypeOK
    <3>2. Len(recvQ'[c]) = Len(recvQ[c]) + 1
      BY <3>1
    <3>3. Len(recvQ[c]) \in Nat /\ CountIn(recvedQ, c) \in Nat
      BY <2>1, FlyingType
    <3>4. Then(c) = Now(c)
      BY <2>1, <3>2, <3>3 DEF Flying
    <3> HIDE DEF Now, Then
    <3> QED BY <2>1, <2>2, <3>4, FrameWindow
  <2> QED BY <2>3, <2>4
<1>2. CASE ProcDonePut
  <2>1. \A x \in Conns : Then(x) = Now(x)
    BY <1>2, FrameFlight DEF ProcDonePut, Idle
  <2> QED BY <1>2, <2>1, FrameWindow DEF ProcDonePut
<1>3. CASE ProcRawClose
  <2>1. \A x \in Conns : Then(x) = Now(x)
    BY <1>3, FrameFlight DEF ProcRawClose, Idle
  <2>2. \A x \in Conns : err[x] => err'[x]
    BY <1>3 DEF ProcRawClose, Base, TypeOK
  <2>3. proc.pcb \in Blocks /\ (proc.how = "reset" \/ pcb[proc.pcb].st \notin Active)
    BY <1>3 DEF ProcRawClose, Base, ProcOK, Active
  <2>4. pcb'[proc.pcb].st # "ESTABLISHED"
    BY <1>0, <1>3, <2>3, TcpCloseType, FreeTypes
       DEF ProcRawClose, Base, TypeOK, Active
  <2>5. \A b \in Blocks : b # proc.pcb => pcb'[b] = pcb[b]
    BY <1>3 DEF ProcRawClose, Base, TypeOK
  <2> QED BY <2>1, <2>2, <2>4, <2>5, FrameWindow
<1>4. CASE ProcRecved
  BY <1>4, ProcRecvedWindow
<1>5. CASE ProcClose
  <2>1. \A x \in Conns : Then(x) = Now(x)
    BY <1>5, FrameFlight DEF ProcClose
  <2>2. \A b \in Blocks : pcb'[b] = pcb[b] \/ pcb'[b] = TcpClose(pcb[b])
    BY <1>5 DEF ProcClose, Base, TypeOK
  <2>3. \A b \in Blocks : TcpClose(pcb[b]).st = "ESTABLISHED" =>
                            TcpClose(pcb[b]) = pcb[b]
    BY <1>0, TcpCloseStill
  <2> QED BY <1>5, <2>1, <2>2, <2>3, FrameWindow DEF ProcClose
<1>6. CASE ProcSend
  <2>1. \A x \in Conns : Then(x) = Now(x)
    BY <1>6, FrameFlight DEF ProcSend
  <2> QED BY <1>6, <2>1, ProcSendFrame, FrameWindow DEF ProcSend
<1> QED BY <1>1, <1>2, <1>3, <1>4, <1>5, <1>6 DEF Proc

\* Read moves a chunk from recvQueued to recvedQueue; nothing else of the
\* application touches one.
LEMMA AppWindow ==
  ASSUME Base, Window, NEW c \in Conns, AppStep(c)
  PROVE  Window'
<1>1. UNCHANGED <<pcb, proc>> /\ \A x \in Conns : err[x] => err'[x]
  BY DEF AppStep, Read, ReadCheck, ReadGet, ReadSmall, ReadEnd, ReadCredit,
         WriteCheck, WriteRest, WriteLock, WriteQueue, WriteDone, CloseLock,
         CloseQueue, goVars, queues, appVars, netVars,
         Base, TypeOK
<1>2. \A x \in Conns : Then(x) = Now(x)
  <2>1. CASE ReadCheck(c) \/ ReadEnd(c)
    <3>1. /\ UNCHANGED <<recvQ, recvedQ>>
          /\ \A x \in Conns : rpc'[x] = "credit" <=> rpc[x] = "credit"
      BY <2>1 DEF ReadCheck, ReadEnd, Base, TypeOK
    <3> QED BY <1>1, <3>1 DEF Flying
  <2>2. CASE ReadGet(c)
    <3>1. /\ recvQ[c] \in Seq(Chunks) /\ recvQ[c] # <<>>
          /\ recvQ'[c] = Tail(recvQ[c]) /\ recvedQ' = recvedQ
          /\ rpc[c] = "recv" /\ rpc'[c] = "credit"
          /\ \A x \in Conns : x # c => recvQ'[x] = recvQ[x] /\ rpc'[x] = rpc[x]
      BY <2>2 DEF ReadGet, Base, TypeOK
    <3>2. Len(recvQ[c]) = Len(recvQ'[c]) + 1
      BY <3>1
    <3>3. Len(recvQ[c]) \in Nat /\ CountIn(recvedQ, c) \in Nat
      BY FlyingType
    <3>4. Then(c) = Now(c)
      BY <1>1, <3>1, <3>2, <3>3 DEF Flying
    <3>5. \A x \in Conns : x # c => Then(x) = Now(x)
      BY <1>1, <3>1 DEF Flying
    <3> HIDE DEF Now, Then
    <3> QED BY <3>4, <3>5
  <2>3. CASE ReadCredit(c)
    <3>1. /\ recvedQ \in Seq(Conns) /\ recvedQ' = Append(recvedQ, c)
          /\ recvQ' = recvQ /\ rpc[c] = "credit" /\ rpc'[c] = "idle"
          /\ \A x \in Conns : x # c => rpc'[x] = rpc[x]
      BY <2>3 DEF ReadCredit, Base, TypeOK
    <3>2. \A x \in Conns :
            CountIn(recvedQ', x) = CountIn(recvedQ, x) + (IF c = x THEN 1 ELSE 0)
      BY <3>1, CountAppend
    <3>3. \A x \in Conns : Len(recvQ[x]) \in Nat /\ CountIn(recvedQ, x) \in Nat
      BY FlyingType
    <3>4. Then(c) = Now(c)
      <4>1. CountIn(recvedQ', c) = CountIn(recvedQ, c) + 1
        BY <3>2
      <4>2. /\ rpc[c] = "credit" /\ rpc'[c] = "idle" /\ recvQ'[c] = recvQ[c]
            /\ proc' = proc
        BY <1>1, <3>1
      <4>3. Len(recvQ[c]) \in Nat /\ CountIn(recvedQ, c) \in Nat
        BY <3>3
      <4> QED BY <4>1, <4>2, <4>3 DEF Flying
    <3>5. \A x \in Conns : x # c => Then(x) = Now(x)
      <4>1. \A x \in Conns : x # c => CountIn(recvedQ', x) = CountIn(recvedQ, x)
        BY <3>2, <3>3
      <4>2. proc' = proc /\ recvQ' = recvQ
        BY <1>1, <3>1
      <4>3. \A x \in Conns : x # c => rpc'[x] = rpc[x]
        BY <3>1
      <4> QED BY <4>1, <4>2, <4>3 DEF Flying
    <3> HIDE DEF Now, Then
    <3> QED BY <3>4, <3>5
  <2>4. CASE ~Read(c)
    <3>1. UNCHANGED <<recvQ, recvedQ, rpc>>
      BY <2>4 DEF AppStep, WriteCheck, WriteRest, WriteLock, WriteQueue,
                  WriteDone, CloseLock, CloseQueue
    <3> QED BY <1>1, <3>1, FrameFlight
  <2>5. CASE ReadSmall(c)
    <3>1. UNCHANGED <<recvQ, recvedQ, rpc>>
      BY <2>5 DEF ReadSmall, goVars, queues, appVars, netVars
    <3> QED BY <1>1, <3>1, FrameFlight
  <2> QED BY <2>1, <2>2, <2>3, <2>4, <2>5 DEF Read
<1> QED BY <1>1, <1>2, FrameWindow

\* Every step that keeps the open connections keeps their windows.
LEMMA StepWindow ==
  ASSUME Base, Handles, Opens, Window, Step
  PROVE  Window'
BY InputWindow, ProcWindow, AppWindow DEF Step

\* A stuttering step does.
LEMMA StutterWindow ==
  ASSUME Base, Window, UNCHANGED vars
  PROVE  Window'
<1>1. UNCHANGED <<goVars, queues, appVars, netVars, proc, fault>>
  BY DEF vars
<1> QED BY <1>1, FrameFlight, FrameWindow

\* No block is established at the start.
LEMMA InitWindow == Init => Window
BY DEF Init, Window, FreePcb

\* The windows of open connections stay right for as long as no tcp_close of
\* go_netif_proc hits the block of another connection.
LEMMA SpecWindow == Spec /\ CloseNotForeign => []Window
<1>1. IInv /\ Handles /\ Opens /\ Window /\ [Next]_vars => Window'
  <2> SUFFICES ASSUME IInv, Handles, Opens, Window, [Next]_vars
               PROVE  Window'
    OBVIOUS
  <2>1. Base
    BY DEF IInv
  <2> QED BY <2>1, NextIsStep, StepWindow, StutterWindow
<1> QED BY <1>1, InitWindow, SpecOpens, PTL DEF Spec

\* The receive window of an open connection is exactly what the peer has sent
\* and Read has not handed back to tcp_recved: for any number of connections
\* and chunks and any capacities, unless a late Close hits the block of another
\* connection, no chunk of data closes the window for good and none opens it
\* twice.
THEOREM WindowNeverLost == Spec /\ CloseNotForeign => []WindowConserved
<1>1. Window => WindowConserved
  BY WindowMeans
<1> QED BY <1>1, SpecWindow, PTL

-----------------------------------------------------------------------------
(* The echo server, which never calls Close.                               *)

\* io.Copy holds a chunk or nothing, and nobody closes.
EchoBase ==
  /\ held \in [Conns -> Chunks \cup {0}]
  /\ closeQ = <<>>
  /\ \A c \in Conns : cpc[c] = "idle"

\* What holds of the bridge when nobody closes locally: no data is refused, no
\* connection is half-closed by this side, a closed connection has been made
\* and has left tcpPcbs, Proc works for connections that are open, and a FIN
\* closes its connection.
Calm ==
  /\ \A a \in Blocks : ~pcb[a].refused /\ pcb[a].st # "FIN_WAIT"
  /\ \A c \in Conns :
       err[c] => pcbOf[c] # None /\ \A e \in Heap : tcpPcbs[e] # c
  /\ proc.at # "idle" => ~err[proc.conn]
  /\ proc.at = "close" => \A e \in Heap : tcpPcbs[e] # proc.conn
  /\ \A c \in Conns :
       peerFin[c] => err[c] \/ (proc.at = "close" /\ proc.conn = c)

\* Without pcb exhaustion Proc closes a connection that its peer has closed or
\* reset, whose block is still allocated, and nothing has gone wrong.
NoAbort ==
  /\ fault = "none"
  /\ proc.at = "close" => pcb[proc.pcb].st \in {"CLOSE_WAIT", "ESTABLISHED"}

\* A step of the echo server is one of the bridge, or io.Copy giving up.
LEMMA EchoIsStep ==
  ASSUME EchoBase, EchoNext
  PROVE  Step \/ UNCHANGED vars
<1>1. CASE Input \/ Proc
  BY <1>1 DEF Step
<1>2. ASSUME NEW c \in Conns, Copy(c)
      PROVE  Step \/ UNCHANGED vars
  <2>1. held[c] # 0 => held[c] \in Data
    <3>1. held[c] \in Chunks \cup {0}
      BY DEF EchoBase
    <3> QED BY <3>1, CapAssumption DEF Chunks, Data
  <2>2. ASSUME NEW w \in Writers, EchoWrite(c, w)
        PROVE  AppStep(c)
    BY <2>1, <2>2 DEF EchoWrite, AppStep
  <2>3. AppStep(c) \/ UNCHANGED vars
    BY <1>2, <2>2 DEF Copy, EchoRead, EchoGet, EchoWriteFail, EchoWriteDone,
                      AppStep, Read, WriteRest
  <2> QED BY <2>3 DEF Step
<1> QED BY <1>1, <1>2 DEF EchoNext

\* io.Copy closes nothing and takes its chunks from recvQueued.
LEMMA EchoBaseStep ==
  ASSUME Base, EchoBase, [EchoNext]_echoVars
  PROVE  EchoBase'
<1>1. CASE UNCHANGED echoVars
  BY <1>1 DEF echoVars, vars, EchoBase
<1>2. CASE Input /\ UNCHANGED held
  <2>1. UNCHANGED <<closeQ, cpc, held>>
    BY <1>2 DEF Input, Accept, RecvData, RecvDataClosed, ReplayRefused,
                RecvFin, RecvRst, RecvLastAck, KillPrio, RecvAck
  <2> QED BY <2>1 DEF EchoBase
<1>3. CASE Proc /\ UNCHANGED held
  <2>1. UNCHANGED <<closeQ, cpc, held>>
    BY <1>3 DEF Proc, ProcRecvPut, ProcDonePut, ProcRawClose, ProcRecved,
                ProcClose, ProcSend, EchoBase
  <2> QED BY <2>1 DEF EchoBase
<1>4. ASSUME NEW c \in Conns, Copy(c)
      PROVE  EchoBase'
  <2>1. UNCHANGED <<closeQ, cpc>>
    BY <1>4 DEF Copy, EchoRead, EchoGet, EchoWrite, EchoWriteFail,
                EchoWriteDone, ReadCheck, ReadGet, ReadEnd, ReadCredit,
                WriteCheck, WriteLock, WriteQueue, WriteDone, vars
  <2>2. EchoGet(c) => Head(recvQ[c]) \in Chunks
    <3>1. recvQ[c] \in Seq(Chunks)
      BY DEF Base, TypeOK
    <3> QED BY <3>1 DEF EchoGet, ReadGet
  <2>3. held' = held \/ \E d \in Chunks \cup {0} : held' = [held EXCEPT ![c] = d]
    BY <1>4, <2>2 DEF Copy, EchoRead, EchoGet, EchoWrite, EchoWriteFail,
                      EchoWriteDone
  <2> QED BY <2>1, <2>3 DEF EchoBase
<1> QED BY <1>1, <1>2, <1>3, <1>4 DEF EchoNext

\* Nothing is queued, so that no tcp_close of go_netif_proc hits anything.
LEMMA EchoOwnClose ==
  ASSUME EchoBase
  PROVE  OwnClose
BY DEF EchoBase, OwnClose

\* A step that closes no connection and unhooks none.
LEMMA FrameCalm ==
  ASSUME Calm, UNCHANGED <<err, pcbOf, tcpPcbs, peerFin>>,
         \A a \in Blocks :
           /\ pcb'[a].refused => pcb[a].refused
           /\ pcb'[a].st = "FIN_WAIT" => pcb[a].st = "FIN_WAIT",
         \/ proc' = proc
         \/ /\ proc.at # "close"
            /\ proc'.at = "idle" \/ (proc'.at # "close" /\ ~err[proc'.conn])
  PROVE  Calm'
BY DEF Calm

\* The first half of cs_tcp_raw_close takes the one entry of its connection out
\* of tcpPcbs.
LEMMA EnterRawCloseCalm ==
  ASSUME Base, Handles, Calm, proc.at = "idle", NEW a \in Blocks,
         pcb[a].st \in Active, NEW b \in PcbRec,
         ~b.refused, b.st # "FIN_WAIT",
         NEW how, EnterRawClose(a, pcb[a].arg, b, how),
         UNCHANGED <<err, pcbOf>>,
         \A c \in Conns : peerFin'[c] => peerFin[c] \/ c = pcb[a].conn
  PROVE  Calm'
<1> DEFINE e == pcb[a].arg
           c == pcb[a].conn
<1>1. e \in Heap /\ c \in Conns /\ tcpPcbs[e] = c
  BY CallbackFacts
<1>2. ~err[c] /\ c # None
  BY <1>1, NoneAssumption DEF Calm
<1>3. \A x \in Heap : tcpPcbs'[x] = tcpPcbs[x] \/ tcpPcbs'[x] = None
  BY <1>1 DEF EnterRawClose, Base, TypeOK
<1>4. tcpPcbs'[e] = None
  BY <1>1 DEF EnterRawClose, Base, TypeOK
<1>5. \A x \in Heap : tcpPcbs'[x] # c
  BY <1>1, <1>2, <1>3, <1>4 DEF Handles, RegistryMatchesHeap
<1>6. proc'.at = "close" /\ proc'.conn = c
  BY <1>1 DEF EnterRawClose, Closing
<1>7. \A x \in Blocks : ~pcb'[x].refused /\ pcb'[x].st # "FIN_WAIT"
  <2>1. /\ pcb'[a].refused = b.refused /\ pcb'[a].st = b.st
        /\ \A x \in Blocks : x # a => pcb'[x] = pcb[x]
    BY DEF EnterRawClose, Base, TypeOK, PcbRec
  <2> QED BY <2>1 DEF Calm
<1> HIDE DEF c, e
<1>8. \A x \in Conns :
        err'[x] => pcbOf'[x] # None /\ \A h \in Heap : tcpPcbs'[h] # x
  BY <1>3, NoneAssumption DEF Calm
<1>9. \A x \in Conns :
        peerFin'[x] => err'[x] \/ (proc'.at = "close" /\ proc'.conn = x)
  BY <1>6 DEF Calm, c
<1> QED BY <1>2, <1>5, <1>6, <1>7, <1>8, <1>9 DEF Calm

\* Every segment that arrives.
LEMMA InputCalm ==
  ASSUME Base, Handles, Calm, Input
  PROVE  Calm'
<1>0. \A b \in Blocks : pcb[b] \in PcbRec
  BY DEF Base, TypeOK
<1>f. FreePcb \in PcbRec /\ ~FreePcb.refused /\ FreePcb.st = "FREE"
  BY FreeTypes DEF FreePcb
<1>1. ASSUME NEW c \in Conns, NEW a \in Blocks, NEW e \in Heap, Accept(c, a, e)
      PROVE  Calm'
  <2>1. /\ proc.at = "idle" /\ proc' = proc /\ pcbOf[c] = None
        /\ UNCHANGED <<err, peerFin>>
    BY <1>1 DEF Accept
  <2>2. /\ pcbOf' = [pcbOf EXCEPT ![c] = a] /\ pcb'[a] = NewPcb(c, e)
        /\ tcpPcbs[e] = None
    BY <1>1, AcceptHandles
  <2>3. \A x \in Blocks : ~pcb'[x].refused /\ pcb'[x].st # "FIN_WAIT"
    <3>1. \A x \in Blocks : x # a => pcb'[x] = pcb[x]
      BY <1>1 DEF Accept, Base, TypeOK
    <3> QED BY <2>2, <3>1 DEF Calm, NewPcb
  <2>4. ~err[c]
    BY <2>1 DEF Calm
  <2>5. \A x \in Heap : tcpPcbs'[x] \in {tcpPcbs[x], c}
    BY <1>1, <2>2 DEF Accept, GoTcpAccept, Base, TypeOK
  <2>6. \A x \in Conns : x # c => pcbOf'[x] = pcbOf[x]
    BY <2>2 DEF Base, TypeOK
  <2> QED BY <2>1, <2>3, <2>4, <2>5, <2>6 DEF Calm
<1>2. ASSUME NEW a \in Blocks, RecvData(a)
      PROVE  Calm'
  <2>1. proc.at = "idle" /\ pcb[a].st \in Active /\ ~pcb[a].refused
    BY <1>2 DEF RecvData, Active
  <2>2. /\ pcb[a].arg \in Heap /\ tcpPcbs[pcb[a].arg] = pcb[a].conn
        /\ pcb[a].conn \in Conns
    BY <2>1, CallbackFacts
  <2>3. tcpPcbs[pcb[a].arg] # None /\ ~err[tcpPcbs[pcb[a].arg]]
    BY <2>2, NoneAssumption DEF Calm
  <2>4. proc'.at = "recv" /\ proc'.conn = pcb[a].conn
    BY <1>2, <2>2, <2>3 DEF RecvData, Sending
  <2>5. PICK r \in PcbRec : /\ pcb' = [pcb EXCEPT ![a] = r]
                            /\ r.st = pcb[a].st /\ r.refused = pcb[a].refused
    BY <1>2, <2>3, RecvDataFrame
  <2>6. \A b \in Blocks : pcb'[b].st = pcb[b].st
                            /\ pcb'[b].refused = pcb[b].refused
    BY <2>5 DEF Base, TypeOK
  <2> QED BY <1>2, <2>1, <2>2, <2>3, <2>4, <2>6, FrameCalm DEF RecvData
<1>3. ASSUME NEW a \in Blocks, RecvDataClosed(a)
      PROVE  Calm'
  BY <1>3 DEF RecvDataClosed, Calm
<1>4. ASSUME NEW a \in Blocks, ReplayRefused(a)
      PROVE  Calm'
  BY <1>4 DEF ReplayRefused, Calm
<1>5. ASSUME NEW a \in Blocks, RecvFin(a)
      PROVE  Calm'
  <2> DEFINE s == IF pcb[a].st = "ESTABLISHED" THEN "CLOSE_WAIT"
                  ELSE "TIME_WAIT"
             b == [pcb[a] EXCEPT !.st = s]
  <2>1. /\ proc.at = "idle" /\ pcb[a].st \in Active /\ ~pcb[a].refused
        /\ UNCHANGED <<err, pcbOf>>
    BY <1>5 DEF RecvFin, Active
  <2>2. b \in PcbRec /\ ~b.refused /\ b.st # "FIN_WAIT"
    BY <1>0, <2>1 DEF PcbRec, PcbStates
  <2>3. EnterRawClose(a, pcb[a].arg, b, "fin")
    BY <1>5 DEF RecvFin
  <2>4. \A c \in Conns : peerFin'[c] => peerFin[c] \/ c = pcb[a].conn
    BY <1>5 DEF RecvFin, Base, TypeOK
  <2> HIDE DEF b
  <2> QED BY <2>1, <2>2, <2>3, <2>4, EnterRawCloseCalm
<1>6. ASSUME NEW a \in Blocks, RecvRst(a)
      PROVE  Calm'
  <2>1. /\ proc.at = "idle" /\ pcb[a].st \in Active /\ ~pcb[a].refused
        /\ pcb[a].st # "FIN_WAIT"
    BY <1>6 DEF RecvRst, Active, Calm
  <2> QED BY <1>0, <1>6, <2>1, EnterRawCloseCalm DEF RecvRst
<1>7. ASSUME NEW a \in Blocks, RecvLastAck(a)
      PROVE  Calm'
  <2>1. \A b \in Blocks : pcb'[b] = pcb[b] \/ pcb'[b] = FreePcb
    BY <1>7 DEF RecvLastAck, Base, TypeOK
  <2> QED BY <1>f, <1>7, <2>1, FrameCalm DEF RecvLastAck
<1>8. ASSUME NEW a \in Blocks, KillPrio(a)
      PROVE  Calm'
  <2>1. pcb[a].st \notin {"FREE", "TIME_WAIT", "LAST_ACK"}
    BY <1>8 DEF KillPrio, Allocatable
  <2>2. pcb[a].st \in Active /\ proc.at = "idle"
    BY <1>0, <1>8, <2>1 DEF KillPrio, Base, BlockOK, PcbRec, PcbStates, Active
  <2> QED BY <1>f, <1>8, <2>2, EnterRawCloseCalm DEF KillPrio
<1>9. ASSUME NEW a \in Blocks, NEW n \in 1 .. SndBuf, RecvAck(a, n)
      PROVE  Calm'
  <2>1. proc' = proc \/ (proc'.at = "done" /\ ~err[proc'.conn])
    BY <1>9 DEF RecvAck, Owed, Sending
  <2> QED BY <1>9, <2>1, RecvAckFrame, FrameCalm DEF RecvAck
<1> QED BY <1>1, <1>2, <1>3, <1>4, <1>5, <1>6, <1>7, <1>8, <1>9 DEF Input

\* Every step of Proc, when nothing is queued for tcp_close.
LEMMA ProcCalm ==
  ASSUME Base, Handles, Calm, EchoBase, Proc
  PROVE  Calm'
<1>0. \A b \in Blocks : pcb[b] \in PcbRec
  BY DEF Base, TypeOK
<1>1. CASE ProcRecvPut
  BY <1>1, FrameCalm DEF ProcRecvPut, Idle
<1>2. CASE ProcDonePut
  BY <1>2, FrameCalm DEF ProcDonePut, Idle
<1>3. CASE ProcRawClose
  <2>1. /\ proc.at = "close" /\ proc'.at = "idle"
        /\ UNCHANGED <<pcbOf, tcpPcbs, peerFin>>
    BY <1>3 DEF ProcRawClose, Idle
  <2>2. /\ proc.conn \in Conns /\ pcbOf[proc.conn] # None
        /\ proc.pcb \in Blocks
    BY <2>1, NoneAssumption DEF Handles, Places, Base, ProcOK
  <2>3. \A c \in Conns : err'[c] = (err[c] \/ c = proc.conn)
    BY <1>3 DEF ProcRawClose, Base, TypeOK
  <2>4. \A b \in Blocks :
          \/ pcb'[b] = pcb[b]
          \/ pcb'[b] = FreePcb
          \/ pcb'[b] = TcpClose(pcb[b]) /\ pcb[b].st \notin Active
    BY <1>3, <2>2 DEF ProcRawClose, Base, TypeOK, ProcOK, Active
  <2>5. \A b \in Blocks : ~pcb'[b].refused /\ pcb'[b].st # "FIN_WAIT"
    <3>1. ~FreePcb.refused /\ FreePcb.st # "FIN_WAIT"
      BY DEF FreePcb
    <3>2. \A b \in Blocks : pcb[b].st \notin Active => TcpClose(pcb[b]).st # "FIN_WAIT"
      BY <1>0, TcpCloseType DEF Active
    <3>3. \A b \in Blocks : ~TcpClose(pcb[b]).refused
      BY <1>0, TcpCloseRefused DEF Calm
    <3> QED BY <2>4, <3>1, <3>2, <3>3 DEF Calm
  <2> QED BY <2>1, <2>2, <2>3, <2>5 DEF Calm
<1>4. CASE ProcRecved
  <2>1. \A b \in Blocks : pcb'[b] = pcb[b] \/ pcb'[b] = Recved(pcb[b])
    BY <1>4 DEF ProcRecved, Base, TypeOK
  <2>2. \A b \in Blocks : pcb'[b].st = pcb[b].st
                            /\ pcb'[b].refused = pcb[b].refused
    BY <1>0, <2>1, RecvedType
  <2> QED BY <1>4, <2>2, FrameCalm DEF ProcRecved
<1>5. CASE ProcClose
  BY <1>5 DEF ProcClose, EchoBase
<1>6. CASE ProcSend
  BY <1>6, ProcSendFrame, FrameCalm DEF ProcSend
<1> QED BY <1>1, <1>2, <1>3, <1>4, <1>5, <1>6 DEF Proc

\* Every step of the echo server.
LEMMA EchoCalm ==
  ASSUME Base, Handles, Calm, EchoBase, [EchoNext]_echoVars
  PROVE  Calm'
<1>1. CASE Input
  BY <1>1, InputCalm
<1>2. CASE Proc
  BY <1>2, ProcCalm
<1>3. CASE UNCHANGED <<err, pcbOf, tcpPcbs, peerFin, pcb, proc>>
  BY <1>3, FrameCalm
<1>4. ASSUME NEW c \in Conns, Copy(c)
      PROVE  UNCHANGED <<err, pcbOf, tcpPcbs, peerFin, pcb, proc>>
  BY <1>4 DEF Copy, EchoRead, EchoGet, EchoWrite, EchoWriteFail,
              EchoWriteDone, ReadCheck, ReadGet, ReadEnd, ReadCredit,
              WriteCheck, WriteLock, WriteQueue, WriteDone, vars
<1>5. UNCHANGED echoVars => UNCHANGED <<err, pcbOf, tcpPcbs, peerFin, pcb, proc>>
  BY DEF echoVars, vars
<1> QED BY <1>1, <1>2, <1>3, <1>4, <1>5 DEF EchoNext

\* What goes wrong, goes wrong in Proc: the step that sets fault.
LEMMA EchoNoAbort ==
  ASSUME "kill" \notin Env, Base, Handles, TokenHasRoom, Calm, EchoBase,
         NoAbort, [EchoNext]_echoVars
  PROVE  NoAbort'
<1>0. \A b \in Blocks : pcb[b] \in PcbRec
  BY DEF Base, TypeOK
<1>1. ASSUME NEW a \in Blocks, NEW b \in PcbRec, NEW how,
             EnterRawClose(a, pcb[a].arg, b, how),
             b.st \in {"CLOSE_WAIT", "ESTABLISHED"}, fault' = fault
      PROVE  NoAbort'
  <2>1. pcb'[a].st = b.st /\ proc'.pcb = a
    BY <1>1 DEF EnterRawClose, Closing, Base, TypeOK, PcbRec
  <2> QED BY <1>1, <2>1 DEF NoAbort
<1>2. CASE Input
  <2>1. ASSUME NEW a \in Blocks, RecvFin(a)
        PROVE  NoAbort'
    <3> DEFINE b == [pcb[a] EXCEPT !.st = "CLOSE_WAIT"]
    <3>1. pcb[a].st = "ESTABLISHED" /\ fault' = fault
      BY <2>1 DEF RecvFin, Calm
    <3>2. b \in PcbRec /\ b.st = "CLOSE_WAIT"
      BY <1>0 DEF PcbRec, PcbStates
    <3>3. EnterRawClose(a, pcb[a].arg, b, "fin")
      BY <2>1, <3>1 DEF RecvFin
    <3> HIDE DEF b
    <3> QED BY <1>1, <3>1, <3>2, <3>3
  <2>2. ASSUME NEW a \in Blocks, RecvRst(a)
        PROVE  NoAbort'
    <3>1. /\ pcb[a].st = "ESTABLISHED" /\ fault' = fault
          /\ EnterRawClose(a, pcb[a].arg, pcb[a], "reset")
      BY <2>2 DEF RecvRst, Calm
    <3> QED BY <1>0, <1>1, <3>1
  <2>3. ASSUME NEW a \in Blocks, RecvDataClosed(a) \/ ReplayRefused(a) \/ KillPrio(a)
        PROVE  FALSE
    BY <2>3 DEF RecvDataClosed, ReplayRefused, KillPrio, Calm
  <2>4. ASSUME \/ \E c \in Conns, a \in Blocks, e \in Heap : Accept(c, a, e)
               \/ \E a \in Blocks : RecvData(a) \/ RecvLastAck(a)
               \/ \E a \in Blocks, n \in 1 .. SndBuf : RecvAck(a, n)
        PROVE  fault' = fault /\ proc'.at # "close"
    <3>1. ASSUME NEW a \in Blocks, NEW n \in 1 .. SndBuf, RecvAck(a, n)
          PROVE  fault' = fault /\ proc'.at # "close"
      BY <3>1 DEF RecvAck, Sending
    <3>2. ASSUME NEW a \in Blocks, RecvData(a)
          PROVE  fault' = fault /\ proc'.at # "close"
      BY <3>2 DEF RecvData, Sending
    <3>3. ASSUME NEW a \in Blocks, RecvLastAck(a)
          PROVE  fault' = fault /\ proc'.at # "close"
      BY <3>3 DEF RecvLastAck
    <3>4. ASSUME NEW c \in Conns, NEW a \in Blocks, NEW e \in Heap,
                 Accept(c, a, e)
          PROVE  fault' = fault /\ proc'.at # "close"
      BY <3>4 DEF Accept
    <3> QED BY <2>4, <3>1, <3>2, <3>3, <3>4
  <2> QED BY <1>2, <2>1, <2>2, <2>3, <2>4 DEF Input, NoAbort
<1>3. CASE Proc
  <2>1. CASE ProcRecvPut
    <3>1. ~err[proc.conn] /\ proc'.at = "idle"
      BY <2>1 DEF ProcRecvPut, Calm, Idle
    <3> QED BY <2>1, <3>1 DEF ProcRecvPut, NoAbort
  <2>2. CASE ProcDonePut
    <3>1. ~err[proc.conn] /\ proc'.at = "idle"
      BY <2>2 DEF ProcDonePut, TokenHasRoom, Idle
    <3> QED BY <2>2, <3>1 DEF ProcDonePut, NoAbort
  <2>3. CASE ProcRawClose
    <3>1. /\ proc.pcb \in Blocks /\ ~pcb[proc.pcb].refused
          /\ pcb[proc.pcb].st \in {"CLOSE_WAIT", "ESTABLISHED"}
      BY <2>3 DEF ProcRawClose, Base, ProcOK, Calm, NoAbort
    <3>2. TcpCloseFault(pcb[proc.pcb]) = "none"
      BY <3>1 DEF TcpCloseFault
    <3> QED BY <2>3, <3>2 DEF ProcRawClose, NoAbort, Idle
  <2>4. CASE ProcRecved
    BY <2>4 DEF ProcRecved, NoAbort
  <2>5. CASE ProcClose
    BY <2>5 DEF ProcClose, EchoBase
  <2>6. CASE ProcSend
    BY <2>6 DEF ProcSend, NoAbort
  <2> QED BY <1>3, <2>1, <2>2, <2>3, <2>4, <2>5, <2>6 DEF Proc
<1>4. CASE UNCHANGED <<fault, proc, pcb>>
  BY <1>4 DEF NoAbort
<1>5. ASSUME NEW c \in Conns, Copy(c)
      PROVE  UNCHANGED <<fault, proc, pcb>>
  BY <1>5 DEF Copy, EchoRead, EchoGet, EchoWrite, EchoWriteFail,
              EchoWriteDone, ReadCheck, ReadGet, ReadEnd, ReadCredit,
              WriteCheck, WriteLock, WriteQueue, WriteDone, vars
<1>6. UNCHANGED echoVars => UNCHANGED <<fault, proc, pcb>>
  BY DEF echoVars, vars
<1> QED BY <1>2, <1>3, <1>4, <1>5, <1>6 DEF EchoNext

\* The invariant of the echo server.
EchoIInv == IInv /\ Handles /\ Opens /\ Window /\ EchoBase /\ Calm

\* It holds at the start.
LEMMA InitEcho == EchoInit => EchoIInv /\ NoAbort
<1> SUFFICES ASSUME EchoInit
             PROVE  EchoIInv /\ NoAbort
  OBVIOUS
<1>1. Init
  BY DEF EchoInit
<1>2. EchoBase
  BY DEF EchoInit, Init, EchoBase
<1>3. Calm /\ NoAbort
  BY <1>1 DEF Init, Calm, NoAbort, FreePcb, Idle
<1> QED BY <1>1, <1>2, <1>3, InitIInv, InitHandles, InitOpens, InitWindow
        DEF EchoIInv

\* Every step of the echo server keeps it.
LEMMA NextEcho ==
  ASSUME EchoIInv, [EchoNext]_echoVars
  PROVE  EchoIInv'
<1> USE DEF EchoIInv
<1>1. Base
  BY DEF IInv
<1>2. Step \/ UNCHANGED vars
  BY EchoIsStep DEF echoVars
<1>3. OwnClose
  BY EchoOwnClose
<1>4. IInv' /\ Handles' /\ Opens' /\ Window'
  <2>1. CASE Step
    BY <1>1, <1>3, <2>1, StepIInv, StepHandles, StepOpens, StepWindow
  <2>2. CASE UNCHANGED vars
    BY <1>1, <2>2, StutterIInv, StutterHandles, StutterOpens, StutterWindow
  <2> QED BY <1>2, <2>1, <2>2
<1>5. EchoBase' /\ Calm'
  BY <1>1, EchoBaseStep, EchoCalm
<1> QED BY <1>4, <1>5

\* It holds always.
LEMMA SpecEcho == EchoSpec => []EchoIInv
<1>1. EchoInit => EchoIInv
  BY InitEcho
<1>2. EchoIInv /\ [EchoNext]_echoVars => EchoIInv'
  BY NextEcho
<1> QED BY <1>1, <1>2, PTL DEF EchoSpec

\* Under the echo server, which never calls Close, what an open PCB holds is
\* live without any condition.
THEOREM EchoHandlesLive == EchoSpec => []LiveHandles
<1>1. EchoIInv => LiveHandles
  BY OpenIsLive DEF EchoIInv, IInv
<1> QED BY <1>1, SpecEcho, PTL

\* ... and its receive windows are conserved without any condition.
THEOREM EchoWindowConserved == EchoSpec => []WindowConserved
<1>1. EchoIInv => WindowConserved
  BY WindowMeans DEF EchoIInv
<1> QED BY <1>1, SpecEcho, PTL

\* The echo server never panics in a callback and never frees a pbuf or a
\* tcp_pcb twice, for any number of connections, blocks, chunks and segments
\* and any capacities, as long as lwIP does not run out of blocks ("kill": then
\* tcp_abandon frees the block and cs_tcp_raw_error closes it again).
THEOREM EchoNeverFaults == "kill" \notin Env => (EchoSpec => []NoFault)
<1> SUFFICES ASSUME "kill" \notin Env
             PROVE  EchoSpec => []NoFault
  OBVIOUS
<1>1. EchoInit => NoAbort
  BY InitEcho
<1>2. EchoIInv /\ NoAbort /\ [EchoNext]_echoVars => NoAbort'
  <2> SUFFICES ASSUME EchoIInv, NoAbort, [EchoNext]_echoVars
               PROVE  NoAbort'
    OBVIOUS
  <2>1. Base /\ Handles /\ TokenHasRoom /\ Calm /\ EchoBase
    BY DEF EchoIInv, IInv, Credit
  <2> QED BY <2>1, EchoNoAbort
<1>3. NoAbort => NoFault
  BY DEF NoAbort, NoFault
<1> QED BY <1>1, <1>2, <1>3, SpecEcho, PTL DEF EchoSpec

-----------------------------------------------------------------------------
(* The echo server implements the echo service.                            *)

\* Division with remainder.
LEMMA DivMod ==
  ASSUME NEW s \in Nat \ {0}, NEW q \in Nat, NEW r \in 0 .. s - 1
  PROVE  (s * q + r) \div s = q /\ (s * q + r) % s = r
<1> DEFINE n == s * q + r
           d == n \div s
           m == n % s
<1>1. n \in Nat /\ r \in Nat /\ s > 0
  OBVIOUS
<1>2. d \in Int /\ m \in 0 .. s - 1 /\ n = s * d + m
  <2> HIDE DEF n
  <2> QED BY <1>1
<1> HIDE DEF d, m
<1>3. s * d + m = s * q + r
  BY <1>2
<1>4. ~(d >= q + 1)
  <2> SUFFICES ASSUME d >= q + 1
               PROVE  FALSE
    OBVIOUS
  <2>1. s * d >= s * (q + 1)
    BY <1>1, <1>2
  <2>2. s * (q + 1) = s * q + s
    OBVIOUS
  <2> QED BY <1>1, <1>2, <1>3, <2>1, <2>2
<1>5. ~(q >= d + 1)
  <2> SUFFICES ASSUME q >= d + 1
               PROVE  FALSE
    OBVIOUS
  <2>1. s * q >= s * (d + 1)
    BY <1>1, <1>2
  <2>2. s * (d + 1) = s * d + s
    BY <1>2
  <2> QED BY <1>1, <1>2, <1>3, <2>1, <2>2
<1>6. d = q
  BY <1>2, <1>4, <1>5
<1>7. m = r
  BY <1>1, <1>2, <1>3, <1>6
<1> QED BY <1>6, <1>7 DEF d, m

\* Multiplication by a natural number is monotonic.
LEMMA MulMono ==
  ASSUME NEW s \in Nat, NEW x \in Int, NEW y \in Int, x <= y
  PROVE  s * x \in Int /\ s * y \in Int /\ s * x <= s * y
OBVIOUS

\* The i-th segment of the input of a client.
Piece(i) == <<((i - 1) \div Segs) + 1, ((i - 1) % Segs) + 1>>

\* The k-th segment of chunk t.
LEMMA PieceOf ==
  ASSUME NEW t \in Nat \ {0}, NEW k \in 1 .. Segs
  PROVE  Piece(Segs * (t - 1) + k) = <<t, k>>
<1>1. Segs \in Nat \ {0} /\ t - 1 \in Nat /\ k - 1 \in 0 .. Segs - 1
  BY CapAssumption
<1>2. Segs * (t - 1) \in Nat
  BY <1>1
<1> DEFINE n == Segs * (t - 1) + k
<1>3. n - 1 = Segs * (t - 1) + (k - 1)
  BY <1>1, <1>2
<1>4. /\ (Segs * (t - 1) + (k - 1)) \div Segs = t - 1
      /\ (Segs * (t - 1) + (k - 1)) % Segs = k - 1
  BY <1>1, DivMod
<1>5. (n - 1) \div Segs = t - 1 /\ (n - 1) % Segs = k - 1
  BY <1>3, <1>4, Zenon
<1> HIDE DEF n
<1>6. ((n - 1) \div Segs) + 1 = t /\ ((n - 1) % Segs) + 1 = k
  BY <1>5
<1>7. Piece(n) = <<t, k>>
  BY <1>6 DEF Piece
<1> QED BY <1>7 DEF n

\* cs_tcp_raw_send has taken m segments of the chain ps of connection x, whose
\* es is e, and left the rest.
Shipped(e, x, ps, m) ==
  /\ es'[e].p = SubSeq(ps, m + 1, Len(ps))
  /\ \A h \in Heap : h # e => es'[h] = es[h]
  /\ stream' = [stream EXCEPT ![x] = stream[x] \o SubSeq(ps, 1, m)]

\* What cs_tcp_raw_send does to the chain and to the stream of segments.
LEMMA RawSendEffect ==
  ASSUME Base, NEW a \in Blocks, NEW e \in Heap, NEW u \in 0 .. SndBuf,
         NEW ps \in Seq(Segments), RawSend(a, e, pcb[a], u, ps),
         pcb[a].conn \in Conns
  PROVE  \E m \in 0 .. Len(ps) : Shipped(e, pcb[a].conn, ps, m)
<1> DEFINE c == pcb[a].conn
<1>1. PICK m \in RawSendCounts(pcb[a].st, Len(ps), u) :
        /\ es' = [es EXCEPT ![e].p = SubSeq(ps, m + 1, Len(ps))]
        /\ stream' = [x \in Conns |-> IF x = c
                                      THEN stream[x] \o SubSeq(ps, 1, m)
                                      ELSE stream[x]]
  BY DEF RawSend
<1>2. m \in 0 .. Len(ps)
  BY CountsType
<1>3. es[e] \in EsRec /\ es \in [Heap -> EsRec] /\ stream \in [Conns -> Seq(Segments)]
  BY DEF Base, TypeOK
<1>4. es'[e].p = SubSeq(ps, m + 1, Len(ps)) /\ \A x \in Heap : x # e => es'[x] = es[x]
  <2> DEFINE q == SubSeq(ps, m + 1, Len(ps))
  <2> HIDE DEF q
  <2>1. es' = [es EXCEPT ![e].p = q]
    BY <1>1 DEF q
  <2>2. es'[e] = [es[e] EXCEPT !.p = q] /\ \A x \in Heap : x # e => es'[x] = es[x]
    BY <1>3, <2>1
  <2>3. es'[e].p = q
    BY <1>3, <2>2 DEF EsRec
  <2> QED BY <2>2, <2>3 DEF q
<1>5. stream' = [stream EXCEPT ![c] = stream[c] \o SubSeq(ps, 1, m)]
  <2> DEFINE q == SubSeq(ps, 1, m)
  <2> HIDE DEF q, c
  <2>1. stream' = [x \in Conns |-> IF x = c THEN stream[x] \o q ELSE stream[x]]
    BY <1>1 DEF q
  <2>2. stream' = [stream EXCEPT ![c] = stream[c] \o q]
    BY <1>3, <2>1
  <2> QED BY <2>2 DEF q
<1>6. Shipped(e, c, ps, m)
  BY <1>4, <1>5 DEF Shipped
<1> HIDE DEF c
<1> QED BY <1>2, <1>6 DEF c

\* The elements of s are the segments after the k-th of the input.
InOrder(s, k) == \A i \in 1 .. Len(s) : s[i] = Piece(k + i)

\* The m segments after the k-th of the input.
Ahead(k, m) == [i \in 1 .. m |-> Piece(k + i)]

\* Segments moved from the chain to the stream leave both in order.
LEMMA MovedInOrder ==
  ASSUME NEW s \in Seq(Segments), NEW ps \in Seq(Segments),
         NEW m \in 0 .. Len(ps), InOrder(s, 0), InOrder(ps, Len(s))
  PROVE  /\ Len(s \o SubSeq(ps, 1, m)) = Len(s) + m
         /\ Len(SubSeq(ps, m + 1, Len(ps))) = Len(ps) - m
         /\ InOrder(s \o SubSeq(ps, 1, m), 0)
         /\ InOrder(SubSeq(ps, m + 1, Len(ps)), Len(s) + m)
         /\ SubSeq(ps, 1, m) = Ahead(Len(s), m)
<1> DEFINE s2 == s \o SubSeq(ps, 1, m)
           p2 == SubSeq(ps, m + 1, Len(ps))
<1>8. /\ \A i \in 1 .. Len(s) : s[i] = Piece(i)
      /\ \A i \in 1 .. Len(ps) : ps[i] = Piece(Len(s) + i)
  BY DEF InOrder
<1> DEFINE q == SubSeq(ps, 1, m)
<1>1. /\ q \in Seq(Segments) /\ Len(q) = m
      /\ \A i \in 1 .. m : q[i] = ps[i]
  OBVIOUS
<1>2. /\ p2 \in Seq(Segments) /\ Len(p2) = Len(ps) - m
      /\ \A i \in 1 .. Len(ps) - m : p2[i] = ps[m + i]
  OBVIOUS
<1> HIDE DEF q
<1>3. /\ Len(s2) = Len(s) + m
      /\ \A i \in 1 .. Len(s) : s2[i] = s[i]
      /\ \A i \in 1 .. m : s2[Len(s) + i] = q[i]
  BY <1>1 DEF q
<1> HIDE DEF s2, p2
<1>4. \A i \in 1 .. Len(s2) : s2[i] = Piece(i)
  <2> SUFFICES ASSUME NEW i \in 1 .. Len(s2)
               PROVE  s2[i] = Piece(i)
    OBVIOUS
  <2>1. CASE i <= Len(s)
    BY <1>3, <1>8, <2>1
  <2>2. CASE i > Len(s)
    <3>1. i - Len(s) \in 1 .. m /\ Len(s) + (i - Len(s)) = i
      BY <1>3, <2>2
    <3>2. s2[i] = q[i - Len(s)]
      BY <1>3, <3>1
    <3>3. i - Len(s) \in 1 .. Len(ps)
      BY <3>1
    <3> QED BY <1>1, <1>8, <3>1, <3>2, <3>3
  <2> QED BY <2>1, <2>2, <1>3
<1> DEFINE L == Len(s2)
<1>7. L = Len(s) + m
  BY <1>3
<1> HIDE DEF L
<1>5. \A i \in 1 .. Len(p2) : p2[i] = Piece(L + i)
  <2> SUFFICES ASSUME NEW i \in 1 .. Len(p2)
               PROVE  p2[i] = Piece(L + i)
    OBVIOUS
  <2>1. i \in 1 .. Len(ps) - m /\ p2[i] = ps[m + i]
    BY <1>2
  <2>2. m + i \in 1 .. Len(ps)
    BY <2>1
  <2>3. ps[m + i] = Piece(Len(s) + (m + i))
    BY <1>8, <2>2
  <2>4. Len(s) + (m + i) = L + i
    BY <1>7, <2>1
  <2> QED BY <2>1, <2>3, <2>4
<1>6. q = [i \in 1 .. m |-> Piece(Len(s) + i)]
  <2>1. q = [i \in 1 .. m |-> q[i]]
    BY <1>1
  <2>2. \A i \in 1 .. m : i \in 1 .. Len(ps)
    OBVIOUS
  <2>3. \A i \in 1 .. m : q[i] = Piece(Len(s) + i)
    BY <1>1, <1>8, <2>2
  <2> QED BY <2>1, <2>3
<1>9. InOrder(s2, 0)
  <2>1. \A i \in 1 .. Len(s2) : 0 + i = i
    BY <1>3
  <2> QED BY <1>4, <2>1 DEF InOrder
<1>10. InOrder(p2, Len(s) + m)
  BY <1>5, <1>7 DEF InOrder
<1>11. SubSeq(ps, 1, m) = Ahead(Len(s), m)
  BY <1>6 DEF q, Ahead
<1> QED BY <1>2, <1>3, <1>9, <1>10, <1>11 DEF s2, p2

\* The goroutine that runs io.Copy is the only one that writes.
OneCopier == \A v, w \in Writers : v = w

\* How many chunks of connection c io.Copy has been given: those sent and
\* neither in recvQueued nor in Proc's hand.
Taken(c) ==
  peerSent[c] - Len(recvQ[c])
    - (IF proc.at = "recv" /\ proc.conn = c THEN 1 ELSE 0)

\* The Write in progress has been handed to cs_tcp_raw_send.
Sent(c) == sendCount[c] > 0 \/ Giving(c) \/ sendWait[c] > 0

\* The chunks on the way to io.Copy, and its Write of the last one it took.
Copying(c) ==
  /\ \A i \in 1 .. Len(recvQ[c]) : recvQ[c][i] = Taken(c) + i
  /\ proc.at = "recv" /\ proc.conn = c => proc.data = peerSent[c]
  /\ held[c] # 0 => held[c] = Taken(c)
  /\ \A w \in Writers :
       wpc[c][w] # "idle" => held[c] # 0 /\ wbuf[c][w] = held[c]
  /\ rpc[c] = "recv" => held[c] = 0
  /\ \A i \in 1 .. Len(sendQ) : sendQ[i].conn = c => sendQ[i].data = held[c]

\* What has been echoed, followed by what waits in es->p, is what io.Copy has
\* written, in order.
Echoing(c) ==
  /\ es[esOf[c]].p # <<>> => sendCount[c] > 0
  /\ Len(es[esOf[c]].p) <= Segs
  /\ Len(stream[c]) + Len(es[esOf[c]].p) =
       Segs * (IF held[c] = 0 \/ Sent(c) THEN Taken(c) ELSE Taken(c) - 1)
  /\ InOrder(es[esOf[c]].p, Len(stream[c]))
  /\ InOrder(stream[c], 0)

\* The next m segments of connection x are sent.
Emitted(x, m) ==
  /\ ~err[x] /\ ~peerFin[x] /\ Len(stream[x]) + m <= Segs * peerSent[x]
  /\ stream' = [stream EXCEPT ![x] = stream[x] \o Ahead(Len(stream[x]), m)]

\* Open connections are echoed.
Pipe ==
  \A c \in Conns : pcbOf[c] # None /\ ~err[c] => Copying(c) /\ Echoing(c)

\* Nothing has happened on a connection that is not made.
Unmade ==
  \A c \in Conns : pcbOf[c] = None =>
    /\ peerSent[c] = 0 /\ stream[c] = <<>> /\ held[c] = 0
    /\ sendCount[c] = 0 /\ sendWait[c] = 0

\* The invariant of the pipeline.
PipeInv == Pipe /\ Unmade

\* An open connection has its own es, block and entry when Proc is not closing
\* it.
LEMMA OpenFacts ==
  ASSUME EchoIInv, NEW c \in Conns, pcbOf[c] # None, ~err[c],
         ~(proc.at = "close" /\ proc.conn = c)
  PROVE  /\ esOf[c] \in Heap /\ es[esOf[c]].live /\ tcpPcbs[esOf[c]] = c
         /\ pcbOf[c] \in Blocks /\ pcb[pcbOf[c]].conn = c
         /\ pcb[pcbOf[c]].st = "ESTABLISHED"
<1>1. LiveHandles
  BY OpenIsLive DEF EchoIInv, IInv
<1>2. esOf[c] \in Heap /\ pcbOf[c] \in Blocks
  BY DEF EchoIInv, IInv, Base, TypeOK, MadeOK
<1> QED BY <1>1, <1>2 DEF LiveHandles

\* Proc in no callback that sends on a channel of connection c.
Away(c) == ~(proc.at \in {"recv", "done"} /\ proc.conn = c)

\* A step that leaves what io.Copy of connection c sees alone.
LEMMA FrameCopying ==
  ASSUME NEW c \in Conns, Copying(c),
         peerSent'[c] = peerSent[c], recvQ'[c] = recvQ[c],
         held'[c] = held[c], wpc'[c] = wpc[c], wbuf'[c] = wbuf[c],
         rpc'[c] = rpc[c] \/ rpc'[c] # "recv",
         sendQ' = sendQ,
         proc' = proc \/ (Away(c) /\ Away(c)')
           \/ (proc.at # "recv" /\ proc'.at # "recv")
  PROVE  Copying(c)' /\ Taken(c)' = Taken(c)
<1>1. Taken(c)' = Taken(c)
  BY DEF Taken, Away
<1> QED BY <1>1 DEF Copying, Away

\* A step that leaves the segments of connection c alone.
LEMMA FrameEchoing ==
  ASSUME NEW c \in Conns, Echoing(c), Taken(c)' = Taken(c),
         esOf'[c] = esOf[c], es'[esOf[c]].p = es[esOf[c]].p,
         stream'[c] = stream[c],
         es[esOf[c]].p # <<>> => sendCount'[c] > 0,
         (held'[c] = 0 \/ Sent(c)') <=> (held[c] = 0 \/ Sent(c))
  PROVE  Echoing(c)'
<1> DEFINE p == es[esOf[c]].p
           n == IF held[c] = 0 \/ Sent(c) THEN Taken(c) ELSE Taken(c) - 1
<1>1. es'[esOf'[c]].p = p
  OBVIOUS
<1>2. (IF held'[c] = 0 \/ Sent(c)' THEN Taken(c)' ELSE Taken(c)' - 1) = n
  OBVIOUS
<1>3. /\ p # <<>> => sendCount[c] > 0
      /\ Len(p) <= Segs
      /\ Len(stream[c]) + Len(p) = Segs * n
      /\ InOrder(p, Len(stream[c])) /\ InOrder(stream[c], 0)
  BY DEF Echoing
<1> HIDE DEF n, p
<1>4. p # <<>> => sendCount'[c] > 0
  BY DEF p
<1> QED BY <1>1, <1>2, <1>3, <1>4 DEF Echoing

\* A step that leaves both alone.
LEMMA FramePipe ==
  ASSUME NEW c \in Conns, Copying(c), Echoing(c),
         peerSent'[c] = peerSent[c], recvQ'[c] = recvQ[c],
         held'[c] = held[c], wpc'[c] = wpc[c], wbuf'[c] = wbuf[c],
         rpc'[c] = rpc[c] \/ rpc'[c] # "recv",
         sendQ' = sendQ,
         esOf'[c] = esOf[c], es'[esOf[c]].p = es[esOf[c]].p,
         stream'[c] = stream[c],
         sendCount'[c] = sendCount[c], sendWait'[c] = sendWait[c],
         proc' = proc \/ (Away(c) /\ Away(c)')
  PROVE  Copying(c)' /\ Echoing(c)'
<1>1. Copying(c)' /\ Taken(c)' = Taken(c)
  BY FrameCopying
<1>2. Sent(c)' <=> Sent(c)
  BY DEF Sent, Giving, Away
<1>3. es[esOf[c]].p # <<>> => sendCount'[c] > 0
  BY DEF Echoing
<1>4. Echoing(c)'
  BY <1>1, <1>2, <1>3, FrameEchoing
<1> QED BY <1>1, <1>4

\* A connection just made has nothing to echo.
LEMMA AcceptPipe ==
  ASSUME EchoIInv, PipeInv, UNCHANGED held, NEW x \in Conns, NEW a \in Blocks,
         NEW e \in Heap, Accept(x, a, e)
  PROVE  PipeInv'
<1>0. Base /\ Handles /\ Opens
  BY DEF EchoIInv, IInv
<1>1. /\ proc.at = "idle" /\ proc' = proc /\ pcbOf[x] = None /\ ~es[e].live
      /\ UNCHANGED <<err, recvQ, sendWait, sendCount, sendQ, rpc, wpc, wbuf,
                     peerSent, stream>>
  BY DEF Accept
<1>2. tcpPcbs[e] = None /\ pcbOf' = [pcbOf EXCEPT ![x] = a]
  BY <1>0, AcceptHandles
<1>3. esOf' = [esOf EXCEPT ![x] = e] /\ es' = [es EXCEPT ![e] = NewEs(a)]
  BY <1>2 DEF Accept, GoTcpAccept
<1>4. /\ \A c \in Conns : c # x => pcbOf'[c] = pcbOf[c] /\ esOf'[c] = esOf[c]
      /\ pcbOf'[x] = a /\ esOf'[x] = e /\ es'[e] = NewEs(a)
      /\ \A h \in Heap : h # e => es'[h] = es[h]
  BY <1>0, <1>2, <1>3 DEF Base, TypeOK
<1>5. Pipe'
  <2> SUFFICES ASSUME NEW c \in Conns, pcbOf'[c] # None, ~err[c]
               PROVE  Copying(c)' /\ Echoing(c)'
    BY <1>1 DEF Pipe
  <2>1. CASE c = x
    <3>1. /\ peerSent'[c] = 0 /\ stream'[c] = <<>> /\ held'[c] = 0
          /\ sendCount'[c] = 0 /\ sendWait'[c] = 0 /\ recvQ'[c] = <<>>
          /\ rpc'[c] = "idle" /\ proc'.at = "idle"
      BY <1>0, <1>1, <2>1 DEF PipeInv, Unmade, Opens, Fresh
    <3>2. /\ \A w \in Writers : wpc'[c][w] = "idle"
          /\ \A i \in 1 .. Len(sendQ') : sendQ'[i].conn # c
      BY <1>0, <1>1, <2>1 DEF Base, MadeOK
    <3>3. es'[esOf'[c]].p = <<>>
      BY <1>4, <2>1 DEF NewEs
    <3>4. Taken(c)' = 0
      <4>1. Taken(c)' = peerSent'[c] - Len(recvQ'[c]) - 0
        BY <3>1 DEF Taken
      <4>2. Len(recvQ'[c]) = 0
        BY <3>1
      <4>3. peerSent'[c] = 0
        BY <3>1
      <4>4. 0 - 0 - 0 = 0
        OBVIOUS
      <4> QED BY <4>1, <4>2, <4>3, <4>4, Zenon
    <3>5. Copying(c)'
      BY <3>1, <3>2, <3>4 DEF Copying
    <3>6. Segs * 0 = 0 /\ 0 <= Segs
      BY CapAssumption
    <3>7. Echoing(c)'
      BY <3>1, <3>3, <3>4, <3>6 DEF Echoing, InOrder
    <3> QED BY <3>5, <3>7
  <2>2. CASE c # x
    <3>1. pcbOf[c] # None /\ esOf'[c] = esOf[c]
      BY <1>4, <2>2
    <3>2. esOf[c] \in Heap /\ es[esOf[c]].live
      BY <1>1, <3>1, OpenFacts
    <3>3. es'[esOf[c]] = es[esOf[c]]
      BY <1>1, <1>4, <3>2
    <3>4. Copying(c) /\ Echoing(c)
      BY <3>1 DEF PipeInv, Pipe
    <3> QED BY <1>1, <3>1, <3>3, <3>4, FramePipe
  <2> QED BY <2>1, <2>2
<1>6. Unmade'
  BY <1>1, <1>4, NoneAssumption DEF PipeInv, Unmade
<1> QED BY <1>5, <1>6 DEF PipeInv

\* A chunk that arrives is the next one.
LEMMA RecvDataPipe ==
  ASSUME EchoIInv, PipeInv, UNCHANGED held, NEW a \in Blocks, RecvData(a)
  PROVE  PipeInv'
<1> DEFINE x == pcb[a].conn
           e == pcb[a].arg
<1>0. Base /\ Handles /\ Opens /\ Calm
  BY DEF EchoIInv, IInv
<1>1. /\ proc.at = "idle" /\ pcb[a].st \in Active
      /\ UNCHANGED <<err, pcbOf, esOf, recvQ, sendWait, sendCount, sendQ, rpc,
                     wpc, wbuf, stream>>
  BY DEF RecvData, Active
<1>2. x \in Conns /\ tcpPcbs[e] = x /\ e \in Heap /\ pcbOf[x] = a
  BY <1>0, <1>1, CallbackFacts
<1>3. ~err[x] /\ x # None
  BY <1>0, <1>2, NoneAssumption DEF Calm
<1>4. /\ proc' = Sending("recv", x, peerSent[x] + 1)
      /\ peerSent' = [peerSent EXCEPT ![x] = peerSent[x] + 1]
  BY <1>2, <1>3 DEF RecvData
<1>5. \A h \in Heap : es'[h].p = es[h].p
  <2>1. \A h \in Heap : es[h] \in EsRec
    BY <1>0 DEF Base, TypeOK
  <2>2. es' = [es EXCEPT ![e].state = "RECEIVED"]
    BY DEF RecvData
  <2> HIDE DEF e
  <2> QED BY <1>0, <2>1, <2>2 DEF EsRec, Base, TypeOK
<1>6. /\ peerSent'[x] = peerSent[x] + 1 /\ peerSent[x] \in Nat
      /\ \A c \in Conns : c # x => peerSent'[c] = peerSent[c]
      /\ proc'.at = "recv" /\ proc'.conn = x /\ proc'.data = peerSent[x] + 1
  BY <1>0, <1>2, <1>4, CapAssumption DEF Sending, Base, TypeOK
<1>7. Pipe'
  <2> HIDE DEF x, e
  <2> SUFFICES ASSUME NEW c \in Conns, pcbOf[c] # None, ~err[c]
               PROVE  Copying(c)' /\ Echoing(c)'
    BY <1>1 DEF Pipe
  <2>1. Copying(c) /\ Echoing(c)
    BY DEF PipeInv, Pipe
  <2>2. es'[esOf[c]].p = es[esOf[c]].p
    BY <1>0, <1>5 DEF Base, TypeOK, MadeOK
  <2>3. CASE c = x
    <3>1. Len(recvQ[c]) \in Nat
      BY <1>0 DEF Base, TypeOK
    <3>2. Taken(c)' = Taken(c)
      BY <1>1, <1>6, <2>3, <3>1 DEF Taken
    <3>3. Copying(c)'
      BY <1>1, <1>6, <2>1, <2>3, <3>2 DEF Copying
    <3>4. Sent(c)' <=> Sent(c)
      BY <1>1, <1>6 DEF Sent, Giving
    <3>5. es[esOf[c]].p # <<>> => sendCount'[c] > 0
      BY <1>1, <2>1 DEF Echoing
    <3>6. Echoing(c)'
      BY <1>1, <2>1, <2>2, <3>2, <3>4, <3>5, FrameEchoing
    <3> QED BY <3>3, <3>6
  <2>4. CASE c # x
    BY <1>1, <1>6, <2>1, <2>2, <2>4, FramePipe DEF Away
  <2> QED BY <2>3, <2>4
<1>8. Unmade'
  <2>1. x # None /\ pcbOf[x] # None
    BY <1>2, <1>3, NoneAssumption
  <2> HIDE DEF x
  <2> QED BY <1>1, <1>6, <2>1 DEF PipeInv, Unmade
<1> QED BY <1>7, <1>8 DEF PipeInv

\* A step that only touches blocks, the registry and es->state, and takes Proc
\* to no channel send.
LEMMA QuietPipe ==
  ASSUME EchoIInv, PipeInv,
         UNCHANGED <<held, err, pcbOf, esOf, recvQ, sendWait, sendCount, sendQ,
                     rpc, wpc, wbuf, stream, peerSent>>,
         \A h \in Heap : es'[h].p = es[h].p,
         proc' = proc
           \/ (proc.at \notin {"recv", "done"} /\ proc'.at \notin {"recv", "done"})
  PROVE  PipeInv'
<1>1. Pipe'
  <2> SUFFICES ASSUME NEW c \in Conns, pcbOf[c] # None, ~err[c]
               PROVE  Copying(c)' /\ Echoing(c)'
    BY DEF Pipe
  <2>1. Copying(c) /\ Echoing(c)
    BY DEF PipeInv, Pipe
  <2>2. es'[esOf[c]].p = es[esOf[c]].p
    BY DEF EchoIInv, IInv, Base, TypeOK, MadeOK
  <2> QED BY <2>1, <2>2, FramePipe DEF Away
<1>2. Unmade'
  BY DEF PipeInv, Unmade
<1> QED BY <1>1, <1>2 DEF PipeInv

\* cs_tcp_raw_send of the rest of a chain, or of a new one, keeps what was and
\* what will be sent in order.
LEMMA RawSendEchoing ==
  ASSUME Base, NEW x \in Conns, NEW a \in Blocks, NEW u \in 0 .. SndBuf,
         NEW ps \in Seq(Segments), RawSend(a, esOf[x], pcb[a], u, ps),
         pcb[a].conn = x, esOf[x] \in Heap, esOf' = esOf,
         InOrder(ps, Len(stream[x])), InOrder(stream[x], 0),
         Len(stream[x]) + Len(ps) =
           Segs * (IF held'[x] = 0 \/ Sent(x)' THEN Taken(x)' ELSE Taken(x)' - 1),
         sendCount'[x] > 0, Len(ps) <= Segs, ~err[x], ~peerFin[x],
         Taken(x)' \in Int, Taken(x)' <= peerSent[x]
  PROVE  /\ Echoing(x)'
         /\ \A h \in Heap : h # esOf[x] => es'[h] = es[h]
         /\ \A c \in Conns : c # x => stream'[c] = stream[c]
         /\ \E m \in 0 .. Segs : Emitted(x, m)
<1> DEFINE e == esOf[x]
           s == stream[x]
           n == IF held'[x] = 0 \/ Sent(x)' THEN Taken(x)' ELSE Taken(x)' - 1
<1>1. s \in Seq(Segments) /\ stream \in [Conns -> Seq(Segments)]
  BY DEF Base, TypeOK
<1>2. PICK m \in 0 .. Len(ps) : Shipped(e, x, ps, m)
  BY RawSendEffect
<1>3. /\ es'[e].p = SubSeq(ps, m + 1, Len(ps))
      /\ \A h \in Heap : h # e => es'[h] = es[h]
      /\ stream' = [stream EXCEPT ![x] = s \o SubSeq(ps, 1, m)]
  BY <1>2 DEF Shipped
<1>4. Len(s) + Len(ps) = Segs * n /\ Len(s) \in Nat /\ Len(ps) \in Nat
  BY <1>1
<1> DEFINE s2 == s \o SubSeq(ps, 1, m)
           p2 == SubSeq(ps, m + 1, Len(ps))
<1>5. stream'[x] = s2 /\ es'[esOf'[x]].p = p2
  BY <1>1, <1>3
<1>6. /\ Len(s2) = Len(s) + m /\ Len(p2) = Len(ps) - m
      /\ InOrder(s2, 0) /\ InOrder(p2, Len(s) + m)
      /\ SubSeq(ps, 1, m) = Ahead(Len(s), m)
  <2> HIDE DEF s
  <2>1. InOrder(s, 0) /\ InOrder(ps, Len(s))
    BY DEF s
  <2> QED BY <1>1, <2>1, MovedInOrder
<1>7. stream' = [stream EXCEPT ![x] = s \o Ahead(Len(s), m)]
  BY <1>3, <1>6
<1> HIDE DEF s2, p2, n
<1>8. Len(s2) + Len(p2) = Segs * n /\ InOrder(p2, Len(s2)) /\ Len(p2) <= Segs
  BY <1>4, <1>6, CapAssumption
<1>9. Echoing(x)'
  BY <1>5, <1>6, <1>8 DEF Echoing, n
<1>10. \A c \in Conns : c # x => stream'[c] = stream[c]
  BY <1>1, <1>7
<1>11. Len(s) + m <= Segs * peerSent[x] /\ m \in 0 .. Segs
  <2>1. peerSent[x] \in Int /\ Segs \in Nat
    BY CapAssumption DEF Base, TypeOK
  <2> DEFINE t == Taken(x)'
             k == peerSent[x]
  <2>2. t \in Int /\ t <= k /\ n = IF held'[x] = 0 \/ Sent(x)' THEN t ELSE t - 1
    BY DEF n
  <2> HIDE DEF t, k
  <2>3. n \in Int /\ n <= k /\ k \in Int
    BY <2>1, <2>2 DEF k
  <2>4. Segs * n <= Segs * k /\ Segs * n \in Int /\ Segs * k \in Int
    BY <2>1, <2>3, MulMono
  <2> DEFINE sn == Segs * n
             sk == Segs * k
  <2>5. sn \in Int /\ sk \in Int /\ sn <= sk /\ Len(s) + Len(ps) = sn
    BY <1>4, <2>4
  <2> HIDE DEF sn, sk
  <2>6. Len(s) + m <= sk /\ m \in 0 .. Segs
    BY <1>4, <2>1, <2>5
  <2> QED BY <2>6 DEF sk, k
<1>12. Emitted(x, m)
  BY <1>7, <1>11 DEF Emitted
<1> QED BY <1>3, <1>9, <1>10, <1>11, <1>12

\* The number of chunks taken is a number, and none is taken before it is sent.
LEMMA TakenType ==
  ASSUME Base, NEW c \in Conns
  PROVE  /\ Taken(c) \in Int /\ Taken(c) <= peerSent[c]
         /\ peerSent[c] \in Nat /\ Len(recvQ[c]) \in Nat
<1>1. peerSent[c] \in Nat /\ Len(recvQ[c]) \in Nat
  BY CapAssumption DEF Base, TypeOK
<1> QED BY <1>1 DEF Taken

\* An ACK: the rest of the chain is sent, or the Write gets its token.
LEMMA RecvAckPipe ==
  ASSUME EchoIInv, PipeInv, UNCHANGED held, NEW a \in Blocks,
         NEW n \in 1 .. SndBuf, RecvAck(a, n), NEW x \in Conns, pcb[a].conn = x
  PROVE  /\ PipeInv'
         /\ stream' = stream \/ \E m \in 0 .. Segs : Emitted(x, m)
<1> DEFINE e == pcb[a].arg
           u == pcb[a].unacked - n
<1>0. Base /\ Handles /\ Opens /\ Calm /\ SendCredit
  BY DEF EchoIInv, IInv, Credit
<1>1. /\ proc.at = "idle" /\ pcb[a].st \in Active
      /\ UNCHANGED <<err, pcbOf, esOf, recvQ, sendWait, sendQ, rpc, wpc, wbuf,
                     peerSent>>
  BY DEF RecvAck, Active
<1>2. x \in Conns /\ tcpPcbs[e] = x /\ e \in Heap /\ pcbOf[x] = a
  BY <1>0, <1>1, CallbackFacts
<1>3. ~err[x] /\ x # None /\ pcbOf[x] # None
  BY <1>0, <1>2, NoneAssumption DEF Calm
<1>4. esOf[x] = e /\ ~peerFin[x]
  BY <1>0, <1>1, <1>2, <1>3 DEF Handles, RegistryMatchesHeap, Calm
<1>5. Copying(x) /\ Echoing(x)
  BY <1>2, <1>3 DEF PipeInv, Pipe
<1>6. \A c \in Conns : c # x /\ pcbOf[c] # None /\ ~err[c] =>
        esOf[c] \in Heap /\ esOf[c] # e /\ Copying(c) /\ Echoing(c)
  <2> SUFFICES ASSUME NEW c \in Conns, c # x, pcbOf[c] # None, ~err[c]
               PROVE  esOf[c] \in Heap /\ esOf[c] # e /\ Copying(c) /\ Echoing(c)
    OBVIOUS
  <2>1. esOf[c] \in Heap /\ tcpPcbs[esOf[c]] = c
    BY <1>1, OpenFacts
  <2> QED BY <1>2, <2>1 DEF PipeInv, Pipe
<1>7. CASE ~Drained(e)
  <2>1. RawSend(a, e, pcb[a], u, es[e].p) /\ UNCHANGED <<sendCount, proc>>
    BY <1>7 DEF RecvAck
  <2>2. es[e].p \in Seq(Segments) /\ u \in 0 .. SndBuf
    <3>1. pcb[a] \in PcbRec /\ es[e] \in EsRec /\ n <= pcb[a].unacked
      BY <1>0, <1>2 DEF Base, TypeOK, RecvAck
    <3> QED BY <3>1, CapAssumption DEF EsRec, PcbRec
  <2> DEFINE ps == es[e].p
  <2>3. /\ InOrder(ps, Len(stream[x])) /\ InOrder(stream[x], 0)
        /\ Len(stream[x]) + Len(ps) =
             Segs * (IF held[x] = 0 \/ Sent(x) THEN Taken(x) ELSE Taken(x) - 1)
        /\ Len(ps) <= Segs /\ sendCount[x] > 0
    BY <1>4, <1>5, <1>7 DEF Echoing, Drained
  <2>4. /\ Taken(x)' = Taken(x) /\ (Sent(x)' <=> Sent(x))
    BY <1>1, <2>1 DEF Taken, Sent, Giving
  <2>5. Taken(x) \in Int /\ Taken(x) <= peerSent[x]
    BY <1>0, <1>2, TakenType
  <2> HIDE DEF e, u, ps
  <2>6. /\ Len(stream[x]) + Len(ps) =
             Segs * (IF held'[x] = 0 \/ Sent(x)' THEN Taken(x)' ELSE Taken(x)' - 1)
        /\ sendCount'[x] > 0 /\ Taken(x)' \in Int /\ Taken(x)' <= peerSent[x]
        /\ ps \in Seq(Segments) /\ pcb[a].conn = x
    BY <2>1, <2>2, <2>3, <2>4, <2>5 DEF ps
  <2>7. RawSend(a, esOf[x], pcb[a], u, ps) /\ esOf[x] \in Heap
    BY <1>2, <1>4, <2>1 DEF ps
  <2>8. /\ Echoing(x)'
        /\ \A h \in Heap : h # esOf[x] => es'[h] = es[h]
        /\ \A c \in Conns : c # x => stream'[c] = stream[c]
        /\ \E m \in 0 .. Segs : Emitted(x, m)
    BY <1>0, <1>1, <1>2, <1>3, <1>4, <2>2, <2>3, <2>6, <2>7, RawSendEchoing
  <2>9. Copying(x)'
    BY <1>1, <1>2, <1>5, <2>1, FrameCopying
  <2>10. Pipe'
    <3> SUFFICES ASSUME NEW c \in Conns, pcbOf[c] # None, ~err[c], c # x
                 PROVE  Copying(c)' /\ Echoing(c)'
      BY <1>1, <2>8, <2>9 DEF Pipe
    <3>1. es'[esOf[c]] = es[esOf[c]] /\ stream'[c] = stream[c]
      BY <1>4, <1>6, <2>8
    <3> QED BY <1>1, <1>6, <2>1, <3>1, FramePipe
  <2>11. Unmade'
    BY <1>1, <1>3, <2>1, <2>8 DEF PipeInv, Unmade
  <2> QED BY <1>2, <2>8, <2>10, <2>11 DEF PipeInv
<1>8. CASE Drained(e)
  <2>1. UNCHANGED <<es, stream>>
    BY <1>8 DEF RecvAck
  <2>2. CASE UNCHANGED <<sendCount, proc>>
    <3>1. PipeInv'
      BY <1>1, <2>1, <2>2, QuietPipe
    <3> QED BY <2>1, <3>1
  <2>3. CASE /\ Owed(x) /\ sendCount' = [sendCount EXCEPT ![x] = @ - 1]
             /\ proc' = Sending("done", x, 0)
    <3>1. /\ proc'.at = "done" /\ proc'.conn = x
          /\ \A c \in Conns : c # x => sendCount'[c] = sendCount[c]
      BY <1>0, <2>3 DEF Sending, Base, TypeOK
    <3> HIDE DEF e
    <3>2. Pipe'
      <4> SUFFICES ASSUME NEW c \in Conns, pcbOf[c] # None, ~err[c]
                   PROVE  Copying(c)' /\ Echoing(c)'
        BY <1>1 DEF Pipe
      <4>1. CASE c = x
        <5>1. Copying(x)' /\ Taken(x)' = Taken(x)
          BY <1>1, <1>2, <1>5, <3>1, FrameCopying
        <5>2. Sent(x)' /\ Sent(x)
          BY <2>3, <3>1 DEF Sent, Giving, Owed
        <5>3. es[esOf[x]].p = <<>>
          BY <1>4, <1>8 DEF Drained
        <5>4. Echoing(x)'
          BY <1>1, <1>2, <1>5, <2>1, <5>1, <5>2, <5>3, FrameEchoing
        <5> QED BY <4>1, <5>1, <5>4
      <4>2. CASE c # x
        BY <1>1, <1>6, <2>1, <3>1, <4>2, FramePipe DEF Away
      <4> QED BY <4>1, <4>2
    <3>3. Unmade'
      BY <1>1, <1>3, <2>1, <3>1 DEF PipeInv, Unmade
    <3> QED BY <2>1, <3>2, <3>3 DEF PipeInv
  <2> QED BY <1>2, <1>8, <2>2, <2>3 DEF RecvAck
<1> QED BY <1>7, <1>8

\* Every segment that arrives.
LEMMA InputPipe ==
  ASSUME EchoIInv, PipeInv, UNCHANGED held, Input
  PROVE  PipeInv'
<1>0. Base /\ Handles /\ Calm
  BY DEF EchoIInv, IInv
<1>1. ASSUME NEW a \in Blocks, RecvFin(a)
      PROVE  PipeInv'
  <2>1. /\ proc.at = "idle" /\ pcb[a].st \in Active
        /\ es' = [es EXCEPT ![pcb[a].arg].state = "CLOSING"]
    BY <1>1 DEF RecvFin, Active
  <2>2. pcb[a].arg \in Heap
    BY <1>0, <2>1, CallbackFacts
  <2>3. \A h \in Heap : es'[h].p = es[h].p
    <3>1. \A h \in Heap : es[h] \in EsRec
      BY <1>0 DEF Base, TypeOK
    <3> QED BY <1>0, <2>1, <2>2, <3>1 DEF Base, TypeOK, EsRec
  <2>4. proc'.at = "close"
    BY <1>1 DEF RecvFin, EnterRawClose, Closing
  <2>5. UNCHANGED <<held, err, pcbOf, esOf, recvQ, sendWait, sendCount, sendQ,
                    rpc, wpc, wbuf, stream, peerSent>>
    BY <1>1 DEF RecvFin
  <2> QED BY <2>1, <2>3, <2>4, <2>5, QuietPipe
<1>2. ASSUME NEW a \in Blocks, RecvRst(a) \/ KillPrio(a)
      PROVE  PipeInv'
  <2>1. proc.at = "idle" /\ proc'.at = "close"
    BY <1>2 DEF RecvRst, KillPrio, EnterRawClose, Closing
  <2>2. UNCHANGED <<held, err, pcbOf, esOf, recvQ, sendWait, sendCount, sendQ,
                    rpc, wpc, wbuf, stream, peerSent, es>>
    BY <1>2 DEF RecvRst, KillPrio
  <2> QED BY <2>1, <2>2, QuietPipe
<1>3. ASSUME NEW a \in Blocks, RecvLastAck(a)
      PROVE  PipeInv'
  BY <1>3, QuietPipe DEF RecvLastAck
<1>4. ASSUME NEW a \in Blocks, RecvDataClosed(a) \/ ReplayRefused(a)
      PROVE  FALSE
  BY <1>0, <1>4 DEF RecvDataClosed, ReplayRefused, Calm
<1>5. ASSUME NEW a \in Blocks, NEW n \in 1 .. SndBuf, RecvAck(a, n)
      PROVE  PipeInv'
  <2>1. pcb[a].st \in Active /\ proc.at = "idle"
    BY <1>5 DEF RecvAck, Active
  <2>2. pcb[a].conn \in Conns
    BY <1>0, <2>1, CallbackFacts
  <2>3. PICK x \in Conns : pcb[a].conn = x
    BY <2>2
  <2> QED BY <1>5, <2>3, RecvAckPipe
<1> QED BY <1>1, <1>2, <1>3, <1>4, <1>5, AcceptPipe, RecvDataPipe DEF Input

\* A step that takes an entry off sendQueue and leaves what io.Copy of
\* connection c sees alone.
LEMMA TailCopying ==
  ASSUME NEW c \in Conns, Copying(c), sendQ \in Seq(Entries), sendQ # <<>>,
         sendQ' = Tail(sendQ), proc' = proc, peerSent'[c] = peerSent[c],
         recvQ'[c] = recvQ[c], held'[c] = held[c], wpc'[c] = wpc[c],
         wbuf'[c] = wbuf[c], rpc'[c] = rpc[c]
  PROVE  Copying(c)' /\ Taken(c)' = Taken(c)
<1>1. Taken(c)' = Taken(c)
  BY DEF Taken
<1>2. \A i \in 1 .. Len(sendQ') : i + 1 \in 1 .. Len(sendQ) /\ sendQ'[i] = sendQ[i + 1]
  OBVIOUS
<1>3. \A i \in 1 .. Len(sendQ') : sendQ'[i].conn = c => sendQ'[i].data = held'[c]
  BY <1>2 DEF Copying
<1> QED BY <1>1, <1>3 DEF Copying

\* "pcb.recvQueued <- data": the chunk joins the ones io.Copy has not read.
LEMMA ProcRecvPutPipe ==
  ASSUME EchoIInv, PipeInv, UNCHANGED held, ProcRecvPut, NEW x \in Conns,
         proc.conn = x
  PROVE  PipeInv'
<1>0. Base /\ Calm /\ Opens
  BY DEF EchoIInv, IInv
<1>1. proc.at = "recv" /\ ~err[x] /\ pcbOf[x] # None
  BY <1>0 DEF ProcRecvPut, Calm, Opens, Fresh
<1>2. /\ recvQ' = [recvQ EXCEPT ![x] = Append(recvQ[x], proc.data)]
      /\ proc'.at = "idle"
      /\ UNCHANGED <<err, pcbOf, esOf, sendWait, sendCount, sendQ, rpc, wpc,
                     wbuf, stream, peerSent, es>>
  BY <1>1 DEF ProcRecvPut, Idle
<1>3. recvQ \in [Conns -> Seq(Chunks)] /\ proc.data \in Chunks
  BY <1>0, <1>1 DEF Base, TypeOK, ProcOK
<1>4. Pipe'
  <2> SUFFICES ASSUME NEW c \in Conns, pcbOf[c] # None, ~err[c]
               PROVE  Copying(c)' /\ Echoing(c)'
    BY <1>2 DEF Pipe
  <2>1. Copying(c) /\ Echoing(c)
    BY DEF PipeInv, Pipe
  <2>2. CASE c = x
    <3> DEFINE q == recvQ[c]
               d == proc.data
    <3>1. /\ recvQ'[c] = Append(q, d) /\ q \in Seq(Chunks)
          /\ d = peerSent[c] /\ peerSent[c] \in Nat
          /\ \A i \in 1 .. Len(q) : q[i] = Taken(c) + i
          /\ Taken(c) = peerSent[c] - Len(q) - 1
      BY <1>0, <1>1, <1>2, <1>3, <2>1, <2>2, TakenType DEF Copying, Taken
    <3> HIDE DEF q, d
    <3>2. /\ Len(Append(q, d)) = Len(q) + 1 /\ Len(q) \in Nat
          /\ \A i \in 1 .. Len(q) : Append(q, d)[i] = q[i]
          /\ Append(q, d)[Len(q) + 1] = d
      BY <3>1
    <3>3. Taken(c)' = peerSent'[c] - Len(recvQ'[c]) - 0
      BY <1>2 DEF Taken
    <3>4. Taken(c)' = Taken(c)
      BY <1>2, <3>1, <3>2, <3>3
    <3>5. \A i \in 1 .. Len(recvQ'[c]) : recvQ'[c][i] = Taken(c) + i
      <4> SUFFICES ASSUME NEW i \in 1 .. Len(q) + 1
                   PROVE  recvQ'[c][i] = Taken(c) + i
        BY <3>1, <3>2
      <4>1. CASE i = Len(q) + 1
        <5>1. recvQ'[c][i] = peerSent[c]
          BY <3>1, <3>2, <4>1, Zenon
        <5>2. /\ Taken(c) = peerSent[c] - Len(q) - 1 /\ peerSent[c] \in Nat
              /\ Len(q) \in Nat
          BY <3>1, <3>2, Zenon
        <5>3. peerSent[c] = Taken(c) + (Len(q) + 1)
          BY <5>2
        <5> QED BY <4>1, <5>1, <5>3, Zenon
      <4>2. CASE i # Len(q) + 1
        <5>1. i \in 1 .. Len(q)
          BY <3>2, <4>2
        <5> QED BY <3>1, <3>2, <5>1
      <4> QED BY <4>1, <4>2
    <3>6. Copying(c)'
      BY <1>2, <2>1, <3>4, <3>5 DEF Copying
    <3>7. Sent(c)' <=> Sent(c)
      BY <1>1, <1>2 DEF Sent, Giving
    <3>8. es[esOf[c]].p # <<>> => sendCount'[c] > 0
      BY <1>2, <2>1 DEF Echoing
    <3>9. Echoing(c)'
      BY <1>2, <2>1, <3>4, <3>7, <3>8, FrameEchoing
    <3> QED BY <3>6, <3>9
  <2>3. CASE c # x
    BY <1>0, <1>2, <1>3, <2>1, <2>3, FramePipe DEF Away
  <2> QED BY <2>2, <2>3
<1>5. Unmade'
  BY <1>2 DEF PipeInv, Unmade
<1> QED BY <1>4, <1>5 DEF PipeInv

\* "pcb.sendWait <- 1": the Write stays counted.
LEMMA ProcDonePutPipe ==
  ASSUME EchoIInv, PipeInv, UNCHANGED held, ProcDonePut, NEW x \in Conns,
         proc.conn = x
  PROVE  PipeInv'
<1>0. Base /\ Calm /\ SendCredit
  BY DEF EchoIInv, IInv, Credit
<1>1. proc.at = "done" /\ ~err[x]
  BY <1>0 DEF ProcDonePut, Calm
<1>2. /\ sendWait' = [sendWait EXCEPT ![x] = sendWait[x] + 1]
      /\ proc'.at = "idle"
      /\ UNCHANGED <<err, pcbOf, esOf, recvQ, sendCount, sendQ, rpc, wpc,
                     wbuf, stream, peerSent, es>>
  BY <1>1 DEF ProcDonePut, Idle
<1>3. sendWait'[x] > 0 /\ \A c \in Conns : c # x => sendWait'[c] = sendWait[c]
  <2>1. sendWait \in [Conns -> 0 .. 1]
    BY <1>0 DEF Base, TypeOK
  <2>2. sendWait'[x] = sendWait[x] + 1 /\ sendWait[x] \in 0 .. 1
    BY <1>2, <2>1
  <2> QED BY <1>2, <2>1, <2>2
<1>4. pcbOf[x] # None
  <2>1. Waiting(x)
    BY <1>0, <1>1 DEF SendCredit, Giving, Waiting
  <2> QED BY <1>0, <2>1 DEF Waiting, Base, MadeOK
<1>5. Pipe'
  <2> SUFFICES ASSUME NEW c \in Conns, pcbOf[c] # None, ~err[c]
               PROVE  Copying(c)' /\ Echoing(c)'
    BY <1>2 DEF Pipe
  <2>1. Copying(c) /\ Echoing(c)
    BY DEF PipeInv, Pipe
  <2>2. CASE c = x
    <3>1. Copying(c)' /\ Taken(c)' = Taken(c)
      BY <1>1, <1>2, <2>1, FrameCopying
    <3>2. Sent(c)' /\ Sent(c)
      BY <1>1, <1>3, <2>2 DEF Sent, Giving
    <3>3. es[esOf[c]].p # <<>> => sendCount'[c] > 0
      BY <1>2, <2>1 DEF Echoing
    <3>4. Echoing(c)'
      BY <1>2, <2>1, <3>1, <3>2, <3>3, FrameEchoing
    <3> QED BY <3>1, <3>4
  <2>3. CASE c # x
    BY <1>2, <1>3, <2>1, <2>3, FramePipe DEF Away
  <2> QED BY <2>2, <2>3
<1>6. Unmade'
  BY <1>2, <1>3, <1>4 DEF PipeInv, Unmade
<1> QED BY <1>5, <1>6 DEF PipeInv

\* cs_tcp_raw_close takes away the chain of its own connection only.
LEMMA ProcRawClosePipe ==
  ASSUME EchoIInv, PipeInv, UNCHANGED held, ProcRawClose, NEW x \in Conns,
         proc.conn = x
  PROVE  PipeInv'
<1>0. Base /\ Handles
  BY DEF EchoIInv, IInv
<1>1. proc.at = "close" /\ proc.es \in Heap /\ tcpPcbs[proc.es] = None
  BY <1>0 DEF ProcRawClose, Base, ProcOK, Handles, Places
<1>2. /\ err' = [err EXCEPT ![x] = TRUE]
      /\ es' = [es EXCEPT ![proc.es] = FreeEs]
      /\ proc'.at = "idle"
      /\ UNCHANGED <<pcbOf, esOf, recvQ, sendWait, sendCount, sendQ, rpc, wpc,
                     wbuf, stream, peerSent>>
  BY DEF ProcRawClose, Idle
<1>3. Pipe'
  <2> SUFFICES ASSUME NEW c \in Conns, pcbOf[c] # None, ~err'[c]
               PROVE  Copying(c)' /\ Echoing(c)'
    BY <1>2 DEF Pipe
  <2>1. c # x /\ ~err[c]
    BY <1>0, <1>2 DEF Base, TypeOK
  <2>2. Copying(c) /\ Echoing(c)
    BY <2>1 DEF PipeInv, Pipe
  <2>3. esOf[c] \in Heap /\ tcpPcbs[esOf[c]] = c
    BY <2>1, OpenFacts
  <2>4. esOf[c] # proc.es
    BY <1>1, <2>3, NoneAssumption
  <2>5. es'[esOf[c]] = es[esOf[c]]
    BY <1>0, <1>2, <2>3, <2>4 DEF Base, TypeOK
  <2> QED BY <1>1, <1>2, <2>2, <2>5, FramePipe DEF Away
<1>4. Unmade'
  BY <1>2 DEF PipeInv, Unmade
<1> QED BY <1>3, <1>4 DEF PipeInv

\* The chain of chunk t holds its segments in order, after those of the chunks
\* before.
LEMMA ChainInOrder ==
  ASSUME NEW t \in Nat \ {0}, NEW k \in Nat, k = Segs * (t - 1)
  PROVE  Len(Chain(t)) = Segs /\ InOrder(Chain(t), k) /\ k + Segs = Segs * t
<1>1. Segs \in Nat \ {0}
  BY CapAssumption
<1>2. Len(Chain(t)) = Segs /\ \A i \in 1 .. Segs : Chain(t)[i] = <<t, i>>
  BY <1>1 DEF Chain
<1>3. \A i \in 1 .. Segs : Piece(k + i) = <<t, i>>
  BY PieceOf
<1>4. InOrder(Chain(t), k)
  BY <1>2, <1>3 DEF InOrder
<1>5. Segs * (t - 1) + Segs = Segs * t
  BY <1>1
<1> QED BY <1>2, <1>4, <1>5

\* An entry of sendQueue: the chunk io.Copy holds is laid out behind what was
\* sent.
LEMMA ProcSendPipe ==
  ASSUME EchoIInv, PipeInv, "nomem" \notin Env, UNCHANGED held, ProcSend,
         NEW x \in Conns, Head(sendQ).conn = x
  PROVE  /\ PipeInv'
         /\ stream' = stream \/ \E m \in 0 .. Segs : Emitted(x, m)
<1>0. Base /\ Handles /\ Opens /\ Calm /\ SendCredit
  BY DEF EchoIInv, IInv, Credit
<1>1. /\ proc.at = "idle" /\ proc' = proc /\ sendQ # <<>> /\ sendQ' = Tail(sendQ)
      /\ UNCHANGED <<err, pcbOf, esOf, recvQ, sendWait, rpc, wpc, wbuf,
                     peerSent>>
  BY DEF ProcSend
<1>2. sendQ \in Seq(Entries) /\ 1 \in 1 .. Len(sendQ) /\ sendQ[1] = Head(sendQ)
  <2>1. sendQ \in Seq(Entries)
    BY <1>0 DEF Base, TypeOK
  <2> QED BY <1>1, <2>1
<1>3. pcbOf[x] # None
  BY <1>0, <1>2 DEF Base, MadeOK
<1>4. \A c \in Conns : pcbOf[c] # None /\ ~err[c] =>
        Copying(c) /\ Echoing(c) /\ Copying(c)' /\ Taken(c)' = Taken(c)
  <2> SUFFICES ASSUME NEW c \in Conns, pcbOf[c] # None, ~err[c]
               PROVE  Copying(c) /\ Echoing(c) /\ Copying(c)' /\ Taken(c)' = Taken(c)
    OBVIOUS
  <2>1. Copying(c) /\ Echoing(c)
    BY DEF PipeInv, Pipe
  <2> QED BY <1>1, <1>2, <2>1, TailCopying
<1>5. CASE err[x]
  <2>1. UNCHANGED <<sendCount, es, stream>>
    BY <1>5 DEF ProcSend, SendOpen
  <2>2. ASSUME NEW c \in Conns, pcbOf[c] # None, ~err[c]
        PROVE  Echoing(c)'
    <3>1. Sent(c)' <=> Sent(c)
      BY <1>1, <2>1 DEF Sent, Giving
    <3>2. es[esOf[c]].p # <<>> => sendCount'[c] > 0
      BY <1>4, <2>1, <2>2 DEF Echoing
    <3> QED BY <1>1, <1>4, <2>1, <2>2, <3>1, <3>2, FrameEchoing
  <2>3. Pipe'
    BY <1>1, <1>4, <2>2 DEF Pipe
  <2>4. Unmade'
    BY <1>1, <2>1 DEF PipeInv, Unmade
  <2> QED BY <2>1, <2>3, <2>4 DEF PipeInv
<1>6. CASE ~err[x]
  <2> DEFINE a == pcbOf[x]
             d == Head(sendQ).data
             u == pcb[a].unacked
  <2>1. sendCount[x] = 0 /\ ~Sent(x)
    <3>1. Queued(x)
      BY <1>2 DEF Queued
    <3> QED BY <1>0, <1>6, <3>1 DEF SendCredit, Sent, Base, TypeOK
  <2>2. /\ Copying(x) /\ Echoing(x) /\ Copying(x)' /\ Taken(x)' = Taken(x)
    BY <1>3, <1>4, <1>6
  <2>3. es[esOf[x]].p = <<>>
    BY <2>1, <2>2 DEF Echoing
  <2>4. /\ sendCount' = [sendCount EXCEPT ![x] = sendCount[x] + 1]
        /\ RawSend(a, esOf[x], pcb[a], u, Chain(d))
    BY <1>6, <2>3 DEF ProcSend, SendOpen, Drained
  <2>5. /\ a \in Blocks /\ esOf[x] \in Heap /\ tcpPcbs[esOf[x]] = x
        /\ pcb[a].conn = x
    BY <1>1, <1>3, <1>6, OpenFacts
  <2>6. /\ d \in Data /\ u \in 0 .. SndBuf
    <3>1. pcb[a] \in PcbRec /\ sendQ[1] \in Entries
      BY <1>0, <1>2, <2>5 DEF Base, TypeOK
    <3> QED BY <1>2, <3>1 DEF PcbRec, Entries
  <2>7. /\ Chain(d) \in Seq(Segments)
    BY <2>6, ChainType
  <2>8. d = held[x] /\ d # 0 /\ d = Taken(x) /\ d \in Nat \ {0}
    <3>1. d = held[x]
      BY <1>2, <2>2 DEF Copying
    <3>2. d # 0 /\ d \in Nat \ {0}
      BY <2>6, CapAssumption DEF Data
    <3> QED BY <2>2, <3>1, <3>2 DEF Copying
  <2>9. ~peerFin[x]
    BY <1>0, <1>1, <1>6 DEF Calm
  <2>10. sendCount'[x] > 0 /\ \A c \in Conns : c # x => sendCount'[c] = sendCount[c]
    <3>1. sendCount \in [Conns -> Nat]
      BY <1>0 DEF Base, TypeOK
    <3>2. sendCount'[x] = 0 + 1
      BY <2>1, <2>4, <3>1
    <3> QED BY <2>4, <3>1, <3>2
  <2>11. stream[x] \in Seq(Segments) /\ Len(stream[x]) \in Nat
    BY <1>0 DEF Base, TypeOK
  <2> HIDE DEF a, d, u
  <2>12. Len(stream[x]) = Segs * (d - 1) /\ InOrder(stream[x], 0)
    <3>1. /\ Len(stream[x]) + Len(es[esOf[x]].p) =
               Segs * (IF held[x] = 0 \/ Sent(x) THEN Taken(x) ELSE Taken(x) - 1)
          /\ InOrder(stream[x], 0)
      BY <2>2 DEF Echoing
    <3>2. Len(es[esOf[x]].p) = 0
      BY <2>3
    <3>3. Len(stream[x]) + 0 = Segs * (d - 1)
      BY <2>1, <2>8, <3>1, <3>2
    <3> QED BY <2>11, <3>1, <3>3
  <2>13. /\ Len(Chain(d)) = Segs /\ InOrder(Chain(d), Len(stream[x]))
         /\ Len(stream[x]) + Segs = Segs * d
    BY <2>8, <2>11, <2>12, ChainInOrder
  <2>14. Sent(x)'
    BY <2>10 DEF Sent
  <2>15. Len(stream[x]) + Len(Chain(d)) =
           Segs * (IF held'[x] = 0 \/ Sent(x)' THEN Taken(x)' ELSE Taken(x)' - 1)
    BY <2>2, <2>8, <2>13, <2>14
  <2>16. Taken(x)' \in Int /\ Taken(x)' <= peerSent[x] /\ Segs <= Segs
    BY <1>0, <2>2, TakenType, CapAssumption
  <2>17. /\ Echoing(x)'
         /\ \A h \in Heap : h # esOf[x] => es'[h] = es[h]
         /\ \A c \in Conns : c # x => stream'[c] = stream[c]
         /\ \E m \in 0 .. Segs : Emitted(x, m)
    <3>1. Len(Chain(d)) <= Segs
      BY <2>13, <2>16
    <3> QED BY <1>0, <1>1, <1>6, <2>4, <2>5, <2>6, <2>7, <2>9, <2>10, <2>12,
               <2>13, <2>15, <2>16, <3>1, RawSendEchoing
  <2>18. ASSUME NEW c \in Conns, pcbOf[c] # None, ~err[c], c # x
         PROVE  Echoing(c)'
    <3>1. Sent(c)' <=> Sent(c)
      BY <1>1, <2>10, <2>18 DEF Sent, Giving
    <3>2. es[esOf[c]].p # <<>> => sendCount'[c] > 0
      BY <1>4, <2>10, <2>18 DEF Echoing
    <3>3. esOf[c] \in Heap /\ tcpPcbs[esOf[c]] = c
      BY <1>1, <2>18, OpenFacts
    <3>4. es'[esOf[c]] = es[esOf[c]] /\ stream'[c] = stream[c]
      BY <2>5, <2>17, <2>18, <3>3
    <3> QED BY <1>1, <1>4, <2>18, <3>1, <3>2, <3>4, FrameEchoing
  <2>19. Pipe'
    BY <1>1, <1>4, <2>17, <2>18 DEF Pipe
  <2>20. Unmade'
    BY <1>1, <1>3, <2>10, <2>17 DEF PipeInv, Unmade
  <2> QED BY <2>17, <2>19, <2>20 DEF PipeInv
<1> QED BY <1>5, <1>6

\* Every step of Proc.
LEMMA ProcPipe ==
  ASSUME EchoIInv, PipeInv, "nomem" \notin Env, UNCHANGED held, Proc
  PROVE  PipeInv'
<1>0. Base /\ Handles /\ EchoBase
  BY DEF EchoIInv, IInv
<1>1. CASE ProcRecvPut \/ ProcDonePut \/ ProcRawClose
  <2>1. proc.conn \in Conns
    BY <1>0, <1>1 DEF ProcRecvPut, ProcDonePut, ProcRawClose, Base, ProcOK,
                      Handles, Places
  <2>2. PICK x \in Conns : proc.conn = x
    BY <2>1
  <2> QED BY <1>1, <2>2, ProcRecvPutPipe, ProcDonePutPipe, ProcRawClosePipe
<1>2. CASE ProcRecved
  BY <1>2, QuietPipe DEF ProcRecved
<1>3. CASE ProcClose
  BY <1>0, <1>3 DEF ProcClose, EchoBase
<1>4. CASE ProcSend
  <2>1. sendQ \in Seq(Entries) /\ sendQ # <<>>
    BY <1>0, <1>4 DEF Base, TypeOK, ProcSend
  <2>2. Head(sendQ) \in Entries
    BY <2>1
  <2>3. PICK x \in Conns : Head(sendQ).conn = x
    BY <2>2 DEF Entries
  <2> QED BY <1>4, <2>3, ProcSendPipe
<1> QED BY <1>1, <1>2, <1>3, <1>4 DEF Proc

\* A step of io.Copy of connection x leaves Proc, the C side and what the
\* other goroutines hold alone.
Private(x) ==
  /\ UNCHANGED <<err, pcbOf, esOf, peerSent, peerFin, stream, es, proc,
                 sendCount>>
  /\ \A c \in Conns : c # x =>
       /\ recvQ'[c] = recvQ[c] /\ held'[c] = held[c] /\ wpc'[c] = wpc[c]
       /\ wbuf'[c] = wbuf[c] /\ rpc'[c] = rpc[c] /\ sendWait'[c] = sendWait[c]
  /\ \A i \in 1 .. Len(sendQ') :
       (i \in 1 .. Len(sendQ) /\ sendQ'[i] = sendQ[i]) \/ sendQ'[i].conn = x

\* Every step of io.Copy is private.
LEMMA CopyPrivate ==
  ASSUME Base, EchoBase, NEW x \in Conns, Copy(x)
  PROVE  Private(x)
<1>0. /\ recvQ \in [Conns -> Seq(Chunks)] /\ held \in [Conns -> Chunks \cup {0}]
      /\ wpc \in [Conns -> [Writers -> {"idle", "lock", "queue", "wait"}]]
      /\ wbuf \in [Conns -> [Writers -> Data \cup {0}]]
      /\ rpc \in [Conns -> {"idle", "recv", "credit", "done"}]
      /\ sendWait \in [Conns -> 0 .. 1] /\ sendQ \in Seq(Entries)
  BY DEF Base, TypeOK, EchoBase
<1> USE DEF Private
<1>1. CASE EchoRead(x) \/ (ReadEnd(x) /\ UNCHANGED held)
           \/ (ReadCredit(x) /\ UNCHANGED held) \/ EchoWriteFail(x)
  BY <1>0, <1>1 DEF EchoRead, ReadCheck, ReadEnd, ReadCredit, EchoWriteFail, vars
<1>2. CASE EchoGet(x)
  BY <1>0, <1>2 DEF EchoGet, ReadGet
<1>3. ASSUME NEW w \in Writers, EchoWrite(x, w)
      PROVE  Private(x)
  BY <1>0, <1>3 DEF EchoWrite, WriteCheck
<1>4. ASSUME NEW w \in Writers, WriteLock(x, w), UNCHANGED held
      PROVE  Private(x)
  BY <1>0, <1>4 DEF WriteLock
<1>5. ASSUME NEW w \in Writers, WriteQueue(x, w), UNCHANGED held
      PROVE  Private(x)
  <2> DEFINE s == [conn |-> x, data |-> wbuf[x][w]]
  <2>1. s.conn = x
    OBVIOUS
  <2>2. sendQ' = Append(sendQ, s)
    BY <1>5 DEF WriteQueue
  <2> HIDE DEF s
  <2>3. \A i \in 1 .. Len(sendQ') :
          (i \in 1 .. Len(sendQ) /\ sendQ'[i] = sendQ[i]) \/ sendQ'[i].conn = x
    BY <1>0, <2>1, <2>2
  <2> QED BY <1>0, <1>5, <2>3 DEF WriteQueue
<1>6. ASSUME NEW w \in Writers, EchoWriteDone(x, w)
      PROVE  Private(x)
  BY <1>0, <1>6 DEF EchoWriteDone, WriteDone
<1> QED BY <1>1, <1>2, <1>3, <1>4, <1>5, <1>6 DEF Copy

\* A private step of another io.Copy leaves connection c alone.
LEMMA PrivateFrame ==
  ASSUME NEW x \in Conns, NEW c \in Conns, c # x, Private(x), Copying(c),
         Echoing(c)
  PROVE  Copying(c)' /\ Echoing(c)'
<1>1. Taken(c)' = Taken(c)
  BY DEF Taken, Private
<1>2. \A i \in 1 .. Len(sendQ') : sendQ'[i].conn = c => sendQ'[i].data = held'[c]
  BY DEF Copying, Private
<1>3. /\ recvQ'[c] = recvQ[c] /\ held'[c] = held[c] /\ wpc'[c] = wpc[c]
      /\ wbuf'[c] = wbuf[c] /\ rpc'[c] = rpc[c] /\ proc' = proc
      /\ peerSent' = peerSent
  BY DEF Private
<1>4. Copying(c)'
  BY <1>1, <1>2, <1>3 DEF Copying
<1>5. Sent(c)' <=> Sent(c)
  BY DEF Sent, Giving, Private
<1>6. es[esOf[c]].p # <<>> => sendCount'[c] > 0
  BY DEF Echoing, Private
<1>7. Echoing(c)'
  BY <1>1, <1>3, <1>5, <1>6, FrameEchoing DEF Private
<1> QED BY <1>4, <1>7

\* A step of io.Copy keeps the pipeline when it does so for its connection.
LEMMA PrivatePipe ==
  ASSUME PipeInv, NEW x \in Conns, Private(x), pcbOf[x] # None,
         ~err[x] => Copying(x)' /\ Echoing(x)'
  PROVE  PipeInv'
<1>1. UNCHANGED <<err, pcbOf, peerSent, stream, sendCount>>
  BY DEF Private
<1>2. Pipe'
  <2> SUFFICES ASSUME NEW c \in Conns, pcbOf[c] # None, ~err[c], c # x
               PROVE  Copying(c)' /\ Echoing(c)'
    BY <1>1 DEF Pipe
  <2> QED BY PrivateFrame DEF PipeInv, Pipe
<1>3. Unmade'
  BY <1>1 DEF PipeInv, Unmade, Private
<1> QED BY <1>2, <1>3 DEF PipeInv

\* The segments of connection x when io.Copy neither takes a chunk nor ends a
\* Write.
LEMMA PrivateEchoing ==
  ASSUME NEW x \in Conns, Private(x), Echoing(x), recvQ'[x] = recvQ[x],
         held'[x] = held[x], sendWait'[x] = sendWait[x]
  PROVE  Echoing(x)' /\ Taken(x)' = Taken(x)
<1>1. Taken(x)' = Taken(x)
  BY DEF Taken, Private
<1>2. Sent(x)' <=> Sent(x)
  BY DEF Sent, Giving, Private
<1>3. es[esOf[x]].p # <<>> => sendCount'[x] > 0
  BY DEF Echoing, Private
<1>4. Echoing(x)'
  BY <1>1, <1>2, <1>3, FrameEchoing DEF Private
<1> QED BY <1>1, <1>4

\* io.Copy at its Read.
LEMMA EchoReadPipe ==
  ASSUME EchoIInv, PipeInv, NEW x \in Conns, Private(x),
         EchoRead(x) \/ (ReadEnd(x) /\ UNCHANGED held)
           \/ (ReadCredit(x) /\ UNCHANGED held)
  PROVE  PipeInv'
<1>0. Base /\ Opens
  BY DEF EchoIInv, IInv
<1>1. pcbOf[x] # None
  BY <1>0 DEF EchoRead, ReadCheck, ReadEnd, ReadCredit, Opens, Fresh
<1>2. UNCHANGED <<recvQ, held, wpc, wbuf, sendQ, sendWait>>
  BY DEF EchoRead, ReadCheck, ReadEnd, ReadCredit
<1>3. rpc'[x] = "recv" => held[x] = 0
  <2>1. rpc \in [Conns -> {"idle", "recv", "credit", "done"}]
    BY <1>0 DEF Base, TypeOK
  <2> QED BY <2>1 DEF EchoRead, ReadCheck, ReadEnd, ReadCredit
<1>4. ASSUME ~err[x] PROVE Copying(x)' /\ Echoing(x)'
  <2>1. Copying(x) /\ Echoing(x)
    BY <1>1, <1>4 DEF PipeInv, Pipe
  <2>2. Echoing(x)' /\ Taken(x)' = Taken(x)
    BY <1>2, <2>1, PrivateEchoing
  <2>3. proc' = proc /\ peerSent' = peerSent
    BY DEF Private
  <2>4. Copying(x)'
    BY <1>2, <1>3, <2>1, <2>2, <2>3 DEF Copying
  <2> QED BY <2>2, <2>4
<1> QED BY <1>1, <1>4, PrivatePipe

\* Read returns the next chunk: no Write is in progress.
LEMMA EchoGetPipe ==
  ASSUME EchoIInv, PipeInv, NEW x \in Conns, Private(x), EchoGet(x)
  PROVE  PipeInv'
<1>0. Base /\ Opens /\ SendCredit /\ EchoBase
  BY DEF EchoIInv, IInv, Credit
<1>1. pcbOf[x] # None
  BY <1>0 DEF EchoGet, ReadGet, Opens, Fresh
<1>2. /\ rpc[x] = "recv" /\ recvQ[x] # <<>>
      /\ recvQ' = [recvQ EXCEPT ![x] = Tail(recvQ[x])]
      /\ held' = [held EXCEPT ![x] = Head(recvQ[x])]
      /\ rpc' = [rpc EXCEPT ![x] = "credit"]
      /\ UNCHANGED <<wpc, wbuf, sendQ, sendWait>>
  BY DEF EchoGet, ReadGet
<1>3. ASSUME ~err[x] PROVE Copying(x)' /\ Echoing(x)'
  <2>1. Copying(x) /\ Echoing(x)
    BY <1>1, <1>3 DEF PipeInv, Pipe
  <2>2. held[x] = 0 /\ \A w \in Writers : wpc[x][w] = "idle"
    BY <1>2, <2>1 DEF Copying
  <2>3. ~Sent(x) /\ ~Queued(x)
    <3>1. ~Waiting(x)
      BY <2>2 DEF Waiting
    <3> QED BY <1>0, <1>3, <3>1 DEF SendCredit, Sent
  <2>4. ~Sent(x)'
    BY <1>2, <2>3 DEF Sent, Giving, Private
  <2> DEFINE q == recvQ[x]
             t == Taken(x)
  <2>5. /\ q \in Seq(Chunks) /\ q # <<>> /\ recvQ'[x] = Tail(q)
        /\ held'[x] = Head(q) /\ rpc'[x] = "credit"
    <3>1. /\ recvQ \in [Conns -> Seq(Chunks)]
          /\ held \in [Conns -> Chunks \cup {0}]
          /\ rpc \in [Conns -> {"idle", "recv", "credit", "done"}]
      BY <1>0 DEF Base, TypeOK, EchoBase
    <3> QED BY <1>2, <3>1
  <2>6. \A i \in 1 .. Len(q) : q[i] = t + i
    BY <2>1 DEF Copying
  <2>7. t \in Int /\ peerSent[x] \in Nat
    BY <1>0, TakenType
  <2>8. Taken(x)' = t + 1
    <3> DEFINE k == IF proc.at = "recv" /\ proc.conn = x THEN 1 ELSE 0
    <3>1. t = peerSent[x] - Len(q) - k /\ Taken(x)' = peerSent[x] - Len(Tail(q)) - k
      BY <2>5 DEF Taken, Private
    <3>2. k \in {0, 1}
      OBVIOUS
    <3>3. Len(Tail(q)) = Len(q) - 1 /\ Len(q) \in Nat
      BY <2>5
    <3>4. ASSUME NEW z \in Int, NEW n \in Int, NEW j \in Int
          PROVE  z - (n - 1) - j = (z - n - j) + 1
      OBVIOUS
    <3>5. peerSent[x] \in Int /\ Len(q) \in Int /\ k \in Int
      BY <2>7, <3>2, <3>3
    <3> HIDE DEF q, t, k
    <3>6. peerSent[x] - (Len(q) - 1) - k = (peerSent[x] - Len(q) - k) + 1
      BY <3>4, <3>5
    <3> QED BY <3>1, <3>3, <3>6, Zenon
  <2>9. held'[x] = t + 1 /\ held'[x] # 0
    <3> HIDE DEF q, t
    <3>1. Head(q) = q[1] /\ 1 \in 1 .. Len(q) /\ Head(q) \in Chunks
      BY <2>5
    <3>2. Head(q) = t + 1
      BY <2>6, <3>1, Zenon
    <3>3. Head(q) # 0
      BY <3>1, CapAssumption DEF Chunks
    <3> QED BY <2>5, <3>2, <3>3, Zenon
  <2>10. \A i \in 1 .. Len(recvQ'[x]) : recvQ'[x][i] = (t + 1) + i
    <3> HIDE DEF q, t
    <3> SUFFICES ASSUME NEW i \in 1 .. Len(Tail(q))
                 PROVE  Tail(q)[i] = (t + 1) + i
      BY <2>5
    <3>1. i + 1 \in 1 .. Len(q) /\ Tail(q)[i] = q[i + 1] /\ i \in Int
      BY <2>5
    <3>2. q[i + 1] = t + (i + 1)
      BY <2>6, <3>1
    <3> QED BY <2>7, <3>1, <3>2
  <2>11. /\ proc' = proc /\ peerSent' = peerSent
         /\ proc.at = "recv" /\ proc.conn = x => proc.data = peerSent[x]
    BY <2>1 DEF Private, Copying
  <2>12. \A i \in 1 .. Len(sendQ) : sendQ[i].conn # x
    BY <2>3 DEF Queued
  <2> HIDE DEF q, t
  <2>13. Copying(x)'
    BY <1>2, <2>2, <2>5, <2>8, <2>9, <2>10, <2>11, <2>12 DEF Copying
  <2>14. Echoing(x)'
    <3>1. (IF held[x] = 0 \/ Sent(x) THEN Taken(x) ELSE Taken(x) - 1) = t
      BY <2>2 DEF t
    <3>2. (IF held'[x] = 0 \/ Sent(x)' THEN Taken(x)' ELSE Taken(x)' - 1) = t
      BY <2>4, <2>7, <2>8, <2>9
    <3>3. /\ es[esOf[x]].p # <<>> => sendCount[x] > 0
          /\ Len(es[esOf[x]].p) <= Segs
          /\ Len(stream[x]) + Len(es[esOf[x]].p) = Segs * t
          /\ InOrder(es[esOf[x]].p, Len(stream[x])) /\ InOrder(stream[x], 0)
      BY <2>1, <3>1 DEF Echoing
    <3>4. UNCHANGED <<es, esOf, stream, sendCount>>
      BY DEF Private
    <3> QED BY <3>2, <3>3, <3>4 DEF Echoing
  <2> QED BY <2>13, <2>14
<1> QED BY <1>1, <1>3, PrivatePipe

\* The Write of a chunk, up to its wait for the token.
LEMMA EchoWritePipe ==
  ASSUME EchoIInv, PipeInv, NEW x \in Conns, Private(x), NEW w \in Writers,
         EchoWrite(x, w) \/ (WriteLock(x, w) /\ UNCHANGED held)
           \/ (WriteQueue(x, w) /\ UNCHANGED held)
  PROVE  PipeInv'
<1>0. Base
  BY DEF EchoIInv, IInv
<1>1. pcbOf[x] # None
  BY <1>0 DEF EchoWrite, WriteCheck, WriteLock, WriteQueue, Base, MadeOK
<1>2. UNCHANGED <<recvQ, held, rpc, sendWait>>
  BY DEF EchoWrite, WriteCheck, WriteLock, WriteQueue
<1>3. /\ wpc \in [Conns -> [Writers -> {"idle", "lock", "queue", "wait"}]]
      /\ wbuf \in [Conns -> [Writers -> Data \cup {0}]]
      /\ sendQ \in Seq(Entries)
  BY <1>0 DEF Base, TypeOK
<1>4. ASSUME ~err[x] PROVE Copying(x)' /\ Echoing(x)'
  <2>1. Copying(x) /\ Echoing(x)
    BY <1>1, <1>4 DEF PipeInv, Pipe
  <2>2. Echoing(x)' /\ Taken(x)' = Taken(x)
    BY <1>2, <2>1, PrivateEchoing
  <2>3. proc' = proc /\ peerSent' = peerSent
    BY DEF Private
  <2>4. \A v \in Writers : wpc[x][v] # "idle" => held[x] # 0 /\ wbuf[x][v] = held[x]
    BY <2>1 DEF Copying
  <2>5. \A v \in Writers :
          wpc'[x][v] # "idle" => held[x] # 0 /\ wbuf'[x][v] = held[x]
    <3>1. CASE EchoWrite(x, w)
      BY <1>3, <2>4, <3>1 DEF EchoWrite, WriteCheck
    <3>2. CASE WriteLock(x, w)
      BY <1>3, <2>4, <3>2 DEF WriteLock
    <3>3. CASE WriteQueue(x, w)
      BY <1>3, <2>4, <3>3 DEF WriteQueue
    <3> QED BY <3>1, <3>2, <3>3
  <2>6. \A i \in 1 .. Len(sendQ) : sendQ[i].conn = x => sendQ[i].data = held[x]
    BY <2>1 DEF Copying
  <2>7. \A i \in 1 .. Len(sendQ') : sendQ'[i].conn = x => sendQ'[i].data = held[x]
    <3>1. CASE WriteQueue(x, w)
      <4> DEFINE s == [conn |-> x, data |-> wbuf[x][w]]
      <4>1. s.data = held[x]
        BY <2>4, <3>1 DEF WriteQueue
      <4>2. sendQ' = Append(sendQ, s)
        BY <3>1 DEF WriteQueue
      <4> HIDE DEF s
      <4> QED BY <1>3, <2>6, <4>1, <4>2
    <3>2. CASE ~WriteQueue(x, w)
      BY <2>6, <3>2 DEF EchoWrite, WriteCheck, WriteLock
    <3> QED BY <3>1, <3>2
  <2>8. Copying(x)'
    BY <1>2, <2>1, <2>2, <2>3, <2>5, <2>7 DEF Copying
  <2> QED BY <2>2, <2>8
<1> QED BY <1>1, <1>4, PrivatePipe

\* The Write has its token: what it carried is in the stream.
LEMMA EchoWriteDonePipe ==
  ASSUME EchoIInv, PipeInv, OneCopier, NEW x \in Conns, Private(x),
         NEW w \in Writers, EchoWriteDone(x, w)
  PROVE  PipeInv'
<1>0. Base /\ SendCredit /\ EchoBase
  BY DEF EchoIInv, IInv, Credit
<1>1. pcbOf[x] # None
  BY <1>0 DEF EchoWriteDone, WriteDone, Base, MadeOK
<1>2. UNCHANGED <<recvQ, rpc, wbuf, sendQ>> /\ held' = [held EXCEPT ![x] = 0]
  BY DEF EchoWriteDone, WriteDone
<1>3. ASSUME ~err[x] PROVE Copying(x)' /\ Echoing(x)'
  <2>1. Copying(x) /\ Echoing(x)
    BY <1>1, <1>3 DEF PipeInv, Pipe
  <2>2. sendWait[x] > 0
    BY <1>3 DEF EchoWriteDone, WriteDone
  <2>3. sendCount[x] = 0 /\ ~Queued(x) /\ Sent(x)
    <3>1. sendCount[x] \in Nat /\ sendWait[x] \in 0 .. 1
      BY <1>0 DEF Base, TypeOK
    <3> QED BY <1>0, <1>3, <2>2, <3>1 DEF SendCredit, Sent
  <2>4. held'[x] = 0
    BY <1>0, <1>2 DEF EchoBase
  <2>5. \A v \in Writers : wpc'[x][v] = "idle"
    <3>1. wpc'[x][w] = "idle"
      BY <1>0 DEF EchoWriteDone, WriteDone, Base, TypeOK
    <3> QED BY <3>1 DEF OneCopier
  <2>6. \A i \in 1 .. Len(sendQ) : sendQ[i].conn # x
    BY <2>3 DEF Queued
  <2>7. Taken(x)' = Taken(x) /\ proc' = proc /\ peerSent' = peerSent
    BY <1>2 DEF Taken, Private
  <2>8. Copying(x)'
    BY <1>2, <2>1, <2>4, <2>5, <2>6, <2>7 DEF Copying
  <2>9. es[esOf[x]].p = <<>>
    BY <2>1, <2>3 DEF Echoing
  <2>10. Echoing(x)'
    BY <2>1, <2>3, <2>4, <2>7, <2>9, FrameEchoing DEF Private
  <2> QED BY <2>8, <2>10
<1> QED BY <1>1, <1>3, PrivatePipe

\* io.Copy gives up on a closed connection.
LEMMA EchoWriteFailPipe ==
  ASSUME EchoIInv, PipeInv, NEW x \in Conns, Private(x), EchoWriteFail(x)
  PROVE  PipeInv'
<1>1. err[x] /\ pcbOf[x] # None
  BY DEF EchoWriteFail, EchoIInv, Calm
<1> QED BY <1>1, PrivatePipe

\* Every step of the echo server keeps the pipeline.
LEMMA NextPipe ==
  ASSUME EchoIInv, PipeInv, OneCopier, "nomem" \notin Env, [EchoNext]_echoVars
  PROVE  PipeInv'
<1>1. CASE (Input \/ Proc) /\ UNCHANGED held
  BY <1>1, InputPipe, ProcPipe
<1>2. ASSUME NEW x \in Conns, Copy(x)
      PROVE  PipeInv'
  <2>1. Private(x)
    BY <1>2, CopyPrivate DEF EchoIInv, IInv
  <2> QED BY <1>2, <2>1, EchoReadPipe, EchoGetPipe, EchoWritePipe,
             EchoWriteDonePipe, EchoWriteFailPipe DEF Copy
<1>3. CASE UNCHANGED echoVars
  <2>1. UNCHANGED <<held, err, pcbOf, esOf, recvQ, sendWait, sendCount, sendQ,
                    rpc, wpc, wbuf, stream, peerSent, es, proc>>
    BY <1>3 DEF echoVars, vars
  <2> QED BY <2>1, QuietPipe
<1> QED BY <1>1, <1>2, <1>3 DEF EchoNext

\* Nothing is on its way at the start.
LEMMA InitPipe == EchoInit => PipeInv
BY DEF EchoInit, Init, PipeInv, Pipe, Unmade

\* Connection c is told of a Write only when all its segments are taken, and
\* the token is for the Write that waits.
Token(c) ==
  sendWait[c] > 0 =>
    \A w \in Writers :
      /\ wpc[c][w] = "wait" /\ stream[c] # <<>>
      /\ stream[c][Len(stream[c])] = <<wbuf[c][w], Segs>>

\* A token of an open connection.
LEMMA OpenToken ==
  ASSUME EchoIInv, PipeInv, OneCopier, NEW c \in Conns, ~err[c]
  PROVE  Token(c)
<1> SUFFICES ASSUME sendWait[c] > 0, NEW w \in Writers
             PROVE  /\ wpc[c][w] = "wait" /\ stream[c] # <<>>
                    /\ stream[c][Len(stream[c])] = <<wbuf[c][w], Segs>>
  BY DEF Token
<1>0. Base /\ SendCredit /\ EchoBase
  BY DEF EchoIInv, IInv, Credit
<1>1. wpc[c][w] = "wait" /\ sendCount[c] = 0 /\ Sent(c)
  <2>1. sendCount[c] \in Nat /\ sendWait[c] \in 0 .. 1
    BY <1>0 DEF Base, TypeOK
  <2>2. Waiting(c) /\ sendCount[c] = 0
    BY <1>0, <2>1 DEF SendCredit
  <2> QED BY <2>2 DEF Waiting, OneCopier, Sent
<1>2. Copying(c) /\ Echoing(c)
  <2>1. pcbOf[c] # None
    BY <1>0, <1>1 DEF Base, MadeOK
  <2> QED BY <2>1 DEF PipeInv, Pipe
<1> DEFINE t == held[c]
           n == Len(stream[c])
<1>3. t # 0 /\ wbuf[c][w] = t /\ t = Taken(c)
  BY <1>1, <1>2 DEF Copying
<1>4. t \in Nat \ {0} /\ Segs \in Nat \ {0} /\ stream[c] \in Seq(Segments) /\ n \in Nat
  <2>1. held[c] \in Chunks \cup {0} /\ stream[c] \in Seq(Segments)
    BY <1>0 DEF EchoBase, Base, TypeOK
  <2> QED BY <1>3, <2>1, CapAssumption DEF Chunks
<1>5. n = Segs * t /\ InOrder(stream[c], 0)
  <2>1. es[esOf[c]].p = <<>>
    BY <1>1, <1>2 DEF Echoing
  <2>2. n + Len(es[esOf[c]].p) = Segs * t /\ InOrder(stream[c], 0)
    BY <1>1, <1>2, <1>3 DEF Echoing
  <2>3. Len(es[esOf[c]].p) = 0
    BY <2>1
  <2>4. n + 0 = Segs * t
    BY <2>2, <2>3
  <2> QED BY <1>4, <2>2, <2>4
<1> HIDE DEF t, n
<1>6. Segs * (t - 1) + Segs = Segs * t /\ Segs * (t - 1) \in Nat
  <2>1. t - 1 \in Nat
    BY <1>4
  <2> QED BY <1>4, <2>1
<1>7. n = Segs * (t - 1) + Segs /\ n # 0 /\ n \in 1 .. n /\ 0 + n = n
  BY <1>4, <1>5, <1>6
<1>8. Piece(Segs * (t - 1) + Segs) = <<t, Segs>>
  <2>1. Segs \in 1 .. Segs
    BY <1>4
  <2> QED BY <1>4, <2>1, PieceOf
<1>9. stream[c][n] = Piece(0 + n)
  <2>1. \A i \in 1 .. n : stream[c][i] = Piece(0 + i)
    BY <1>5 DEF InOrder, n
  <2> QED BY <1>7, <2>1
<1>10. stream[c][n] = <<t, Segs>>
  BY <1>7, <1>8, <1>9
<1>11. stream[c] # <<>>
  <2>1. stream[c] = <<>> => Len(stream[c]) = 0
    OBVIOUS
  <2> QED BY <1>7, <2>1, Zenon DEF n
<1> QED BY <1>1, <1>3, <1>10, <1>11 DEF n

\* What the echo server does to the stream and to err of one connection: the
\* next segments are sent, or the connection is closed, or neither.
LEMMA EchoEffect ==
  ASSUME EchoIInv, PipeInv, "nomem" \notin Env, [EchoNext]_echoVars
  PROVE  \/ UNCHANGED <<err, stream>>
         \/ UNCHANGED <<err, peerSent, peerFin>>
              /\ \E x \in Conns, m \in 0 .. Segs : Emitted(x, m)
         \/ \E x \in Conns : /\ err' = [err EXCEPT ![x] = TRUE]
                             /\ UNCHANGED <<stream, peerSent, peerFin, wpc,
                                            wbuf, sendWait>>
<1>0. Base /\ Handles /\ EchoBase
  BY DEF EchoIInv, IInv
<1>1. ASSUME NEW a \in Blocks, NEW n \in 1 .. SndBuf, RecvAck(a, n), UNCHANGED held
      PROVE  /\ UNCHANGED <<err, peerSent, peerFin>>
             /\ stream' = stream \/ \E x \in Conns, m \in 0 .. Segs : Emitted(x, m)
  <2>1. pcb[a].st \in Active /\ proc.at = "idle"
    BY <1>1 DEF RecvAck, Active
  <2>2. pcb[a].conn \in Conns
    BY <1>0, <2>1, CallbackFacts
  <2>3. PICK x \in Conns : pcb[a].conn = x
    BY <2>2
  <2>4. stream' = stream \/ \E m \in 0 .. Segs : Emitted(x, m)
    BY <1>1, <2>3, RecvAckPipe
  <2> QED BY <1>1, <2>4 DEF RecvAck
<1>2. ASSUME ProcSend, UNCHANGED held
      PROVE  /\ UNCHANGED <<err, peerSent, peerFin>>
             /\ stream' = stream \/ \E x \in Conns, m \in 0 .. Segs : Emitted(x, m)
  <2>1. sendQ \in Seq(Entries) /\ sendQ # <<>>
    BY <1>0, <1>2 DEF Base, TypeOK, ProcSend
  <2>2. Head(sendQ) \in Entries
    BY <2>1
  <2>3. PICK x \in Conns : Head(sendQ).conn = x
    BY <2>2 DEF Entries
  <2>4. stream' = stream \/ \E m \in 0 .. Segs : Emitted(x, m)
    BY <1>2, <2>3, ProcSendPipe
  <2> QED BY <1>2, <2>4 DEF ProcSend
<1>3. ASSUME ProcRawClose
      PROVE  \E x \in Conns : /\ err' = [err EXCEPT ![x] = TRUE]
                              /\ UNCHANGED <<stream, peerSent, peerFin, wpc,
                                             wbuf, sendWait>>
  BY <1>0, <1>3 DEF ProcRawClose, Handles, Places
<1>4. ASSUME Input, UNCHANGED held
      PROVE  \/ UNCHANGED <<err, stream>>
             \/ UNCHANGED <<err, peerSent, peerFin>>
                  /\ \E x \in Conns, m \in 0 .. Segs : Emitted(x, m)
  <2>1. ASSUME NEW a \in Blocks,
               RecvData(a) \/ RecvDataClosed(a) \/ ReplayRefused(a) \/ RecvFin(a)
                 \/ RecvRst(a) \/ RecvLastAck(a) \/ KillPrio(a)
        PROVE  UNCHANGED <<err, stream>>
    BY <2>1 DEF RecvData, RecvDataClosed, ReplayRefused, RecvFin, RecvRst,
                RecvLastAck, KillPrio
  <2>2. ASSUME NEW c \in Conns, NEW a \in Blocks, NEW e \in Heap, Accept(c, a, e)
        PROVE  UNCHANGED <<err, stream>>
    BY <2>2 DEF Accept
  <2> QED BY <1>1, <1>4, <2>1, <2>2 DEF Input
<1>5. ASSUME ProcRecvPut \/ ProcDonePut \/ ProcRecved \/ ProcClose
      PROVE  UNCHANGED <<err, stream>>
  BY <1>5 DEF ProcRecvPut, ProcDonePut, ProcRecved, ProcClose
<1>6. ASSUME NEW x \in Conns, Copy(x)
      PROVE  UNCHANGED <<err, stream>>
  BY <1>0, <1>6, CopyPrivate DEF Private
<1>7. UNCHANGED echoVars => UNCHANGED <<err, stream>>
  BY DEF echoVars, vars
<1> QED BY <1>1, <1>2, <1>3, <1>4, <1>5, <1>6, <1>7 DEF EchoNext, Proc

\* On a closed connection a token stays with its Write or is taken by it.
LEMMA ClosedToken ==
  ASSUME EchoIInv, OneCopier, NEW c \in Conns, err[c], Token(c),
         stream'[c] = stream[c], [EchoNext]_echoVars
  PROVE  Token(c)'
<1>0. Base /\ EchoBase
  BY DEF EchoIInv, IInv
<1>1. CASE UNCHANGED <<wpc, wbuf, sendWait>>
  BY <1>1 DEF Token
<1>2. ASSUME Input PROVE UNCHANGED <<wpc, wbuf, sendWait>>
  BY <1>2 DEF Input, Accept, RecvData, RecvDataClosed, ReplayRefused, RecvFin,
              RecvRst, RecvLastAck, KillPrio, RecvAck
<1>3. CASE Proc
  <2>1. ASSUME ProcDonePut PROVE Token(c)'
    <3>1. ~err[proc.conn] /\ proc.conn # c
      BY <2>1 DEF ProcDonePut, EchoIInv, Calm
    <3>2. sendWait'[c] = sendWait[c] /\ UNCHANGED <<wpc, wbuf>>
      BY <1>0, <2>1, <3>1 DEF ProcDonePut, Base, TypeOK
    <3> QED BY <3>2 DEF Token
  <2>2. ASSUME ProcRecvPut \/ ProcRawClose \/ ProcRecved \/ ProcClose \/ ProcSend
        PROVE  UNCHANGED <<wpc, wbuf, sendWait>>
    BY <2>2 DEF ProcRecvPut, ProcRawClose, ProcRecved, ProcClose, ProcSend
  <2> QED BY <1>1, <1>3, <2>1, <2>2 DEF Proc
<1>4. ASSUME NEW x \in Conns, Copy(x)
      PROVE  Token(c)'
  <2>1. CASE x # c
    <3>1. wpc'[c] = wpc[c] /\ wbuf'[c] = wbuf[c] /\ sendWait'[c] = sendWait[c]
      BY <1>0, <1>4, <2>1, CopyPrivate DEF Private
    <3> QED BY <3>1 DEF Token
  <2>2. CASE x = c
    <3>1. ASSUME EchoRead(c) \/ EchoGet(c) \/ ReadEnd(c) \/ ReadCredit(c)
                   \/ EchoWriteFail(c)
          PROVE  UNCHANGED <<wpc, wbuf, sendWait>>
      BY <3>1 DEF EchoRead, EchoGet, ReadCheck, ReadGet, ReadEnd, ReadCredit,
                  EchoWriteFail, vars
    <3>2. ASSUME NEW w \in Writers,
                 EchoWrite(c, w) \/ WriteLock(c, w) \/ WriteQueue(c, w)
          PROVE  Token(c)'
      <4>1. wpc[c][w] # "wait" /\ UNCHANGED sendWait
        BY <3>2 DEF EchoWrite, WriteCheck, WriteLock, WriteQueue
      <4> QED BY <4>1 DEF Token
    <3>3. ASSUME NEW w \in Writers, EchoWriteDone(c, w)
          PROVE  Token(c)'
      <4>1. sendWait \in [Conns -> 0 .. 1]
        BY <1>0 DEF Base, TypeOK
      <4>2. sendWait'[c] = IF sendWait[c] > 0 THEN sendWait[c] - 1 ELSE sendWait[c]
        BY <3>3, <4>1 DEF EchoWriteDone, WriteDone
      <4>3. ~(sendWait'[c] > 0)
        BY <4>1, <4>2
      <4> QED BY <4>3 DEF Token
    <3> QED BY <1>1, <1>4, <2>2, <3>1, <3>2, <3>3 DEF Copy
  <2> QED BY <2>1, <2>2
<1>5. UNCHANGED echoVars => UNCHANGED <<wpc, wbuf, sendWait>>
  BY DEF echoVars, vars
<1> QED BY <1>1, <1>2, <1>3, <1>4, <1>5 DEF EchoNext

\* The invariant of the pipeline and of the tokens of closed connections.
EchoTokens ==
  EchoIInv /\ PipeInv /\ \A c \in Conns : err[c] => Token(c)

\* All tokens.
LEMMA TokensMean ==
  ASSUME OneCopier, EchoTokens
  PROVE  \A c \in Conns : Token(c)
BY OpenToken DEF EchoTokens

\* Every step keeps it.
LEMMA NextTokens ==
  ASSUME OneCopier, "nomem" \notin Env, EchoTokens, [EchoNext]_echoVars
  PROVE  EchoTokens'
<1>0. EchoIInv /\ PipeInv /\ \A c \in Conns : Token(c)
  BY TokensMean DEF EchoTokens
<1>1. EchoIInv' /\ PipeInv'
  BY <1>0, NextEcho, NextPipe
<1>2. ASSUME NEW c \in Conns, err'[c]
      PROVE  Token(c)'
  <2>1. CASE ~err[c]
    <3>1. err' # err
      BY <1>2, <2>1
    <3>2. UNCHANGED <<stream, wpc, wbuf, sendWait>>
      BY <1>0, <3>1, EchoEffect
    <3> QED BY <1>0, <3>2 DEF Token
  <2>2. CASE err[c]
    <3>1. stream'[c] = stream[c]
      <4>1. ASSUME NEW x \in Conns, NEW m \in 0 .. Segs, Emitted(x, m)
            PROVE  stream'[c] = stream[c]
        <5>1. x # c
          BY <2>2, <4>1 DEF Emitted
        <5>2. stream \in [Conns -> Seq(Segments)]
          BY <1>0 DEF EchoIInv, IInv, Base, TypeOK
        <5> QED BY <4>1, <5>1, <5>2 DEF Emitted
      <4> QED BY <1>0, <4>1, EchoEffect
    <3> QED BY <1>0, <2>2, <3>1, ClosedToken
  <2> QED BY <2>1, <2>2
<1> QED BY <1>1, <1>2 DEF EchoTokens

\* It holds always when one goroutine copies each connection and pbuf_alloc
\* does not fail.
LEMMA SpecTokens ==
  ASSUME OneCopier, "nomem" \notin Env
  PROVE  EchoSpec => []EchoTokens
<1>1. EchoInit => EchoTokens
  <2> SUFFICES ASSUME EchoInit
               PROVE  EchoTokens
    OBVIOUS
  <2>1. EchoIInv /\ PipeInv
    BY InitEcho, InitPipe
  <2>2. \A c \in Conns : ~err[c]
    BY DEF EchoInit, Init
  <2> QED BY <2>1, <2>2 DEF EchoTokens
<1>2. EchoTokens /\ [EchoNext]_echoVars => EchoTokens'
  BY NextTokens
<1> QED BY <1>1, <1>2, PTL DEF EchoSpec

\* io.Copy learns of the success of a Write only when lwIP has taken all its
\* segments, for any number of connections, blocks, chunks and segments per
\* chunk and any capacities of the channels.
THEOREM EchoTokensHonest ==
  OneCopier /\ "nomem" \notin Env => (EchoSpec => []TokenMeansAccepted)
<1> SUFFICES ASSUME OneCopier, "nomem" \notin Env
             PROVE  EchoSpec => []TokenMeansAccepted
  OBVIOUS
<1>1. EchoTokens => TokenMeansAccepted
  BY TokensMean DEF Token, TokenMeansAccepted
<1> QED BY <1>1, SpecTokens, PTL

-----------------------------------------------------------------------------
(* The bridge under the echo server implements the echo service.           *)

\* What the peer sends and how it closes: the steps that touch peerSent or
\* peerFin.
LEMMA PeerEffect ==
  ASSUME EchoIInv, [EchoNext]_echoVars
  PROVE  \/ UNCHANGED <<peerSent, peerFin>>
         \/ /\ UNCHANGED <<err, stream, peerFin>>
            /\ \E x \in Conns : peerSent' = [peerSent EXCEPT ![x] = @ + 1]
         \/ /\ UNCHANGED <<err, stream, peerSent>>
            /\ \E x \in Conns : /\ ~peerFin[x] /\ ~err[x]
                                /\ peerFin' = [peerFin EXCEPT ![x] = TRUE]
<1>0. Base /\ Handles /\ Calm /\ EchoBase
  BY DEF EchoIInv, IInv
<1>1. ASSUME NEW a \in Blocks, pcb[a].st \in Active, proc.at = "idle"
      PROVE  pcb[a].conn \in Conns /\ ~err[pcb[a].conn]
  <2>1. /\ pcb[a].arg \in Heap /\ pcb[a].conn \in Conns
        /\ tcpPcbs[pcb[a].arg] = pcb[a].conn
    BY <1>0, <1>1, CallbackFacts
  <2> QED BY <1>0, <2>1 DEF Calm
<1>2. ASSUME NEW a \in Blocks, RecvData(a)
      PROVE  /\ UNCHANGED <<err, stream, peerFin>>
             /\ \E x \in Conns : peerSent' = [peerSent EXCEPT ![x] = @ + 1]
  <2>1. pcb[a].conn \in Conns
    BY <1>1, <1>2 DEF RecvData, Active
  <2> QED BY <1>2, <2>1 DEF RecvData
<1>3. ASSUME NEW a \in Blocks, RecvFin(a)
      PROVE  /\ UNCHANGED <<err, stream, peerSent>>
             /\ \E x \in Conns : /\ ~peerFin[x] /\ ~err[x]
                                 /\ peerFin' = [peerFin EXCEPT ![x] = TRUE]
  <2>1. pcb[a].conn \in Conns /\ ~err[pcb[a].conn]
    BY <1>1, <1>3 DEF RecvFin, Active
  <2> QED BY <1>3, <2>1 DEF RecvFin
<1>4. ASSUME NEW a \in Blocks, RecvDataClosed(a) \/ ReplayRefused(a)
      PROVE  FALSE
  BY <1>0, <1>4 DEF RecvDataClosed, ReplayRefused, Calm
<1>5. ASSUME \/ \E c \in Conns, a \in Blocks, e \in Heap : Accept(c, a, e)
             \/ \E a \in Blocks : RecvRst(a) \/ RecvLastAck(a) \/ KillPrio(a)
             \/ \E a \in Blocks, n \in 1 .. SndBuf : RecvAck(a, n)
      PROVE  UNCHANGED <<peerSent, peerFin>>
  BY <1>5 DEF Accept, RecvRst, RecvLastAck, KillPrio, RecvAck
<1>6. ASSUME Proc
      PROVE  UNCHANGED <<peerSent, peerFin>>
  BY <1>6 DEF Proc, ProcRecvPut, ProcDonePut, ProcRawClose, ProcRecved,
              ProcClose, ProcSend
<1>7. ASSUME NEW x \in Conns, Copy(x)
      PROVE  UNCHANGED <<peerSent, peerFin>>
  BY <1>0, <1>7, CopyPrivate DEF Private
<1>8. UNCHANGED echoVars => UNCHANGED <<peerSent, peerFin>>
  BY DEF echoVars, vars
<1> QED BY <1>2, <1>3, <1>4, <1>5, <1>6, <1>7, <1>8 DEF EchoNext, Input

\* When a connection is closed for its client.
ClosedTo == [c \in Conns |-> peerFin[c] \/ err[c]]

\* Every step is one of the echo service, or none.
LEMMA NextService ==
  ASSUME EchoTokens, "nomem" \notin Env, [EchoNext]_echoVars
  PROVE  [Service!Next]_(Service!svars)
<1>0. EchoIInv /\ PipeInv
  BY DEF EchoTokens
<1>t. /\ stream \in [Conns -> Seq(Segments)] /\ peerFin \in [Conns -> BOOLEAN]
      /\ err \in [Conns -> BOOLEAN] /\ Segs \in Nat \ {0}
  BY <1>0, CapAssumption DEF EchoIInv, IInv, Base, TypeOK
<1>1. CASE UNCHANGED <<peerSent, peerFin, err, stream>>
  BY <1>1 DEF Service!svars
<1>2. ASSUME UNCHANGED <<err, stream, peerFin>>, NEW x \in Conns,
             peerSent' = [peerSent EXCEPT ![x] = @ + 1]
      PROVE  Service!Next
  <2>1. Service!Send(x)
    BY <1>2 DEF Service!Send
  <2> QED BY <2>1 DEF Service!Next
<1>3. ASSUME UNCHANGED <<stream, peerSent>>, NEW x \in Conns, ~ClosedTo[x],
             ClosedTo' = [ClosedTo EXCEPT ![x] = TRUE]
      PROVE  Service!Next
  <2>1. Service!Close(x)
    BY <1>3 DEF Service!Close, ClosedTo
  <2> QED BY <2>1 DEF Service!Next
<1>4. ASSUME UNCHANGED <<err, stream, peerSent>>, NEW x \in Conns, ~peerFin[x],
             ~err[x], peerFin' = [peerFin EXCEPT ![x] = TRUE]
      PROVE  Service!Next
  <2>1. ~ClosedTo[x] /\ ClosedTo' = [ClosedTo EXCEPT ![x] = TRUE]
    BY <1>t, <1>4 DEF ClosedTo
  <2> QED BY <1>3, <1>4, <2>1
<1>5. ASSUME NEW x \in Conns, err' = [err EXCEPT ![x] = TRUE],
             UNCHANGED <<stream, peerSent, peerFin>>
      PROVE  [Service!Next]_(Service!svars)
  <2>1. CASE ClosedTo[x]
    <3>1. ClosedTo' = ClosedTo
      BY <1>t, <1>5, <2>1 DEF ClosedTo
    <3> QED BY <1>5, <3>1 DEF Service!svars, ClosedTo
  <2>2. CASE ~ClosedTo[x]
    <3>1. ClosedTo' = [ClosedTo EXCEPT ![x] = TRUE]
      BY <1>t, <1>5 DEF ClosedTo
    <3> QED BY <1>3, <1>5, <2>2, <3>1
  <2> QED BY <2>1, <2>2
<1>6. ASSUME UNCHANGED <<err, peerSent, peerFin>>, NEW x \in Conns,
             NEW m \in 0 .. Segs, Emitted(x, m)
      PROVE  [Service!Next]_(Service!svars)
  <2>1. CASE m = 0
    <3>1. Ahead(Len(stream[x]), 0) = <<>>
      BY DEF Ahead
    <3>2. stream[x] \o <<>> = stream[x]
      BY <1>t
    <3>3. stream' = [stream EXCEPT ![x] = stream[x]]
      BY <1>6, <2>1, <3>1, <3>2 DEF Emitted
    <3>4. stream' = stream
      BY <1>t, <3>3
    <3> QED BY <1>6, <3>4 DEF Service!svars
  <2>2. CASE m # 0
    <3>1. m \in 1 .. Segs
      BY <1>t, <2>2
    <3>2. Service!Emit(x, m)
      BY <1>6 DEF Emitted, Ahead, Piece, Service!Emit, Service!Nth
    <3> QED BY <3>1, <3>2 DEF Service!Next
  <2> QED BY <2>1, <2>2
<1>7. CASE ~UNCHANGED <<peerSent, peerFin>>
  BY <1>0, <1>2, <1>4, <1>7, PeerEffect
<1>8. CASE UNCHANGED <<peerSent, peerFin>>
  BY <1>0, <1>1, <1>5, <1>6, <1>8, EchoEffect
<1> QED BY <1>7, <1>8

\* The bridge under the echo server implements the echo service for any number
\* of connections, blocks, chunks and segments per chunk and any capacities:
\* through recvQueued, io.Copy, sendQueue, es->p and tcp_write, with
\* connections opened, reset and closed and es addresses and blocks used again,
\* no segment is dropped, repeated or reordered, and none is sent after FIN or
\* error.
THEOREM EchoRefines ==
  OneCopier /\ "nomem" \notin Env => (EchoSpec => EchoImplements)
<1> SUFFICES ASSUME OneCopier, "nomem" \notin Env
             PROVE  EchoSpec => EchoImplements
  OBVIOUS
<1>1. EchoInit => Service!Init
  BY DEF EchoInit, Init, Service!Init
<1>2. EchoTokens /\ [EchoNext]_echoVars => [Service!Next]_(Service!svars)
  BY NextService
<1> QED BY <1>1, <1>2, SpecTokens, PTL DEF EchoSpec, EchoImplements, Service!Spec
=============================================================================
