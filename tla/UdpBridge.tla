----------------------------- MODULE UdpBridge -----------------------------
(***************************************************************************)
(* The UDP half of lwip-cs: go_udp_recv_h, the map udpPcbs and the UDP     *)
(* side of PCB (lwipcs.go), cs_udp_char_sendto (src/udp.c), and the        *)
(* application of echo/echo.go, which runs io.Copy(pcb, pcb) in one        *)
(* goroutine per PCB.  Other goroutines may call Close.                    *)
(*                                                                         *)
(* A PCB is found by what cs_ip_get makes of the address a datagram comes  *)
(* from, and its port.  lwIP (external, with the repository's patch) hands *)
(* every datagram to the one udp_pcb, whose local address is that of the   *)
(* datagram while the callback runs; cs_udp_char_sendto puts the PCB's     *)
(* local address there for a reply.                                        *)
(***************************************************************************)
EXTENDS IpAddr, FiniteSets

CONSTANTS
  Conns,      \* the Go *PCB objects that newPCB may create
  Remotes,    \* where datagrams come from: [ip, port]
  Locals,     \* addresses datagrams are sent to
  None,       \* nil
  RecvCap,    \* capacity of recvQueued (1024 in the code)
  QueueCap,   \* capacity of sendQueue and closeQueue (1024)
  MaxData,    \* bound: datagrams that arrive
  MaxCloses,  \* bound: calls of Close on one PCB
  MaxInputs,  \* bound: datagrams that arrive and PCBs that are closed, together
  Env         \* what may happen: "nomem" (pbuf_alloc fails), "noroute"
              \* (no netif for the reply), "empty" (datagrams of no byte)

ASSUME UdpAssumption ==
  /\ None \notin Conns \cup Remotes \cup Locals
  /\ RecvCap \in Nat \ {0} /\ QueueCap \in Nat \ {0}
  /\ MaxData \in Nat /\ MaxCloses \in Nat /\ MaxInputs \in Nat

\* What lwIP hands to cs_udp_raw_recv.
ASSUME RemotesAssumption ==
  \A r \in Remotes :
    r = [ip |-> r.ip, port |-> r.port] /\ IsAddr(r.ip) /\ r.port \in Nat

VARIABLES
  err,        \* err[c]: p.err # nil; recvQueued is closed iff so
  recvQ,      \* recvQ[c]: the datagrams in p.recvQueued
  remote,     \* remote[c]: p.remoteIP, p.remotePort; None before newPCB
  local,      \* local[c]: p.localIP, p.localPort
  udpPcbs,    \* the map udpPcbs, from key to PCB
  sendQ,      \* sendQueue: each entry holds a slice of its PCB's copy buffer
  closeQ,     \* closeQueue
  pc,         \* pc[c]: where io.Copy is
  buf,        \* buf[c]: the datagram in the buffer io.Copy reads into
  cpc, closes,   \* where the closing goroutine is, calls of Close so far
  proc,       \* the send on recvQueued Proc is in, if any
  arrived,    \* history: the datagrams that arrived, [from, to]
  got,        \* got[c], history: what Read has returned
  out,        \* history: the datagrams sent, [from, to, data]
  fault       \* "panic" once Proc has panicked

goVars  == <<err, recvQ, remote, local, udpPcbs, sendQ, closeQ>>
appVars == <<pc, buf, cpc, closes>>
uvars   == <<goVars, appVars, proc, arrived, got, out, fault>>

Idle == [conn |-> None, data |-> 0]
Range(s) == {s[i] : i \in DOMAIN s}

\* What has come from outside so far.
Inputs == Len(arrived) + Cardinality({c \in Conns : err[c]})

-----------------------------------------------------------------------------
\* Mutant: the key is the port alone.
KeyPort(r) == <<<<>>, r.port>>

\* remote.String() of the net.UDPAddr that go_udp_recv_h builds.  The text of
\* an IP is different for different bytes; the only 16 bytes that have the
\* text of an IPv4 address, ::ffff:a.b.c.d, never come out of cs_ip_get.
Key(r) == <<IpGet(r.ip), r.port>>
Keys == {Key(r) : r \in Remotes}

\* Mutant: the map is not looked at.
LookupFresh(r) == None

\* udpPcbs[key]
Lookup(r) == udpPcbs[Key(r)]

\* Mutant: an unbounded queue.
RecvRoomAlways(c) == TRUE

\* There is room in recvQueued.
RecvRoom(c) == Len(recvQ[c]) < RecvCap

\* The object newPCB allocates: one that was not there before, no matter which.
FreshPCB == CHOOSE c \in Conns : remote[c] = None

(* The Proc goroutine.                                                     *)

\* cs_udp_raw_recv and go_udp_recv_h up to the send on recvQueued: a datagram
\* from r to l.  OnAccept starts io.Copy for a new PCB.
UdpRecv(r, l) ==
  LET d == Len(arrived) + 1 IN
  /\ proc = Idle /\ d <= MaxData /\ Inputs < MaxInputs
  /\ arrived' = Append(arrived, [from |-> r, to |-> l])
  /\ \/ /\ Lookup(r) # None
        /\ proc' = [conn |-> Lookup(r), data |-> d]
        /\ UNCHANGED <<remote, local, udpPcbs>>
     \/ /\ Lookup(r) = None
        /\ \E c \in Conns :
             /\ remote[c] = None /\ c = FreshPCB
             /\ remote' = [remote EXCEPT ![c] = r]
             /\ local' = [local EXCEPT ![c] = l]
             /\ udpPcbs' = [udpPcbs EXCEPT ![Key(r)] = c]
             /\ proc' = [conn |-> c, data |-> d]
  /\ UNCHANGED <<err, recvQ, sendQ, closeQ, appVars, got, out, fault>>

\* go_udp_recv_h of a datagram without data: &data[0] of the empty slice is
\* out of range.
UdpRecvEmpty ==
  /\ proc = Idle /\ "empty" \in Env
  /\ fault' = "panic"
  /\ UNCHANGED <<goVars, appVars, proc, arrived, got, out>>

\* Mutant: the datagram is dropped when recvQueued is full.
ProcRecvPutDrop ==
  LET c == proc.conn IN
  /\ proc # Idle /\ ~err[c]
  /\ recvQ' = IF RecvRoom(c)
              THEN [recvQ EXCEPT ![c] = Append(@, proc.data)] ELSE recvQ
  /\ proc' = Idle
  /\ UNCHANGED <<err, remote, local, udpPcbs, sendQ, closeQ, appVars,
                 arrived, got, out, fault>>

\* "pcb.recvQueued <- data": blocks while the channel is full, panics when it
\* is closed; go_udp_recv_h never looks at p.err.
ProcRecvPut ==
  LET c == proc.conn IN
  /\ proc # Idle
  /\ err[c] \/ RecvRoom(c)
  /\ IF err[c]
     THEN fault' = "panic" /\ UNCHANGED recvQ
     ELSE recvQ' = [recvQ EXCEPT ![c] = Append(@, proc.data)]
          /\ UNCHANGED fault
  /\ proc' = Idle
  /\ UNCHANGED <<err, remote, local, udpPcbs, sendQ, closeQ, appVars,
                 arrived, got, out>>

\* cs_get_current_netif: the udp_pcb of cs_udp_raw_init has no interface and
\* no interface for multicast, so that it is ip_route that finds the netif,
\* or none.
CurrentNetif == {"netif"} \cup (Env \cap {"noroute"})

\* case s := <-sendQueue: sendEntry.Send and cs_udp_char_sendto.  What the
\* slice holds now is sent, from the address the PCB was created with.  What
\* cs_udp_char_sendto returns is ignored.
ProcSend ==
  LET c == Head(sendQ) IN
  /\ proc = Idle /\ sendQ # <<>>
  /\ sendQ' = Tail(sendQ)
  /\ \/ /\ ~err[c]
        /\ \E n \in CurrentNetif :
             out' = IF n = "noroute" THEN out
                    ELSE Append(out, [from |-> local[c], to |-> remote[c],
                                      data |-> buf[c]])
     \/ (err[c] \/ "nomem" \in Env) /\ UNCHANGED out
  /\ UNCHANGED <<err, recvQ, remote, local, udpPcbs, closeQ, appVars, proc,
                 arrived, got, fault>>

\* case c := <-closeQueue: delete(udpPcbs, key).
ProcClose ==
  /\ proc = Idle /\ closeQ # <<>>
  /\ closeQ' = Tail(closeQ)
  /\ udpPcbs' = [udpPcbs EXCEPT ![Key(remote[Head(closeQ)])] = None]
  /\ UNCHANGED <<err, recvQ, remote, local, sendQ, appVars, proc, arrived,
                 got, out, fault>>

-----------------------------------------------------------------------------
(* io.Copy(pcb, pcb).                                                      *)

ReadCheck(c) ==
  /\ remote[c] # None /\ pc[c] = "read"
  /\ pc' = [pc EXCEPT ![c] = IF err[c] THEN "done" ELSE "recv"]
  /\ UNCHANGED <<goVars, buf, cpc, closes, proc, arrived, got, out, fault>>

\* A datagram is copied into the buffer of io.Copy, whose 32 KiB hold any
\* datagram: the panic for a buffer that is too small is TcpBridge's ReadSmall.
ReadGet(c) ==
  /\ pc[c] = "recv" /\ recvQ[c] # <<>>
  /\ recvQ' = [recvQ EXCEPT ![c] = Tail(@)]
  /\ buf' = [buf EXCEPT ![c] = Head(recvQ[c])]
  /\ got' = [got EXCEPT ![c] = Append(@, Head(recvQ[c]))]
  /\ pc' = [pc EXCEPT ![c] = "write"]
  /\ UNCHANGED <<err, remote, local, udpPcbs, sendQ, closeQ, cpc, closes,
                 proc, arrived, out, fault>>

\* recvQueued is closed and drained.
ReadEnd(c) ==
  /\ pc[c] = "recv" /\ recvQ[c] = <<>> /\ err[c]
  /\ pc' = [pc EXCEPT ![c] = "done"]
  /\ UNCHANGED <<goVars, buf, cpc, closes, proc, arrived, got, out, fault>>

WriteCheck(c) ==
  /\ pc[c] = "write"
  /\ pc' = [pc EXCEPT ![c] = IF err[c] THEN "done" ELSE "queue"]
  /\ UNCHANGED <<goVars, buf, cpc, closes, proc, arrived, got, out, fault>>

\* "sendQueue <- &sendEntry{PCB: p, Data: b}"; Write of a UDP PCB returns
\* without waiting, and io.Copy goes on with the same buffer.
WriteQueue(c) ==
  /\ pc[c] = "queue" /\ Len(sendQ) < QueueCap
  /\ sendQ' = Append(sendQ, c)
  /\ pc' = [pc EXCEPT ![c] = "read"]
  /\ UNCHANGED <<err, recvQ, remote, local, udpPcbs, closeQ, buf, cpc,
                 closes, proc, arrived, got, out, fault>>

(* PCB.Close by another goroutine.                                         *)

CloseMark(c) ==
  /\ remote[c] # None /\ cpc[c] = "idle" /\ closes[c] < MaxCloses
  /\ Inputs < MaxInputs
  /\ err' = [err EXCEPT ![c] = TRUE]
  /\ cpc' = [cpc EXCEPT ![c] = "queue"]
  /\ closes' = [closes EXCEPT ![c] = @ + 1]
  /\ UNCHANGED <<recvQ, remote, local, udpPcbs, sendQ, closeQ, pc, buf, proc,
                 arrived, got, out, fault>>

CloseQueue(c) ==
  /\ cpc[c] = "queue" /\ Len(closeQ) < QueueCap
  /\ closeQ' = Append(closeQ, c)
  /\ cpc' = [cpc EXCEPT ![c] = "idle"]
  /\ UNCHANGED <<err, recvQ, remote, local, udpPcbs, sendQ, pc, buf, closes,
                 proc, arrived, got, out, fault>>

-----------------------------------------------------------------------------
Init ==
  /\ err = [c \in Conns |-> FALSE]
  /\ recvQ = [c \in Conns |-> <<>>]
  /\ remote = [c \in Conns |-> None]
  /\ local = [c \in Conns |-> None]
  /\ udpPcbs = [k \in Keys |-> None]
  /\ sendQ = <<>> /\ closeQ = <<>>
  /\ pc = [c \in Conns |-> "read"]
  /\ buf = [c \in Conns |-> 0]
  /\ cpc = [c \in Conns |-> "idle"]
  /\ closes = [c \in Conns |-> 0]
  /\ proc = Idle
  /\ arrived = <<>> /\ out = <<>>
  /\ got = [c \in Conns |-> <<>>]
  /\ fault = "none"

Input == UdpRecvEmpty \/ \E r \in Remotes, l \in Locals : UdpRecv(r, l)

Proc == ProcRecvPut \/ ProcSend \/ ProcClose

Copy(c) == \/ ReadCheck(c) \/ ReadGet(c) \/ ReadEnd(c)
           \/ WriteCheck(c) \/ WriteQueue(c)

\* A panic in Proc ends the process.
Next ==
  /\ fault = "none"
  /\ \/ Input
     \/ Proc
     \/ \E c \in Conns : Copy(c) \/ CloseMark(c) \/ CloseQueue(c)

Spec == Init /\ [][Next]_uvars

\* Go schedules every goroutine that can run.
FairSpec ==
  /\ Spec
  /\ WF_uvars(fault = "none" /\ Proc)
  /\ \A c \in Conns : WF_uvars(fault = "none" /\ Copy(c))

-----------------------------------------------------------------------------
(* Properties.                                                             *)

\* Types; recvQueued, sendQueue and closeQueue never exceed their capacity.
TypeOK ==
  /\ err \in [Conns -> BOOLEAN]
  /\ recvQ \in [Conns -> Seq(1 .. MaxData)]
  /\ \A c \in Conns : Len(recvQ[c]) <= RecvCap
  /\ remote \in [Conns -> Remotes \cup {None}]
  /\ local \in [Conns -> Locals \cup {None}]
  /\ udpPcbs \in [Keys -> Conns \cup {None}]
  /\ sendQ \in Seq(Conns) /\ Len(sendQ) <= QueueCap
  /\ closeQ \in Seq(Conns) /\ Len(closeQ) <= QueueCap
  /\ pc \in [Conns -> {"read", "recv", "write", "queue", "done"}]
  /\ buf \in [Conns -> 0 .. MaxData]
  /\ cpc \in [Conns -> {"idle", "queue"}]
  /\ closes \in [Conns -> 0 .. MaxCloses]
  /\ proc \in [conn : Conns \cup {None}, data : 0 .. MaxData]
  /\ arrived \in Seq([from : Remotes, to : Locals])
  /\ got \in [Conns -> Seq(1 .. MaxData)]
  /\ out \in Seq([from : Locals, to : Remotes, data : 1 .. MaxData])
  /\ fault \in {"none", "panic"}

\* A PCB that has not been closed is the one go_udp_recv_h finds for the key
\* of its remote address: no datagram of the flow goes to another PCB, and the
\* deletes of closeQueue only hit closed PCBs.
OpenIsRegistered ==
  \A c \in Conns :
    remote[c] # None /\ ~err[c] => udpPcbs[Key(remote[c])] = c

\* The datagrams that are in PCB c: read, queued or in Proc's hand.
Held(c) == got[c] \o recvQ[c]
             \o (IF proc.conn = c THEN <<proc.data>> ELSE <<>>)
From(k) == {d \in 1 .. Len(arrived) : Key(arrived[d].from) = k}
With(k) == {c \in Conns : remote[c] # None /\ Key(remote[c]) = k}

\* Per key no datagram is lost, repeated or reordered between go_udp_recv_h
\* and Read: each is in exactly one PCB of that key, in the order of arrival,
\* be it read, queued or in Proc's hand.
PerRemoteFifo ==
  fault = "none" =>
    /\ \A c \in Conns, i, j \in 1 .. MaxData :
         i < j /\ j <= Len(Held(c)) => Held(c)[i] < Held(c)[j]
    /\ \A k \in Keys : From(k) = UNION {Range(Held(c)) : c \in With(k)}
    /\ \A c, x \in Conns : c # x => Range(Held(c)) \cap Range(Held(x)) = {}

\* Two IPv6 addresses whose words end in the same bytes, at one port: what
\* cs_ip_get cannot tell apart, since it keeps one byte of four.
Alike(x, r) ==
  /\ x.port = r.port
  /\ x.ip.type = "v6" /\ r.ip.type = "v6"
  /\ \A i \in {4, 8, 12, 16} : x.ip.bytes[i] = r.ip.bytes[i]

\* "Echos all bytes sent by connecting client" (src/udp.c:42): a reply goes to
\* the client whose datagram it carries, although the map, a buffer that
\* io.Copy uses again and closed PCBs are on its way.  What the code does
\* confuse is two IPv6 hosts that are Alike, and those only.
ReplyToSender ==
  \A i \in 1 .. Len(out) :
    LET r == arrived[out[i].data].from IN
    out[i].to = r \/ Alike(out[i].to, r)

\* The same without the exception, as src/udp.c:42 has it.
ExactReply ==
  \A i \in 1 .. Len(out) : out[i].to = arrived[out[i].data].from

\* Proc waits for room in the recvQueued of a PCB whose io.Copy waits for room
\* in sendQueue, which Proc alone empties.
MutualWait ==
  \E c \in Conns : /\ proc.conn = c /\ ~err[c] /\ ~RecvRoom(c)
                   /\ pc[c] = "queue" /\ Len(sendQ) = QueueCap

\* Every datagram that arrives is read, unless its PCB is closed with the
\* datagram in recvQueued, the process has panicked, or Proc and an io.Copy
\* wait for each other: nothing else stops the two, full channels included.
AllRead ==
  \A d \in 1 .. MaxData :
    Len(arrived) >= d ~>
      \/ fault = "panic" \/ MutualWait
      \/ \E c \in Conns : \/ d \in Range(got[c])
                          \/ err[c] /\ d \in Range(recvQ[c])

\* "Echos all bytes sent by connecting client" (src/udp.c:42): what a client
\* gets back is what it sent, each datagram once and in order.
EchoFaithful ==
  \A i, j \in 1 .. Len(out) :
    i < j /\ out[i].to = out[j].to => out[i].data < out[j].data
=============================================================================
