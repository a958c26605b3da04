----------------------------- MODULE UdpProofs -----------------------------
(***************************************************************************)
(* Proofs about UdpBridge, for any number of PCBs, remote and local        *)
(* addresses and any capacities.                                           *)
(*                                                                         *)
(* closeQueue carries deletes by remote address.  That none of them hits   *)
(* an open PCB needs an application that closes a PCB at most once; then a *)
(* PCB keeps its place in udpPcbs from its creation to its own delete      *)
(* (Settled), and that delete exists once (Once).                          *)
(*                                                                         *)
(* That datagrams keep their order needs neither: a PCB is found by key,   *)
(* so all it has ever got is of its key, and numbers rise (Kept).          *)
(***************************************************************************)
EXTENDS UdpBridge, TLAPS

\* What Proc, io.Copy and sendQueue hold is a PCB that go_udp_recv_h has made,
\* with a datagram.
Made ==
  /\ proc # Idle => proc.conn \in Conns /\ proc.data \in 1 .. MaxData
  /\ \A c \in Conns :
       /\ remote[c] # None => local[c] # None
       /\ pc[c] # "read" => remote[c] # None
       /\ pc[c] \in {"write", "queue"} => buf[c] # 0
  /\ \A i \in 1 .. Len(sendQ) : remote[sendQ[i]] # None /\ buf[sendQ[i]] # 0

\* udpPcbs holds a PCB only under the key of its own remote address.
KeyMatches ==
  \A k \in Keys : udpPcbs[k] # None =>
    remote[udpPcbs[k]] # None /\ Key(remote[udpPcbs[k]]) = k

\* One Close: p.err is set by it, and its delete is at one place.
Once ==
  /\ \A c \in Conns :
       /\ err[c] <=> closes[c] > 0
       /\ closes[c] <= 1
       /\ closes[c] > 0 => remote[c] # None
       /\ cpc[c] = "queue" => closes[c] > 0
  /\ \A i \in 1 .. Len(closeQ) :
       closes[closeQ[i]] > 0 /\ cpc[closeQ[i]] # "queue"
  /\ \A i, j \in 1 .. Len(closeQ) : closeQ[i] = closeQ[j] => i = j

\* PCB c is where go_udp_recv_h looks for the key of its remote address.
Home(c) == udpPcbs[Key(remote[c])] = c

\* A PCB has its place until its own delete.
Settled ==
  /\ \A c \in Conns : remote[c] # None /\ ~err[c] => Home(c)
  /\ \A c \in Conns : cpc[c] = "queue" => Home(c)
  /\ \A i \in 1 .. Len(closeQ) : Home(closeQ[i])

\* The part that does not depend on how often a PCB is closed.
Base == TypeOK /\ Made

USE DEF goVars, appVars

-----------------------------------------------------------------------------
\* What a channel or a history holds.
LEMMA ElementFacts ==
  \A S, s, i : s \in Seq(S) /\ i \in 1 .. Len(s) => s[i] \in S
OBVIOUS

\* Receiving from a channel.
LEMMA TakeFacts ==
  ASSUME NEW S, NEW s \in Seq(S), s # <<>>
  PROVE  /\ Tail(s) \in Seq(S) /\ Head(s) \in S /\ Head(s) = s[1]
         /\ Len(s) \in Nat \ {0} /\ Len(Tail(s)) = Len(s) - 1
         /\ \A i \in 1 .. Len(Tail(s)) :
              Tail(s)[i] = s[i + 1] /\ i + 1 \in 1 .. Len(s)
OBVIOUS

\* Sending on a channel.
LEMMA PutFacts ==
  ASSUME NEW S, NEW s \in Seq(S), NEW x \in S
  PROVE  /\ Append(s, x) \in Seq(S)
         /\ Len(s) \in Nat /\ Len(Append(s, x)) = Len(s) + 1
         /\ \A i \in 1 .. Len(s) : Append(s, x)[i] = s[i]
         /\ Append(s, x)[Len(s) + 1] = x
OBVIOUS

\* An element of a queue of PCBs is a PCB.
LEMMA QueueFacts ==
  ASSUME TypeOK
  PROVE  /\ \A i \in 1 .. Len(sendQ) : sendQ[i] \in Conns
         /\ \A i \in 1 .. Len(closeQ) : closeQ[i] \in Conns
<1>1. sendQ \in Seq(Conns) /\ closeQ \in Seq(Conns)
  BY DEF TypeOK
<1> QED BY <1>1

\* The key of a remote address is one of the map's.
LEMMA KeyFacts == \A r \in Remotes : Key(r) \in Keys
BY DEF Keys

\* Nothing is made or queued at start-up.
LEMMA InitBase == Init => Base
<1> SUFFICES ASSUME Init PROVE Base
  OBVIOUS
<1>1. TypeOK
  BY UdpAssumption DEF Init, TypeOK, Idle
<1>2. Made
  BY DEF Init, Made
<1> QED BY <1>1, <1>2 DEF Base

\* A datagram arrives.
LEMMA UdpRecvBase ==
  ASSUME Base, NEW r \in Remotes, NEW l \in Locals, UdpRecv(r, l)
  PROVE  Base'
<1> USE DEF Base
<1> DEFINE d == Len(arrived) + 1
<1>1. /\ d \in 1 .. MaxData
      /\ arrived' = Append(arrived, [from |-> r, to |-> l])
      /\ UNCHANGED <<err, recvQ, sendQ, closeQ, pc, buf, cpc, closes, got, out,
                     fault>>
  BY UdpAssumption DEF UdpRecv, TypeOK
<1>2. arrived' \in Seq([from : Remotes, to : Locals])
  BY <1>1, PutFacts DEF TypeOK
<1> HIDE DEF d
<1>3. proc' \in [conn : Conns, data : {d}]
  BY KeyFacts DEF UdpRecv, Lookup, TypeOK, d
<1>4. proc' \in [conn : Conns \cup {None}, data : 0 .. MaxData]
  BY <1>1, <1>3
<1>5. CASE UNCHANGED <<remote, local, udpPcbs>>
  <2>1. TypeOK'
    BY <1>1, <1>2, <1>4, <1>5 DEF TypeOK
  <2>2. Made'
    BY <1>1, <1>3, <1>5 DEF Made
  <2> QED BY <2>1, <2>2
<1>6. CASE ~ UNCHANGED <<remote, local, udpPcbs>>
  <2>1. PICK c \in Conns : /\ remote' = [remote EXCEPT ![c] = r]
                           /\ local' = [local EXCEPT ![c] = l]
                           /\ udpPcbs' = [udpPcbs EXCEPT ![Key(r)] = c]
    BY <1>6 DEF UdpRecv
  <2>2. TypeOK'
    BY <1>1, <1>2, <1>4, <2>1 DEF TypeOK
  <2>3. /\ \A x \in Conns :
             x # c => remote'[x] = remote[x] /\ local'[x] = local[x]
        /\ remote'[c] # None /\ local'[c] # None
    BY <2>1, UdpAssumption DEF TypeOK
  <2>4. Made'
    BY <1>1, <1>3, <2>3, QueueFacts DEF Made
  <2> QED BY <2>2, <2>4
<1> QED BY <1>5, <1>6

\* The send on recvQueued.
LEMMA ProcRecvPutBase ==
  ASSUME Base, ProcRecvPut
  PROVE  Base'
<1> USE DEF Base
<1>1. proc.conn \in Conns /\ proc.data \in 1 .. MaxData
  BY DEF ProcRecvPut, Made
<1>2. /\ proc' = Idle
      /\ UNCHANGED <<err, remote, local, udpPcbs, sendQ, closeQ, pc, buf, cpc,
                     closes, arrived, got, out>>
  BY DEF ProcRecvPut
<1>3. fault' \in {"none", "panic"}
  BY DEF ProcRecvPut, TypeOK
<1>4. recvQ' \in [Conns -> Seq(1 .. MaxData)]
        /\ \A c \in Conns : Len(recvQ'[c]) <= RecvCap
  <2>1. CASE err[proc.conn]
    BY <2>1 DEF ProcRecvPut, TypeOK
  <2>2. CASE ~err[proc.conn]
    <3>1. /\ Len(recvQ[proc.conn]) < RecvCap
          /\ recvQ' = [recvQ EXCEPT ![proc.conn] =
                         Append(recvQ[proc.conn], proc.data)]
      BY <2>2 DEF ProcRecvPut, RecvRoom
    <3>2. recvQ[proc.conn] \in Seq(1 .. MaxData)
      BY <1>1 DEF TypeOK
    <3>3. Append(recvQ[proc.conn], proc.data) \in Seq(1 .. MaxData)
      BY <1>1, <3>2, PutFacts
    <3>4. Len(Append(recvQ[proc.conn], proc.data)) <= RecvCap
      BY <1>1, <3>1, <3>2, PutFacts, UdpAssumption
    <3> QED BY <1>1, <3>1, <3>3, <3>4 DEF TypeOK
  <2> QED BY <2>1, <2>2
<1>5. Idle \in [conn : Conns \cup {None}, data : 0 .. MaxData]
  BY UdpAssumption DEF Idle
<1>6. TypeOK'
  BY <1>2, <1>3, <1>4, <1>5 DEF TypeOK
<1>7. Made'
  BY <1>2 DEF Made
<1> QED BY <1>6, <1>7

\* The send of a datagram: what the slice holds is a datagram.
LEMMA ProcSendBase ==
  ASSUME Base, ProcSend
  PROVE  Base'
<1> USE DEF Base
<1> DEFINE c == Head(sendQ)
           Packet == [from : Locals, to : Remotes, data : 1 .. MaxData]
<1>1. /\ sendQ \in Seq(Conns) /\ sendQ # <<>> /\ sendQ' = Tail(sendQ)
      /\ UNCHANGED <<err, recvQ, remote, local, udpPcbs, closeQ, pc, buf, cpc,
                     closes, proc, arrived, got, fault>>
  BY DEF ProcSend, TypeOK
<1>2. /\ sendQ' \in Seq(Conns) /\ c \in Conns /\ c = sendQ[1]
      /\ Len(sendQ) \in Nat \ {0} /\ Len(sendQ') = Len(sendQ) - 1
      /\ \A i \in 1 .. Len(sendQ') :
           sendQ'[i] = sendQ[i + 1] /\ i + 1 \in 1 .. Len(sendQ)
  BY <1>1, TakeFacts
<1>3. /\ remote[c] # None /\ local[c] # None /\ buf[c] # 0
  <2>1. 1 \in 1 .. Len(sendQ)
    BY <1>2
  <2> QED BY <1>2, <2>1 DEF Made
<1>4. [from |-> local[c], to |-> remote[c], data |-> buf[c]] \in Packet
  <2>1. /\ remote \in [Conns -> Remotes \cup {None}]
        /\ local \in [Conns -> Locals \cup {None}]
        /\ buf \in [Conns -> 0 .. MaxData]
    BY DEF TypeOK
  <2>2. local[c] \in Locals /\ remote[c] \in Remotes
    BY <1>2, <1>3, <2>1
  <2>3. buf[c] \in 1 .. MaxData
    BY <1>2, <1>3, <2>1, UdpAssumption
  <2> QED BY <2>2, <2>3
<1>5. \/ out' = out
      \/ out' = Append(out, [from |-> local[c], to |-> remote[c],
                             data |-> buf[c]])
  BY DEF ProcSend, CurrentNetif
<1>6. out \in Seq(Packet)
  BY DEF TypeOK
<1> HIDE DEF Packet
<1>7. out' \in Seq(Packet)
  BY <1>4, <1>5, <1>6, PutFacts
<1> USE DEF Packet
<1>8. Len(sendQ') <= QueueCap
  BY <1>2, UdpAssumption DEF TypeOK
<1>9. TypeOK'
  BY <1>1, <1>2, <1>7, <1>8 DEF TypeOK
<1>10. Made'
  BY <1>1, <1>2 DEF Made
<1> QED BY <1>9, <1>10

\* The delete from udpPcbs.
LEMMA ProcCloseBase ==
  ASSUME Base, ProcClose
  PROVE  Base'
<1> USE DEF Base
<1>1. /\ closeQ \in Seq(Conns) /\ closeQ # <<>> /\ closeQ' = Tail(closeQ)
      /\ udpPcbs' = [udpPcbs EXCEPT ![Key(remote[Head(closeQ)])] = None]
      /\ UNCHANGED <<err, recvQ, remote, local, sendQ, pc, buf, cpc, closes,
                     proc, arrived, got, out, fault>>
  BY DEF ProcClose, TypeOK
<1>2. /\ closeQ' \in Seq(Conns) /\ Len(closeQ) \in Nat
      /\ Len(closeQ') = Len(closeQ) - 1
  BY <1>1, TakeFacts
<1>3. Len(closeQ') <= QueueCap
  BY <1>2, UdpAssumption DEF TypeOK
<1>4. TypeOK'
  BY <1>1, <1>2, <1>3 DEF TypeOK
<1>5. Made'
  BY <1>1 DEF Made
<1> QED BY <1>4, <1>5

\* Read and Write of io.Copy.
LEMMA CopyBase ==
  ASSUME Base, NEW c \in Conns, Copy(c)
  PROVE  Base'
<1> USE DEF Base
<1>1. CASE ReadCheck(c)
  BY <1>1, QueueFacts DEF ReadCheck, TypeOK, Made
<1>2. CASE ReadEnd(c)
  BY <1>2, QueueFacts DEF ReadEnd, TypeOK, Made
<1>3. CASE WriteCheck(c)
  BY <1>3, QueueFacts DEF WriteCheck, TypeOK, Made
<1>4. CASE ReadGet(c)
  <2>1. /\ recvQ[c] \in Seq(1 .. MaxData) /\ recvQ[c] # <<>>
        /\ got[c] \in Seq(1 .. MaxData) /\ Len(recvQ[c]) <= RecvCap
    BY <1>4 DEF ReadGet, TypeOK
  <2>2. /\ Tail(recvQ[c]) \in Seq(1 .. MaxData)
        /\ Head(recvQ[c]) \in 1 .. MaxData
        /\ Len(Tail(recvQ[c])) = Len(recvQ[c]) - 1 /\ Len(recvQ[c]) \in Nat
    BY <2>1, TakeFacts
  <2>3. Append(got[c], Head(recvQ[c])) \in Seq(1 .. MaxData)
    BY <2>1, <2>2, PutFacts
  <2>4. Len(Tail(recvQ[c])) <= RecvCap
    BY <2>1, <2>2, UdpAssumption
  <2>5. /\ recvQ' = [recvQ EXCEPT ![c] = Tail(recvQ[c])]
        /\ buf' = [buf EXCEPT ![c] = Head(recvQ[c])]
        /\ got' = [got EXCEPT ![c] = Append(got[c], Head(recvQ[c]))]
        /\ pc' = [pc EXCEPT ![c] = "write"] /\ pc[c] = "recv"
        /\ UNCHANGED <<err, remote, local, udpPcbs, sendQ, closeQ, cpc, closes,
                       proc, arrived, out, fault>>
    BY <1>4 DEF ReadGet
  <2>6. Head(recvQ[c]) \in 0 .. MaxData /\ Head(recvQ[c]) # 0
    BY <2>2
  <2>7. TypeOK'
    BY <2>2, <2>3, <2>4, <2>5, <2>6 DEF TypeOK
  <2>8. \A x \in Conns : /\ buf[x] # 0 => buf'[x] # 0
                         /\ x # c => pc'[x] = pc[x]
    BY <2>5, <2>6 DEF TypeOK
  <2>9. buf'[c] # 0 /\ remote[c] # None
    BY <2>5, <2>6 DEF TypeOK, Made
  <2>10. Made'
    BY <2>5, <2>8, <2>9, QueueFacts DEF Made
  <2> QED BY <2>7, <2>10
<1>5. CASE WriteQueue(c)
  <2>1. /\ pc[c] = "queue" /\ Len(sendQ) < QueueCap /\ sendQ \in Seq(Conns)
        /\ sendQ' = Append(sendQ, c) /\ pc' = [pc EXCEPT ![c] = "read"]
        /\ UNCHANGED <<err, recvQ, remote, local, udpPcbs, closeQ, buf, cpc,
                       closes, proc, arrived, got, out, fault>>
    BY <1>5 DEF WriteQueue, TypeOK
  <2>2. /\ sendQ' \in Seq(Conns) /\ Len(sendQ) \in Nat
        /\ Len(sendQ') = Len(sendQ) + 1 /\ sendQ'[Len(sendQ) + 1] = c
        /\ \A i \in 1 .. Len(sendQ) : sendQ'[i] = sendQ[i]
    BY <2>1, PutFacts
  <2>3. Len(sendQ') <= QueueCap
    BY <2>1, <2>2, UdpAssumption
  <2>4. TypeOK'
    BY <2>1, <2>2, <2>3 DEF TypeOK
  <2>5. remote[c] # None /\ buf[c] # 0
    BY <2>1 DEF Made
  <2>6. \A i \in 1 .. Len(sendQ') :
          remote[sendQ'[i]] # None /\ buf[sendQ'[i]] # 0
    <3> SUFFICES ASSUME NEW i \in 1 .. Len(sendQ')
                 PROVE  remote[sendQ'[i]] # None /\ buf[sendQ'[i]] # 0
      OBVIOUS
    <3>1. i \in 1 .. Len(sendQ) \/ i = Len(sendQ) + 1
      BY <2>2
    <3> QED BY <2>2, <2>5, <3>1 DEF Made
  <2>7. Made'
    BY <2>1, <2>6 DEF Made, TypeOK
  <2> QED BY <2>4, <2>7
<1> QED BY <1>1, <1>2, <1>3, <1>4, <1>5 DEF Copy

\* PCB.Close.
LEMMA CloseBase ==
  ASSUME Base, NEW c \in Conns, CloseMark(c) \/ CloseQueue(c)
  PROVE  Base'
<1> USE DEF Base
<1>1. CASE CloseMark(c)
  <2>1. closes[c] + 1 \in 0 .. MaxCloses
    <3>1. closes[c] \in 0 .. MaxCloses
      BY DEF TypeOK
    <3>2. closes[c] < MaxCloses
      BY <1>1 DEF CloseMark
    <3> QED BY <3>1, <3>2, UdpAssumption
  <2>2. /\ err' = [err EXCEPT ![c] = TRUE]
        /\ cpc' = [cpc EXCEPT ![c] = "queue"]
        /\ closes' = [closes EXCEPT ![c] = closes[c] + 1]
        /\ UNCHANGED <<recvQ, remote, local, udpPcbs, sendQ, closeQ, pc, buf,
                       proc, arrived, got, out, fault>>
    BY <1>1 DEF CloseMark
  <2>3. TypeOK'
    BY <2>1, <2>2 DEF TypeOK
  <2>4. Made'
    BY <2>2 DEF Made
  <2> QED BY <2>3, <2>4
<1>2. CASE CloseQueue(c)
  <2>1. /\ closeQ' = Append(closeQ, c) /\ closeQ \in Seq(Conns)
        /\ Len(closeQ) < QueueCap /\ cpc' = [cpc EXCEPT ![c] = "idle"]
        /\ UNCHANGED <<err, recvQ, remote, local, udpPcbs, sendQ, pc, buf,
                       closes, proc, arrived, got, out, fault>>
    BY <1>2 DEF CloseQueue, TypeOK
  <2>2. /\ closeQ' \in Seq(Conns) /\ Len(closeQ) \in Nat
        /\ Len(closeQ') = Len(closeQ) + 1
    BY <2>1, PutFacts
  <2>3. Len(closeQ') <= QueueCap
    BY <2>1, <2>2, UdpAssumption
  <2>4. TypeOK'
    BY <2>1, <2>2, <2>3 DEF TypeOK
  <2>5. Made'
    BY <2>1 DEF Made
  <2> QED BY <2>4, <2>5
<1> QED BY <1>1, <1>2

\* Every step keeps Base, with any number of Closes.
LEMMA NextBase == Base /\ [Next]_uvars => Base'
<1> SUFFICES ASSUME Base, [Next]_uvars PROVE Base'
  OBVIOUS
<1>1. CASE UNCHANGED uvars
  BY <1>1 DEF uvars, Base, TypeOK, Made
<1>2. CASE Input
  <2>1. CASE UdpRecvEmpty
    BY <2>1 DEF UdpRecvEmpty, Base, TypeOK, Made
  <2> QED BY <1>2, <2>1, UdpRecvBase DEF Input
<1>3. CASE Proc
  BY <1>3, ProcRecvPutBase, ProcSendBase, ProcCloseBase DEF Proc
<1>4. CASE \E c \in Conns : Copy(c) \/ CloseMark(c) \/ CloseQueue(c)
  BY <1>4, CopyBase, CloseBase
<1> QED BY <1>1, <1>2, <1>3, <1>4 DEF Next

\* Types hold and the channels keep within their capacity (make(chan ..., 1024)
\* of lwipcs.go), whatever the application does.
THEOREM UdpTypeCorrect == Spec => []TypeOK
<1>1. Init => Base
  BY InitBase
<1>2. Base /\ [Next]_uvars => Base'
  BY NextBase
<1>3. Base => TypeOK
  BY DEF Base
<1> QED BY <1>1, <1>2, <1>3, PTL DEF Spec

-----------------------------------------------------------------------------
(* One Close per PCB.                                                      *)

\* What udpPcbs, the closing goroutines and closeQueue say of each other.
Tied == KeyMatches /\ Once /\ Settled

\* udpPcbs is empty at start-up.
LEMMA InitTied == Init => Tied
<1> SUFFICES ASSUME Init PROVE Tied
  OBVIOUS
<1>1. KeyMatches
  BY DEF Init, KeyMatches
<1>2. Once
  BY DEF Init, Once
<1>3. Settled
  BY DEF Init, Settled
<1> QED BY <1>1, <1>2, <1>3 DEF Tied

\* Steps that make no PCB and close none.
LEMMA TiedFrame ==
  ASSUME Tied, UNCHANGED <<err, remote, udpPcbs, closeQ, cpc, closes>>
  PROVE  Tied'
BY DEF Tied, KeyMatches, Once, Settled, Home

\* A datagram arrives.  A PCB is made only for an address that has none, so
\* nothing that is Home has that address.
LEMMA UdpRecvTied ==
  ASSUME TypeOK, Tied, NEW r \in Remotes, NEW l \in Locals, UdpRecv(r, l)
  PROVE  Tied'
<1>1. UNCHANGED <<err, closeQ, cpc, closes>>
  BY DEF UdpRecv
<1>2. CASE UNCHANGED <<remote, udpPcbs>>
  BY <1>1, <1>2, TiedFrame
<1>3. CASE ~ UNCHANGED <<remote, udpPcbs>>
  <2>1. PICK n \in Conns : /\ remote[n] = None
                           /\ remote' = [remote EXCEPT ![n] = r]
                           /\ udpPcbs' = [udpPcbs EXCEPT ![Key(r)] = n]
                           /\ udpPcbs[Key(r)] = None
    BY <1>3 DEF UdpRecv, Lookup
  <2>2. /\ remote \in [Conns -> Remotes \cup {None}]
        /\ udpPcbs \in [Keys -> Conns \cup {None}]
    BY DEF TypeOK
  <2>3. /\ remote'[n] = r /\ udpPcbs'[Key(r)] = n
        /\ \A x \in Conns : x # n => remote'[x] = remote[x]
        /\ \A k \in Keys : k # Key(r) => udpPcbs'[k] = udpPcbs[k]
    BY <2>1, <2>2, KeyFacts
  <2>4. ~err[n] /\ closes[n] = 0 /\ cpc[n] # "queue"
        /\ \A i \in 1 .. Len(closeQ) : closeQ[i] # n
    <3>1. closes[n] \in Nat
      BY UdpAssumption DEF TypeOK
    <3>2. ~(closes[n] > 0)
      BY <2>1 DEF Tied, Once
    <3> QED BY <3>1, <3>2 DEF Tied, Once
  <2>5. ASSUME NEW x \in Conns, x # n, remote[x] # None, Home(x)
        PROVE  Home(x)'
    <3>1. Key(remote[x]) # Key(r)
      BY <2>1, <2>5, UdpAssumption DEF Home
    <3>2. Key(remote[x]) \in Keys
      BY <2>2, <2>5, KeyFacts
    <3> QED BY <2>3, <2>5, <3>1, <3>2 DEF Home
  <2>6. KeyMatches'
    <3> SUFFICES ASSUME NEW k \in Keys, udpPcbs'[k] # None
                 PROVE  /\ remote'[udpPcbs'[k]] # None
                        /\ Key(remote'[udpPcbs'[k]]) = k
      BY DEF KeyMatches
    <3>1. CASE k = Key(r)
      BY <2>3, <3>1, UdpAssumption
    <3>2. CASE k # Key(r)
      <4>1. /\ udpPcbs[k] \in Conns /\ remote[udpPcbs[k]] # None
            /\ Key(remote[udpPcbs[k]]) = k
        BY <2>2, <2>3, <3>2 DEF Tied, KeyMatches
      <4>2. udpPcbs[k] # n
        BY <2>1, <4>1, UdpAssumption
      <4> QED BY <2>3, <3>2, <4>1, <4>2
    <3> QED BY <3>1, <3>2
  <2>7. Once'
    <3>1. \A x \in Conns : closes[x] > 0 => remote'[x] # None
      BY <2>3, UdpAssumption DEF Tied, Once
    <3> QED BY <1>1, <3>1 DEF Tied, Once
  <2>8. Settled'
    <3>1. \A x \in Conns : remote'[x] # None /\ ~err[x] => Home(x)'
      <4> SUFFICES ASSUME NEW x \in Conns, remote'[x] # None, ~err[x]
                   PROVE  Home(x)'
        OBVIOUS
      <4>1. CASE x = n
        BY <2>3, <4>1 DEF Home
      <4>2. CASE x # n
        BY <2>3, <2>5, <4>2 DEF Tied, Settled
      <4> QED BY <4>1, <4>2
    <3>2. \A x \in Conns : cpc[x] = "queue" => Home(x)'
      BY <2>4, <2>5 DEF Tied, Settled, Once
    <3>3. \A i \in 1 .. Len(closeQ) : Home(closeQ[i])'
      <4> SUFFICES ASSUME NEW i \in 1 .. Len(closeQ) PROVE Home(closeQ[i])'
        OBVIOUS
      <4> DEFINE x == closeQ[i]
      <4>1. x \in Conns /\ x # n
        BY <2>4, QueueFacts
      <4>2. remote[x] # None /\ Home(x)
        BY <4>1 DEF Tied, Once, Settled
      <4>3. Home(x)'
        BY <1>1, <2>5, <4>1, <4>2 DEF Home
      <4> QED BY <1>1, <4>3 DEF Home
    <3> QED BY <1>1, <3>1, <3>2, <3>3 DEF Settled, Home
  <2> QED BY <2>6, <2>7, <2>8 DEF Tied
<1> QED BY <1>2, <1>3

\* The delete by key: it takes out the PCB that asked for it, for that one is
\* Home, and no other delete of it is left.
LEMMA ProcCloseTied ==
  ASSUME TypeOK, Tied, ProcClose
  PROVE  Tied'
<1> DEFINE c == Head(closeQ)
<1>1. /\ closeQ \in Seq(Conns) /\ closeQ # <<>> /\ closeQ' = Tail(closeQ)
      /\ udpPcbs' = [udpPcbs EXCEPT ![Key(remote[c])] = None]
      /\ UNCHANGED <<err, remote, cpc, closes>>
  BY DEF ProcClose, TypeOK
<1>2. /\ c \in Conns /\ c = closeQ[1] /\ 1 \in 1 .. Len(closeQ)
      /\ Len(closeQ) \in Nat /\ Len(closeQ') = Len(closeQ) - 1
      /\ \A i \in 1 .. Len(closeQ') :
           closeQ'[i] = closeQ[i + 1] /\ i + 1 \in 1 .. Len(closeQ)
  BY <1>1, TakeFacts
<1>3. /\ closes[c] > 0 /\ cpc[c] # "queue" /\ err[c] /\ Home(c)
      /\ remote[c] # None
  BY <1>2 DEF Tied, Once, Settled
<1>4. /\ remote \in [Conns -> Remotes \cup {None}]
      /\ udpPcbs \in [Keys -> Conns \cup {None}]
  BY DEF TypeOK
<1>5. \A k \in Keys :
        udpPcbs'[k] = IF k = Key(remote[c]) THEN None ELSE udpPcbs[k]
  BY <1>1, <1>4
<1>6. ASSUME NEW x \in Conns, x # c, remote[x] # None, Home(x)
      PROVE  Home(x)'
  <2>1. Key(remote[x]) # Key(remote[c])
    BY <1>3, <1>6 DEF Home
  <2>2. Key(remote[x]) \in Keys
    BY <1>4, <1>6, KeyFacts
  <2> QED BY <1>1, <1>5, <1>6, <2>1, <2>2 DEF Home
<1>7. KeyMatches'
  BY <1>1, <1>5 DEF Tied, KeyMatches
<1>8. Once'
  <2>1. \A i \in 1 .. Len(closeQ') :
          closes[closeQ'[i]] > 0 /\ cpc[closeQ'[i]] # "queue"
    BY <1>2 DEF Tied, Once
  <2>2. \A i, j \in 1 .. Len(closeQ') : closeQ'[i] = closeQ'[j] => i = j
    <3> SUFFICES ASSUME NEW i \in 1 .. Len(closeQ'),
                        NEW j \in 1 .. Len(closeQ'),
                        closeQ'[i] = closeQ'[j]
                 PROVE  i = j
      OBVIOUS
    <3>1. i + 1 = j + 1
      BY <1>2 DEF Tied, Once
    <3> QED BY <3>1
  <2> QED BY <1>1, <2>1, <2>2 DEF Tied, Once
<1>9. Settled'
  <2>1. \A x \in Conns : remote[x] # None /\ ~err[x] => Home(x)'
    BY <1>3, <1>6 DEF Tied, Settled
  <2>2. \A x \in Conns : cpc[x] = "queue" => Home(x)'
    BY <1>3, <1>6 DEF Tied, Settled, Once
  <2>3. ASSUME NEW i \in 1 .. Len(closeQ')
        PROVE  udpPcbs'[Key(remote[closeQ'[i]])] = closeQ'[i]
    <3> DEFINE x == closeQ[i + 1]
    <3>1. x = closeQ'[i] /\ i + 1 \in 1 .. Len(closeQ) /\ i + 1 # 1
      BY <1>2, <2>3
    <3>2. x \in Conns /\ x # c
      BY <1>2, <3>1, QueueFacts DEF Tied, Once
    <3>3. remote[x] # None /\ Home(x)
      BY <3>1, <3>2 DEF Tied, Once, Settled
    <3> HIDE DEF x
    <3>4. PICK y \in Conns : y = x
      BY <3>2
    <3>5. Home(y)'
      BY <1>6, <3>2, <3>3, <3>4
    <3> QED BY <1>1, <3>1, <3>4, <3>5 DEF Home
  <2> QED BY <1>1, <2>1, <2>2, <2>3 DEF Settled, Home
<1> QED BY <1>7, <1>8, <1>9 DEF Tied

\* The first and only Close of a PCB: until now it was open, so Home.
LEMMA CloseMarkTied ==
  ASSUME TypeOK, Tied, MaxCloses <= 1, NEW c \in Conns, CloseMark(c)
  PROVE  Tied'
<1>1. /\ remote[c] # None
      /\ err' = [err EXCEPT ![c] = TRUE]
      /\ cpc' = [cpc EXCEPT ![c] = "queue"]
      /\ closes' = [closes EXCEPT ![c] = closes[c] + 1]
      /\ UNCHANGED <<remote, udpPcbs, closeQ>>
  BY DEF CloseMark
<1>2. closes[c] = 0
  <2>1. closes[c] \in Nat /\ MaxCloses \in Nat
    BY UdpAssumption DEF TypeOK
  <2>2. closes[c] < MaxCloses
    BY DEF CloseMark
  <2> QED BY <2>1, <2>2
<1>3. ~err[c] /\ Home(c) /\ \A i \in 1 .. Len(closeQ) : closeQ[i] # c
  BY <1>1, <1>2 DEF Tied, Once, Settled
<1>4. /\ err \in [Conns -> BOOLEAN] /\ closes \in [Conns -> 0 .. MaxCloses]
      /\ cpc \in [Conns -> {"idle", "queue"}]
  BY DEF TypeOK
<1>5. /\ err'[c] /\ closes'[c] = 1 /\ cpc'[c] = "queue"
      /\ \A x \in Conns : x # c => /\ err'[x] = err[x] /\ cpc'[x] = cpc[x]
                                   /\ closes'[x] = closes[x]
  BY <1>1, <1>2, <1>4
<1>6. KeyMatches'
  BY <1>1 DEF Tied, KeyMatches
<1>7. Once'
  <2>1. \A x \in Conns : /\ err'[x] <=> closes'[x] > 0
                         /\ closes'[x] <= 1
                         /\ closes'[x] > 0 => remote[x] # None
                         /\ cpc'[x] = "queue" => closes'[x] > 0
    <3> SUFFICES ASSUME NEW x \in Conns
                 PROVE  /\ err'[x] <=> closes'[x] > 0
                        /\ closes'[x] <= 1
                        /\ closes'[x] > 0 => remote[x] # None
                        /\ cpc'[x] = "queue" => closes'[x] > 0
      OBVIOUS
    <3>1. CASE x = c
      BY <1>1, <1>5, <3>1
    <3>2. CASE x # c
      BY <1>5, <3>2 DEF Tied, Once
    <3> QED BY <3>1, <3>2
  <2>2. \A i \in 1 .. Len(closeQ) :
          closes'[closeQ[i]] > 0 /\ cpc'[closeQ[i]] # "queue"
    BY <1>3, <1>5, QueueFacts DEF Tied, Once
  <2> QED BY <1>1, <2>1, <2>2 DEF Tied, Once
<1>8. Settled'
  <2>1. \A x \in Conns : /\ remote[x] # None /\ ~err'[x] => Home(x)
                         /\ cpc'[x] = "queue" => Home(x)
    BY <1>3, <1>5 DEF Tied, Settled
  <2> QED BY <1>1, <2>1 DEF Tied, Settled, Home
<1> QED BY <1>6, <1>7, <1>8 DEF Tied

\* The delete moves from the closing goroutine to closeQueue.
LEMMA CloseQueueTied ==
  ASSUME TypeOK, Tied, NEW c \in Conns, CloseQueue(c)
  PROVE  Tied'
<1>1. /\ cpc[c] = "queue" /\ closeQ \in Seq(Conns)
      /\ closeQ' = Append(closeQ, c) /\ cpc' = [cpc EXCEPT ![c] = "idle"]
      /\ UNCHANGED <<err, remote, udpPcbs, closes>>
  BY DEF CloseQueue, TypeOK
<1>2. /\ Len(closeQ) \in Nat /\ Len(closeQ') = Len(closeQ) + 1
      /\ \A i \in 1 .. Len(closeQ) : closeQ'[i] = closeQ[i]
      /\ closeQ'[Len(closeQ) + 1] = c
  BY <1>1, PutFacts
<1>3. /\ Home(c) /\ closes[c] > 0
      /\ \A i \in 1 .. Len(closeQ) : closeQ[i] # c
  BY <1>1 DEF Tied, Once, Settled
<1>4. /\ cpc'[c] = "idle"
      /\ \A x \in Conns : x # c => cpc'[x] = cpc[x]
  BY <1>1 DEF TypeOK
<1>5. \A i \in 1 .. Len(closeQ') :
        i \in 1 .. Len(closeQ) \/ i = Len(closeQ) + 1
  BY <1>2
<1>6. KeyMatches'
  BY <1>1 DEF Tied, KeyMatches
<1>7. Once'
  <2>1. \A i \in 1 .. Len(closeQ') :
          closes[closeQ'[i]] > 0 /\ cpc'[closeQ'[i]] # "queue"
    BY <1>2, <1>3, <1>4, <1>5, QueueFacts DEF Tied, Once
  <2>2. \A i, j \in 1 .. Len(closeQ') : closeQ'[i] = closeQ'[j] => i = j
    BY <1>2, <1>3, <1>5 DEF Tied, Once
  <2>3. \A x \in Conns : cpc'[x] = "queue" => closes[x] > 0
    BY <1>4 DEF Tied, Once
  <2> QED BY <1>1, <2>1, <2>2, <2>3 DEF Tied, Once
<1>8. Settled'
  <2>1. \A x \in Conns : cpc'[x] = "queue" => Home(x)
    BY <1>4 DEF Tied, Settled
  <2>2. \A i \in 1 .. Len(closeQ') : Home(closeQ'[i])
    BY <1>2, <1>3, <1>5 DEF Tied, Settled
  <2> QED BY <1>1, <2>1, <2>2 DEF Tied, Settled, Home
<1> QED BY <1>6, <1>7, <1>8 DEF Tied

\* Every step keeps Tied when a PCB is closed at most once.
LEMMA NextTied ==
  MaxCloses <= 1 /\ TypeOK /\ Tied /\ [Next]_uvars => Tied'
<1> SUFFICES ASSUME MaxCloses <= 1, TypeOK, Tied, [Next]_uvars PROVE Tied'
  OBVIOUS
<1>1. CASE UNCHANGED uvars
  BY <1>1, TiedFrame DEF uvars
<1>2. CASE Input
  <2>1. CASE UdpRecvEmpty
    BY <2>1, TiedFrame DEF UdpRecvEmpty
  <2> QED BY <1>2, <2>1, UdpRecvTied DEF Input
<1>3. CASE ProcRecvPut
  BY <1>3, TiedFrame DEF ProcRecvPut
<1>4. CASE ProcSend
  BY <1>4, TiedFrame DEF ProcSend
<1>5. CASE ProcClose
  BY <1>5, ProcCloseTied
<1>6. ASSUME NEW c \in Conns, Copy(c) PROVE Tied'
  <2>1. UNCHANGED <<err, remote, udpPcbs, closeQ, cpc, closes>>
    BY <1>6 DEF Copy, ReadCheck, ReadGet, ReadEnd, WriteCheck, WriteQueue
  <2> QED BY <2>1, TiedFrame
<1>7. ASSUME NEW c \in Conns, CloseMark(c) \/ CloseQueue(c) PROVE Tied'
  BY <1>7, CloseMarkTied, CloseQueueTied
<1> QED BY <1>1, <1>2, <1>3, <1>4, <1>5, <1>6, <1>7 DEF Next, Proc

\* With one Close per PCB, an open PCB is the one go_udp_recv_h finds for its
\* remote address: delete(udpPcbs, key) in go_netif_proc never takes out
\* another PCB than the one that was closed.
THEOREM UdpOpenStaysRegistered ==
  ASSUME MaxCloses <= 1
  PROVE  Spec => []OpenIsRegistered
<1>1. Init => Base /\ Tied
  BY InitBase, InitTied
<1>2. (Base /\ Tied) /\ [Next]_uvars => (Base /\ Tied)'
  BY NextBase, NextTied DEF Base
<1>3. Base /\ Tied => OpenIsRegistered
  BY DEF Tied, Settled, Home, OpenIsRegistered
<1> QED BY <1>1, <1>2, <1>3, PTL DEF Spec

-----------------------------------------------------------------------------
(* Replies.  Any number of Closes, any addresses.                          *)

\* Datagram d has come from an address with the key of PCB c.
Own(c, d) ==
  /\ d \in 1 .. Len(arrived)
  /\ remote[c] # None
  /\ Key(arrived[d].from) = Key(remote[c])

\* What a PCB has in hand, and what was sent, belongs to its key.
Owned ==
  /\ proc # Idle => Own(proc.conn, proc.data)
  /\ \A c \in Conns :
       /\ \A i \in 1 .. Len(recvQ[c]) : Own(c, recvQ[c][i])
       /\ buf[c] # 0 => Own(c, buf[c])
  /\ \A i \in 1 .. Len(out) :
       /\ out[i].data \in 1 .. Len(arrived)
       /\ Key(out[i].to) = Key(arrived[out[i].data].from)

\* cs_ip_get tells all addresses apart but those that are Alike: it keeps
\* every byte of an IPv4 address and the last byte of every word of an IPv6
\* address, and the lengths differ.
LEMMA SameKey ==
  ASSUME NEW x \in Remotes, NEW r \in Remotes, Key(x) = Key(r)
  PROVE  x = r \/ Alike(x, r)
<1>1. IpGet(x.ip) = IpGet(r.ip) /\ x.port = r.port
  BY DEF Key
<1>2. /\ x = [ip |-> x.ip, port |-> x.port] /\ IsAddr(x.ip)
      /\ r = [ip |-> r.ip, port |-> r.port] /\ IsAddr(r.ip)
  BY RemotesAssumption
<1>3. ASSUME NEW a, IsAddr(a), a.type = "v4"
      PROVE  /\ IpGet(a) = a.bytes /\ DOMAIN IpGet(a) = 1 .. 4
             /\ a = [type |-> "v4", bytes |-> a.bytes]
  <2>1. a \in [type : {"v4"}, bytes : [1 .. 4 -> 0 .. 255]]
    BY <1>3 DEF IsAddr
  <2>2. IpGet(a) = [i \in 1 .. 4 |-> a.bytes[i]]
    BY <1>3 DEF IpGet, IpLen
  <2> QED BY <2>1, <2>2
<1>4. ASSUME NEW a, IsAddr(a), a.type # "v4"
      PROVE  /\ a.type = "v6" /\ DOMAIN IpGet(a) = 1 .. 16
             /\ \A i \in {4, 8, 12, 16} : IpGet(a)[i] = a.bytes[i]
  <2>1. a \in [type : {"v6"}, bytes : [1 .. 16 -> 0 .. 255]]
    BY <1>4 DEF IsAddr
  <2>2. a.type = "v6"
    BY <2>1
  <2>3. IpGet(a) = [i \in 1 .. 16 |-> IF i # WordEnd(i)
                                      THEN CastShift(a.bytes[WordEnd(i)])
                                      ELSE a.bytes[i]]
    BY <2>2 DEF IpGet, IpLen
  <2>4. \A i \in {4, 8, 12, 16} : WordEnd(i) = i /\ i \in 1 .. 16
    BY DEF WordEnd
  <2> QED BY <2>2, <2>3, <2>4
<1>5. 4 \in 1 .. 16 /\ 16 \in 1 .. 16 /\ 16 \notin 1 .. 4
  OBVIOUS
<1>6. CASE x.ip.type = "v4" /\ r.ip.type = "v4"
  <2>1. x.ip = r.ip
    BY <1>1, <1>2, <1>3, <1>6
  <2> QED BY <1>1, <1>2, <2>1
<1>7. CASE x.ip.type # "v4" /\ r.ip.type # "v4"
  <2>1. \A i \in {4, 8, 12, 16} : x.ip.bytes[i] = r.ip.bytes[i]
    BY <1>1, <1>2, <1>4, <1>7
  <2> QED BY <1>1, <1>2, <1>4, <1>7, <2>1 DEF Alike
<1>8. CASE (x.ip.type = "v4") # (r.ip.type = "v4")
  <2>1. 1 .. 4 # 1 .. 16
    BY <1>5
  <2> QED BY <1>1, <1>2, <1>3, <1>4, <1>8, <2>1
<1> QED BY <1>6, <1>7, <1>8

\* Every step keeps KeyMatches, however often a PCB is closed.
LEMMA NextKeyMatches ==
  ASSUME TypeOK, KeyMatches, [Next]_uvars
  PROVE  KeyMatches'
<1>1. /\ remote \in [Conns -> Remotes \cup {None}]
      /\ udpPcbs \in [Keys -> Conns \cup {None}]
  BY DEF TypeOK
<1>2. CASE UNCHANGED <<remote, udpPcbs>>
  BY <1>2 DEF KeyMatches
<1>3. CASE ProcClose
  <2>1. /\ remote' = remote
        /\ udpPcbs' = [udpPcbs EXCEPT ![Key(remote[Head(closeQ)])] = None]
    BY <1>3 DEF ProcClose
  <2>2. \A k \in Keys : udpPcbs'[k] # None => udpPcbs'[k] = udpPcbs[k]
    BY <1>1, <2>1
  <2> QED BY <2>1, <2>2 DEF KeyMatches
<1>4. ASSUME NEW r \in Remotes, NEW l \in Locals, UdpRecv(r, l),
             ~ UNCHANGED <<remote, udpPcbs>>
      PROVE  KeyMatches'
  <2>1. PICK n \in Conns : /\ remote[n] = None
                           /\ remote' = [remote EXCEPT ![n] = r]
                           /\ udpPcbs' = [udpPcbs EXCEPT ![Key(r)] = n]
    BY <1>4 DEF UdpRecv
  <2>2. /\ remote'[n] = r /\ udpPcbs'[Key(r)] = n
        /\ \A x \in Conns : x # n => remote'[x] = remote[x]
        /\ \A k \in Keys : k # Key(r) => udpPcbs'[k] = udpPcbs[k]
    BY <1>1, <2>1, KeyFacts
  <2> SUFFICES ASSUME NEW k \in Keys, udpPcbs'[k] # None
               PROVE  /\ remote'[udpPcbs'[k]] # None
                      /\ Key(remote'[udpPcbs'[k]]) = k
    BY DEF KeyMatches
  <2>3. CASE k = Key(r)
    BY <2>2, <2>3, UdpAssumption
  <2>4. CASE k # Key(r)
    <3>1. /\ udpPcbs[k] \in Conns /\ remote[udpPcbs[k]] # None
          /\ Key(remote[udpPcbs[k]]) = k
      BY <1>1, <2>2, <2>4 DEF KeyMatches
    <3>2. udpPcbs[k] # n
      BY <2>1, <3>1
    <3> QED BY <2>2, <2>4, <3>1, <3>2
  <2> QED BY <2>3, <2>4
<1>5. CASE UdpRecvEmpty \/ ProcRecvPut \/ ProcSend
  BY <1>2, <1>5 DEF UdpRecvEmpty, ProcRecvPut, ProcSend
<1>6. ASSUME NEW c \in Conns, Copy(c) \/ CloseMark(c) \/ CloseQueue(c)
      PROVE  KeyMatches'
  BY <1>2, <1>6 DEF Copy, ReadCheck, ReadGet, ReadEnd, WriteCheck, WriteQueue,
                    CloseMark, CloseQueue
<1>7. CASE UNCHANGED uvars
  BY <1>2, <1>7 DEF uvars
<1> QED BY <1>2, <1>3, <1>4, <1>5, <1>6, <1>7 DEF Next, Input, Proc

\* A datagram arrives: the PCB that is found has its key; a PCB that is made
\* has held nothing before.
LEMMA UdpRecvOwned ==
  ASSUME TypeOK, KeyMatches, Owned,
         NEW r \in Remotes, NEW l \in Locals, UdpRecv(r, l)
  PROVE  Owned'
<1> DEFINE d == Len(arrived) + 1
           Datagrams == [from : Remotes, to : Locals]
<1>1. /\ arrived' = Append(arrived, [from |-> r, to |-> l])
      /\ UNCHANGED <<recvQ, buf, out>>
  BY DEF UdpRecv
<1>2. arrived \in Seq(Datagrams) /\ [from |-> r, to |-> l] \in Datagrams
  BY DEF TypeOK
<1> HIDE DEF Datagrams
<1>3. /\ Len(arrived) \in Nat /\ Len(arrived') = d
      /\ \A i \in 1 .. Len(arrived) : arrived'[i] = arrived[i]
      /\ arrived'[d] = [from |-> r, to |-> l]
  BY <1>1, <1>2, PutFacts
<1>5. /\ remote \in [Conns -> Remotes \cup {None}]
      /\ udpPcbs \in [Keys -> Conns \cup {None}]
  BY DEF TypeOK
<1>6. \A x \in Conns : remote[x] # None => remote'[x] = remote[x]
  BY <1>5 DEF UdpRecv
<1>7. ASSUME NEW x \in Conns, NEW e, Own(x, e)
      PROVE  Own(x, e)'
  BY <1>3, <1>6, <1>7 DEF Own
<1>8. /\ proc'.conn \in Conns /\ proc'.data = d
      /\ remote'[proc'.conn] # None /\ Key(remote'[proc'.conn]) = Key(r)
  <2>1. CASE Lookup(r) # None
    <3>1. proc' = [conn |-> Lookup(r), data |-> d] /\ UNCHANGED remote
      BY <2>1 DEF UdpRecv
    <3>2. /\ Lookup(r) \in Conns /\ remote[Lookup(r)] # None
          /\ Key(remote[Lookup(r)]) = Key(r)
      BY <1>5, <2>1, KeyFacts DEF Lookup, KeyMatches
    <3> QED BY <3>1, <3>2
  <2>2. CASE Lookup(r) = None
    BY <1>5, <2>2, UdpAssumption DEF UdpRecv
  <2> QED BY <2>1, <2>2
<1>9. Own(proc.conn, proc.data)'
  BY <1>3, <1>8 DEF Own
<1>10. \A x \in Conns :
         /\ \A i \in 1 .. Len(recvQ[x]) : Own(x, recvQ[x][i])'
         /\ buf[x] # 0 => Own(x, buf[x])'
  <2> SUFFICES ASSUME NEW x \in Conns
               PROVE  /\ \A i \in 1 .. Len(recvQ[x]) : Own(x, recvQ[x][i])'
                      /\ buf[x] # 0 => Own(x, buf[x])'
    OBVIOUS
  <2>1. ASSUME NEW i \in 1 .. Len(recvQ[x]) PROVE Own(x, recvQ[x][i])'
    <3>1. PICK e : e = recvQ[x][i]
      OBVIOUS
    <3>2. Own(x, e)'
      BY <1>7, <3>1 DEF Owned
    <3> QED BY <1>1, <3>1, <3>2 DEF Own
  <2>2. ASSUME buf[x] # 0 PROVE Own(x, buf[x])'
    <3>1. PICK e : e = buf[x]
      OBVIOUS
    <3>2. Own(x, e)'
      BY <1>7, <2>2, <3>1 DEF Owned
    <3> QED BY <1>1, <3>1, <3>2 DEF Own
  <2> QED BY <2>1, <2>2
<1>11. \A i \in 1 .. Len(out) :
         /\ out[i].data \in 1 .. Len(arrived')
         /\ Key(out[i].to) = Key(arrived'[out[i].data].from)
  <2> SUFFICES ASSUME NEW i \in 1 .. Len(out)
               PROVE  /\ out[i].data \in 1 .. Len(arrived')
                      /\ Key(out[i].to) = Key(arrived'[out[i].data].from)
    OBVIOUS
  <2>1. /\ out[i].data \in 1 .. Len(arrived)
        /\ Key(out[i].to) = Key(arrived[out[i].data].from)
    BY DEF Owned
  <2>2. arrived'[out[i].data] = arrived[out[i].data]
    BY <1>3, <2>1
  <2>3. out[i].data \in 1 .. Len(arrived')
    BY <1>3, <2>1
  <2> QED BY <2>1, <2>2, <2>3 DEF Key
<1>12. \A i \in 1 .. Len(out') :
         /\ out'[i].data \in 1 .. Len(arrived')
         /\ Key(out'[i].to) = Key(arrived'[out'[i].data].from)
  <2>1. out' = out
    BY <1>1
  <2> QED BY <1>11, <2>1 DEF Key
<1>13. \A x \in Conns :
         /\ \A i \in 1 .. Len(recvQ'[x]) : Own(x, recvQ[x][i])'
         /\ buf'[x] # 0 => Own(x, buf[x])'
  BY <1>1, <1>10
<1> QED BY <1>9, <1>12, <1>13 DEF Owned

\* The steps that pass a datagram on within its PCB.
LEMMA PassOwned ==
  ASSUME Base, Owned, ProcRecvPut \/ \E c \in Conns : ReadGet(c)
  PROVE  Owned'
<1> USE DEF Base
<1>1. UNCHANGED <<arrived, remote, out>>
  BY DEF ProcRecvPut, ReadGet
<1>2. CASE ProcRecvPut
  <2>1. /\ proc.conn \in Conns /\ proc.data \in 1 .. MaxData
        /\ Own(proc.conn, proc.data)
        /\ proc' = Idle /\ buf' = buf
    BY <1>2 DEF ProcRecvPut, Made, Owned
  <2>2. recvQ[proc.conn] \in Seq(1 .. MaxData)
    BY <2>1 DEF TypeOK
  <2>3. ASSUME NEW x \in Conns, NEW i \in 1 .. Len(recvQ'[x])
        PROVE  Own(x, recvQ'[x][i])
    <3>1. CASE recvQ'[x] = recvQ[x]
      BY <2>3, <3>1 DEF Owned
    <3>2. CASE recvQ'[x] # recvQ[x]
      <4>1. x = proc.conn /\ recvQ'[x] = Append(recvQ[x], proc.data)
        <5>1. recvQ' = [recvQ EXCEPT ![proc.conn] = Append(@, proc.data)]
          BY <1>2, <3>2 DEF ProcRecvPut
        <5>2. recvQ \in [Conns -> Seq(1 .. MaxData)]
          BY DEF TypeOK
        <5> QED BY <2>1, <3>2, <5>1, <5>2
      <4>2. \/ i \in 1 .. Len(recvQ[x]) /\ recvQ'[x][i] = recvQ[x][i]
            \/ recvQ'[x][i] = proc.data
        BY <2>1, <2>2, <2>3, <4>1, PutFacts
      <4> QED BY <2>1, <4>1, <4>2 DEF Owned
    <3> QED BY <3>1, <3>2
  <2> QED BY <1>1, <2>1, <2>3 DEF Owned, Own
<1>3. ASSUME NEW c \in Conns, ReadGet(c) PROVE Owned'
  <2>1. /\ recvQ[c] \in Seq(1 .. MaxData) /\ recvQ[c] # <<>>
        /\ recvQ' = [recvQ EXCEPT ![c] = Tail(recvQ[c])]
        /\ buf' = [buf EXCEPT ![c] = Head(recvQ[c])]
        /\ proc' = proc
    BY <1>3 DEF ReadGet, TypeOK
  <2>2. /\ Head(recvQ[c]) = recvQ[c][1] /\ Len(recvQ[c]) \in Nat \ {0}
        /\ \A i \in 1 .. Len(Tail(recvQ[c])) :
             /\ Tail(recvQ[c])[i] = recvQ[c][i + 1]
             /\ i + 1 \in 1 .. Len(recvQ[c])
    BY <2>1, TakeFacts
  <2>3. ASSUME NEW x \in Conns
        PROVE  /\ \A i \in 1 .. Len(recvQ'[x]) : Own(x, recvQ'[x][i])
               /\ buf'[x] # 0 => Own(x, buf'[x])
    <3>1. CASE x = c
      <4>1. recvQ'[x] = Tail(recvQ[c]) /\ buf'[x] = recvQ[c][1]
        BY <2>1, <2>2, <3>1 DEF TypeOK
      <4>2. 1 \in 1 .. Len(recvQ[c])
        BY <2>2
      <4> QED BY <2>2, <3>1, <4>1, <4>2 DEF Owned
    <3>2. CASE x # c
      BY <2>1, <3>2 DEF TypeOK, Owned
    <3> QED BY <3>1, <3>2
  <2> QED BY <1>1, <2>1, <2>3 DEF Owned, Own
<1> QED BY <1>2, <1>3

\* The send of a reply.
LEMMA SendOwned ==
  ASSUME Base, Owned, ProcSend
  PROVE  Owned'
<1> USE DEF Base
<1> DEFINE c == Head(sendQ)
           p == [from |-> local[c], to |-> remote[c], data |-> buf[c]]
           Packet == [from : Locals, to : Remotes, data : 1 .. MaxData]
<1>1. UNCHANGED <<arrived, remote, recvQ, buf, proc>>
  BY DEF ProcSend
<1>2. c \in Conns /\ c = sendQ[1] /\ 1 \in 1 .. Len(sendQ)
  <2>1. sendQ \in Seq(Conns) /\ sendQ # <<>>
    BY DEF ProcSend, TypeOK
  <2> QED BY <2>1, TakeFacts
<1>3. /\ remote[c] \in Remotes /\ local[c] \in Locals
      /\ buf[c] \in 1 .. MaxData /\ buf[c] # 0
  <2>1. remote[c] # None /\ local[c] # None /\ buf[c] # 0
    BY <1>2 DEF Made
  <2>2. /\ remote[c] \in Remotes \cup {None} /\ local[c] \in Locals \cup {None}
        /\ buf[c] \in 0 .. MaxData
    BY <1>2 DEF TypeOK
  <2> QED BY <2>1, <2>2, UdpAssumption
<1>4. p.data \in 1 .. Len(arrived) /\ Key(p.to) = Key(arrived[p.data].from)
  BY <1>2, <1>3 DEF Owned, Own
<1>5. out \in Seq(Packet) /\ p \in Packet
  BY <1>3 DEF TypeOK
<1>6. out' = out \/ out' = Append(out, p)
  BY DEF ProcSend, CurrentNetif
<1> HIDE DEF p, Packet
<1>7. ASSUME NEW i \in 1 .. Len(out')
      PROVE  (i \in 1 .. Len(out) /\ out'[i] = out[i]) \/ out'[i] = p
  BY <1>5, <1>6, <1>7, PutFacts
<1>8. \A i \in 1 .. Len(out') : /\ out'[i].data \in 1 .. Len(arrived)
                                /\ Key(out'[i].to) = Key(arrived[out'[i].data].from)
  BY <1>4, <1>7 DEF Owned
<1> QED BY <1>1, <1>8 DEF Owned, Own

\* Every step keeps Owned.
LEMMA NextOwned ==
  ASSUME Base, KeyMatches, Owned, [Next]_uvars
  PROVE  Owned'
<1>1. CASE UNCHANGED <<arrived, remote, recvQ, buf, proc, out>>
  BY <1>1 DEF Owned, Own
<1>2. ASSUME NEW r \in Remotes, NEW l \in Locals, UdpRecv(r, l) PROVE Owned'
  BY <1>2, UdpRecvOwned DEF Base
<1>3. CASE UdpRecvEmpty \/ ProcClose
  BY <1>1, <1>3 DEF UdpRecvEmpty, ProcClose
<1>4. CASE ProcRecvPut \/ \E c \in Conns : ReadGet(c)
  BY <1>4, PassOwned
<1>5. CASE ProcSend
  BY <1>5, SendOwned
<1>6. ASSUME NEW c \in Conns,
             \/ ReadCheck(c) \/ ReadEnd(c) \/ WriteCheck(c) \/ WriteQueue(c)
             \/ CloseMark(c) \/ CloseQueue(c)
      PROVE  Owned'
  BY <1>1, <1>6 DEF ReadCheck, ReadEnd, WriteCheck, WriteQueue, CloseMark,
                    CloseQueue
<1>7. CASE UNCHANGED uvars
  BY <1>1, <1>7 DEF uvars
<1> QED BY <1>2, <1>3, <1>4, <1>5, <1>6, <1>7 DEF Next, Input, Proc, Copy

\* A reply goes to the client whose datagram it carries, whatever is closed,
\* refused or dropped and however long a slice waits in sendQueue, or to an
\* IPv6 host whose address cs_ip_get cannot tell from that client's; between
\* IPv4 clients, or across the two kinds, nothing is confused.
THEOREM UdpRepliesToSender == Spec => []ReplyToSender
<1> DEFINE I == Base /\ KeyMatches /\ Owned
<1>1. Init => I
  <2> SUFFICES ASSUME Init PROVE KeyMatches /\ Owned
    BY InitBase
  <2>1. KeyMatches
    BY DEF Init, KeyMatches
  <2>2. Owned
    BY DEF Init, Owned
  <2> QED BY <2>1, <2>2
<1>2. I /\ [Next]_uvars => I'
  BY NextBase, NextKeyMatches, NextOwned DEF Base
<1>3. I => ReplyToSender
  <2> SUFFICES ASSUME Base, Owned, NEW i \in 1 .. Len(out)
               PROVE  LET r == arrived[out[i].data].from
                      IN  out[i].to = r \/ Alike(out[i].to, r)
    BY DEF ReplyToSender
  <2>1. /\ out \in Seq([from : Locals, to : Remotes, data : 1 .. MaxData])
        /\ arrived \in Seq([from : Remotes, to : Locals])
    BY DEF Base, TypeOK
  <2>2. out[i].data \in 1 .. Len(arrived)
    BY DEF Owned
  <2>3. out[i].to \in Remotes
    <3>1. out[i] \in [from : Locals, to : Remotes, data : 1 .. MaxData]
      BY <2>1, ElementFacts
    <3> QED BY <3>1
  <2>4. arrived[out[i].data].from \in Remotes
    <3>1. arrived[out[i].data] \in [from : Remotes, to : Locals]
      BY <2>1, <2>2, ElementFacts
    <3> QED BY <3>1
  <2> QED BY <2>3, <2>4, SameKey DEF Owned
<1> QED BY <1>1, <1>2, <1>3, PTL DEF Spec

-----------------------------------------------------------------------------
(* The order of a flow's datagrams.  Any number of Closes, any addresses.  *)

\* With H[c] the datagrams that PCB c has got, A those that arrived and R the
\* remote addresses: what a PCB has is of its own key, rises, is nobody else's,
\* and nothing that arrived is missing.
KeptBy(H, A, R) ==
  /\ \A c \in Conns : \A i \in 1 .. Len(H[c]) :
       /\ H[c][i] \in 1 .. Len(A)
       /\ R[c] # None /\ Key(A[H[c][i]].from) = Key(R[c])
  /\ \A c \in Conns : \A i, j \in 1 .. Len(H[c]) :
       i < j => H[c][i] < H[c][j]
  /\ \A c, x \in Conns : c # x =>
       \A i \in 1 .. Len(H[c]), j \in 1 .. Len(H[x]) : H[c][i] # H[x][j]
  /\ \A d \in 1 .. Len(A) : \E c \in Conns : \E i \in 1 .. Len(H[c]) :
       H[c][i] = d

\* What each PCB holds, as a function.
Holding == [c \in Conns |-> Held(c)]

\* The inductive form of PerRemoteFifo; a panic loses the datagram in hand.
Kept == fault = "none" => KeptBy(Holding, arrived, remote)

\* Taking the head of one sequence to the end of the one before it leaves what
\* the two hold together as it is.
LEMMA MoveOne ==
  ASSUME NEW S, NEW g \in Seq(S), NEW q \in Seq(S), q # <<>>
  PROVE  Append(g, Head(q)) \o Tail(q) = g \o q
OBVIOUS

\* A datagram of the key of PCB n arrives and is given to it.
LEMMA KeptGrows ==
  ASSUME NEW H \in [Conns -> Seq(Nat)], NEW G \in [Conns -> Seq(Nat)],
         NEW D, NEW A \in Seq(D), NEW a \in D,
         NEW R, NEW Q, KeptBy(H, A, R),
         NEW n \in Conns, Q[n] # None, Key(Q[n]) = Key(a.from),
         \A c \in Conns : R[c] # None => Q[c] = R[c],
         \A c \in Conns : c # n => G[c] = H[c],
         G[n] = Append(H[n], Len(A) + 1)
  PROVE  KeptBy(G, Append(A, a), Q)
<1> DEFINE B == Append(A, a)
           d == Len(A) + 1
<1> SUFFICES KeptBy(G, B, Q)
  OBVIOUS
<1>1. /\ Len(A) \in Nat /\ Len(B) = d /\ B[d] = a
      /\ \A i \in 1 .. Len(A) : B[i] = A[i]
  BY PutFacts
<1>2. /\ Len(H[n]) \in Nat /\ Len(G[n]) = Len(H[n]) + 1
      /\ G[n][Len(H[n]) + 1] = d
      /\ \A i \in 1 .. Len(H[n]) : G[n][i] = H[n][i]
  <2>1. H[n] \in Seq(Nat) /\ d \in Nat
    BY <1>1
  <2> QED BY <2>1, PutFacts
<1>3. \A c \in Conns : \A i \in 1 .. Len(H[c]) :
        /\ H[c][i] \in 1 .. Len(A)
        /\ R[c] # None /\ Key(A[H[c][i]].from) = Key(R[c])
  BY DEF KeptBy
<1>4. \A c \in Conns : \A i \in 1 .. Len(G[c]) :
        \/ i \in 1 .. Len(H[c]) /\ G[c][i] = H[c][i]
        \/ c = n /\ i = Len(H[n]) + 1 /\ G[c][i] = d
  <2> SUFFICES ASSUME NEW c \in Conns, NEW i \in 1 .. Len(G[c])
               PROVE  \/ i \in 1 .. Len(H[c]) /\ G[c][i] = H[c][i]
                      \/ c = n /\ i = Len(H[n]) + 1 /\ G[c][i] = d
    OBVIOUS
  <2>1. CASE c # n
    BY <2>1
  <2>2. CASE c = n
    <3> HIDE DEF d
    <3> QED BY <1>2, <2>2
  <2> QED BY <2>1, <2>2
<1>5. \A c \in Conns : \A i \in 1 .. Len(H[c]) :
        i \in 1 .. Len(G[c]) /\ G[c][i] = H[c][i]
  <2> SUFFICES ASSUME NEW c \in Conns, NEW i \in 1 .. Len(H[c])
               PROVE  i \in 1 .. Len(G[c]) /\ G[c][i] = H[c][i]
    OBVIOUS
  <2>1. CASE c # n
    BY <2>1
  <2>2. CASE c = n
    <3> HIDE DEF d
    <3>1. i \in 1 .. Len(H[n]) /\ i \in 1 .. Len(H[n]) + 1
      BY <1>2, <2>2
    <3> QED BY <1>2, <2>2, <3>1
  <2> QED BY <2>1, <2>2
<1>6. \A c \in Conns : \A i \in 1 .. Len(G[c]) :
        /\ G[c][i] \in 1 .. Len(B)
        /\ Q[c] # None /\ Key(B[G[c][i]].from) = Key(Q[c])
  <2> SUFFICES ASSUME NEW c \in Conns, NEW i \in 1 .. Len(G[c])
               PROVE  /\ G[c][i] \in 1 .. Len(B)
                      /\ Q[c] # None /\ Key(B[G[c][i]].from) = Key(Q[c])
    OBVIOUS
  <2>1. CASE i \in 1 .. Len(H[c]) /\ G[c][i] = H[c][i]
    <3>1. /\ H[c][i] \in 1 .. Len(A) /\ R[c] # None
          /\ Key(A[H[c][i]].from) = Key(R[c]) /\ Q[c] = R[c]
      BY <1>3, <2>1
    <3>2. B[H[c][i]] = A[H[c][i]]
      BY <1>1, <3>1
    <3>3. H[c][i] \in 1 .. Len(B)
      BY <1>1, <3>1
    <3> HIDE DEF B
    <3> QED BY <2>1, <3>1, <3>2, <3>3
  <2>2. CASE c = n /\ i = Len(H[n]) + 1 /\ G[c][i] = d
    <3>1. d \in 1 .. Len(B)
      BY <1>1
    <3> HIDE DEF B, d
    <3> QED BY <1>1, <2>2, <3>1
  <2> QED BY <1>4, <2>1, <2>2
<1>7. \A c \in Conns : \A i, j \in 1 .. Len(G[c]) :
        i < j => G[c][i] < G[c][j]
  <2> SUFFICES ASSUME NEW c \in Conns, NEW i \in 1 .. Len(G[c]),
                      NEW j \in 1 .. Len(G[c]), i < j
               PROVE  G[c][i] < G[c][j]
    OBVIOUS
  <2>0. Len(H[c]) \in Nat
    OBVIOUS
  <2>1. CASE j \in 1 .. Len(H[c])
    <3>1. i \in 1 .. Len(H[c])
      BY <2>0, <2>1
    <3>2. H[c][i] < H[c][j]
      BY <2>1, <3>1 DEF KeptBy
    <3> QED BY <1>5, <2>1, <3>1, <3>2
  <2>2. CASE c = n /\ j = Len(H[n]) + 1 /\ G[c][j] = d
    <3>1. i \in 1 .. Len(H[c])
      BY <2>0, <2>2
    <3>2. G[c][i] = H[c][i] /\ H[c][i] \in 1 .. Len(A)
      BY <1>3, <1>5, <3>1
    <3> QED BY <1>1, <2>2, <3>2
  <2> QED BY <1>4, <2>1, <2>2
<1>8. \A c, x \in Conns : c # x =>
        \A i \in 1 .. Len(G[c]), j \in 1 .. Len(G[x]) : G[c][i] # G[x][j]
  <2> SUFFICES ASSUME NEW c \in Conns, NEW x \in Conns, c # x,
                      NEW i \in 1 .. Len(G[c]), NEW j \in 1 .. Len(G[x])
               PROVE  G[c][i] # G[x][j]
    OBVIOUS
  <2>1. CASE /\ i \in 1 .. Len(H[c]) /\ G[c][i] = H[c][i]
             /\ j \in 1 .. Len(H[x]) /\ G[x][j] = H[x][j]
    BY <2>1 DEF KeptBy
  <2>2. CASE /\ i \in 1 .. Len(H[c]) /\ G[c][i] = H[c][i] /\ G[x][j] = d
    <3>1. H[c][i] \in 1 .. Len(A)
      BY <1>3, <2>2
    <3>2. H[c][i] # d
      BY <1>1, <3>1
    <3> QED BY <2>2, <3>2, Zenon
  <2>3. CASE /\ j \in 1 .. Len(H[x]) /\ G[x][j] = H[x][j] /\ G[c][i] = d
    <3>1. H[x][j] \in 1 .. Len(A)
      BY <1>3, <2>3
    <3>2. H[x][j] # d
      BY <1>1, <3>1
    <3> QED BY <2>3, <3>2, Zenon
  <2> QED BY <1>4, <2>1, <2>2, <2>3
<1>9. \A e \in 1 .. Len(B) : \E c \in Conns : \E i \in 1 .. Len(G[c]) :
        G[c][i] = e
  <2> SUFFICES ASSUME NEW e \in 1 .. Len(B)
               PROVE  \E c \in Conns : \E i \in 1 .. Len(G[c]) : G[c][i] = e
    OBVIOUS
  <2>1. CASE e \in 1 .. Len(A)
    <3>1. PICK c \in Conns : \E i \in 1 .. Len(H[c]) : H[c][i] = e
      BY <2>1 DEF KeptBy
    <3> QED BY <1>5, <3>1
  <2>2. CASE e = d
    <3>1. Len(H[n]) + 1 \in 1 .. Len(G[n])
      BY <1>2
    <3> HIDE DEF d
    <3> QED BY <1>2, <2>2, <3>1
  <2>3. e \in 1 .. Len(A) \/ e = d
    BY <1>1
  <2> QED BY <2>1, <2>2, <2>3
<1> HIDE DEF B
<1> QED BY <1>6, <1>7, <1>8, <1>9 DEF KeptBy

\* What a PCB holds is a sequence of numbers.
LEMMA HeldSeq ==
  ASSUME TypeOK, NEW c \in Conns
  PROVE  /\ got[c] \in Seq(Nat) /\ recvQ[c] \in Seq(Nat)
         /\ proc.data \in Nat /\ Held(c) \in Seq(Nat)
<1>1. /\ got[c] \in Seq(1 .. MaxData) /\ recvQ[c] \in Seq(1 .. MaxData)
      /\ proc.data \in 0 .. MaxData
  BY DEF TypeOK
<1>2. ASSUME NEW s \in Seq(1 .. MaxData) PROVE s \in Seq(Nat)
  <2>1. \A i \in 1 .. Len(s) : s[i] \in Nat
    BY UdpAssumption
  <2> QED BY <2>1
<1>3. got[c] \in Seq(Nat) /\ recvQ[c] \in Seq(Nat) /\ proc.data \in Nat
  BY <1>1, <1>2
<1>4. <<proc.data>> \in Seq(Nat) /\ <<>> \in Seq(Nat)
  BY <1>3
<1>5. got[c] \o recvQ[c] \in Seq(Nat)
  BY <1>3
<1> QED BY <1>3, <1>4, <1>5 DEF Held

\* Kept's meaning for the sets of PerRemoteFifo.
LEMMA KeptMeans ==
  ASSUME Base, Kept
  PROVE  PerRemoteFifo
<1> SUFFICES ASSUME fault = "none" PROVE PerRemoteFifo
  BY DEF PerRemoteFifo
<1> DEFINE H == Holding
<1>0. KeptBy(H, arrived, remote)
  BY DEF Kept
<1>1. \A c \in Conns : Held(c) = H[c] /\ H[c] \in Seq(Nat)
  <2> SUFFICES ASSUME NEW c \in Conns PROVE H[c] \in Seq(Nat)
    BY DEF Holding
  <2> QED BY HeldSeq DEF Holding, Base
<1> HIDE DEF H
<1>2. \A c \in Conns : Range(Held(c)) = {H[c][i] : i \in 1 .. Len(H[c])}
  BY <1>1 DEF Range
<1>3. \A c \in Conns, i, j \in 1 .. MaxData :
        i < j /\ j <= Len(Held(c)) => Held(c)[i] < Held(c)[j]
  <2> SUFFICES ASSUME NEW c \in Conns, NEW i \in 1 .. MaxData,
                      NEW j \in 1 .. MaxData, i < j, j <= Len(H[c])
               PROVE  H[c][i] < H[c][j]
    BY <1>1
  <2>1. Len(H[c]) \in Nat /\ MaxData \in Nat
    BY <1>1, UdpAssumption
  <2>2. i \in 1 .. Len(H[c]) /\ j \in 1 .. Len(H[c])
    BY <2>1
  <2> QED BY <1>0, <2>2 DEF KeptBy
<1>4. ASSUME NEW k \in Keys
      PROVE  From(k) = UNION {Range(Held(c)) : c \in With(k)}
  <2>1. ASSUME NEW d \in From(k)
        PROVE  \E c \in With(k) : d \in Range(Held(c))
    <3>1. d \in 1 .. Len(arrived) /\ Key(arrived[d].from) = k
      BY DEF From
    <3>2a. PICK c \in Conns : \E i \in 1 .. Len(H[c]) : H[c][i] = d
      BY <1>0, <3>1 DEF KeptBy
    <3>2. PICK i \in 1 .. Len(H[c]) : H[c][i] = d
      BY <3>2a
    <3>3. remote[c] # None /\ Key(remote[c]) = k
      BY <1>0, <3>1, <3>2 DEF KeptBy
    <3> QED BY <1>2, <3>2, <3>3 DEF With
  <2>2. ASSUME NEW c \in With(k), NEW d \in Range(Held(c))
        PROVE  d \in From(k)
    <3>1. c \in Conns /\ Key(remote[c]) = k
      BY DEF With
    <3>2. PICK i \in 1 .. Len(H[c]) : H[c][i] = d
      BY <1>2, <3>1
    <3> QED BY <1>0, <3>1, <3>2 DEF KeptBy, From
  <2> QED BY <2>1, <2>2
<1>5. \A c, x \in Conns : c # x => Range(Held(c)) \cap Range(Held(x)) = {}
  BY <1>0, <1>2 DEF KeptBy
<1> QED BY <1>3, <1>4, <1>5 DEF PerRemoteFifo

\* A datagram arrives: it goes to the PCB that has its key.
LEMMA UdpRecvKept ==
  ASSUME Base, KeyMatches, Kept, fault = "none",
         NEW r \in Remotes, NEW l \in Locals, UdpRecv(r, l), Base'
  PROVE  Kept'
<1> DEFINE a == [from |-> r, to |-> l]
<1>1. /\ proc = Idle /\ arrived' = Append(arrived, a)
      /\ UNCHANGED <<recvQ, got, fault>>
  BY DEF UdpRecv
<1>2. PICK n \in Conns :
        /\ proc' = [conn |-> n, data |-> Len(arrived) + 1]
        /\ remote'[n] # None /\ Key(remote'[n]) = Key(r)
        /\ \A c \in Conns : remote[c] # None => remote'[c] = remote[c]
  <2>1. /\ remote \in [Conns -> Remotes \cup {None}]
        /\ udpPcbs \in [Keys -> Conns \cup {None}] /\ Key(r) \in Keys
    BY KeyFacts DEF Base, TypeOK
  <2>2. CASE Lookup(r) # None
    <3>1. /\ proc' = [conn |-> udpPcbs[Key(r)], data |-> Len(arrived) + 1]
          /\ remote' = remote
      BY <2>2 DEF UdpRecv, Lookup
    <3>2. /\ udpPcbs[Key(r)] \in Conns /\ remote[udpPcbs[Key(r)]] # None
          /\ Key(remote[udpPcbs[Key(r)]]) = Key(r)
      BY <2>1, <2>2 DEF Lookup, KeyMatches
    <3> QED BY <3>1, <3>2
  <2>3. CASE Lookup(r) = None
    <3>1. PICK n \in Conns :
            /\ remote[n] = None /\ remote' = [remote EXCEPT ![n] = r]
            /\ proc' = [conn |-> n, data |-> Len(arrived) + 1]
      BY <2>3 DEF UdpRecv
    <3>2. /\ remote'[n] = r
          /\ \A c \in Conns : c # n => remote'[c] = remote[c]
      BY <2>1, <3>1
    <3>3. r # None
      BY UdpAssumption
    <3> QED BY <3>1, <3>2, <3>3
  <2> QED BY <2>2, <2>3
<1>3. \A c \in Conns : Held(c) = (got[c] \o recvQ[c]) \o <<>>
  <2> SUFFICES ASSUME NEW c \in Conns PROVE proc.conn # c
    BY DEF Held
  <2> QED BY <1>1, UdpAssumption DEF Idle
<1>4. \A c \in Conns : c # n => Held(c)' = Held(c)
  BY <1>1, <1>2, <1>3 DEF Held
<1>5. Held(n)' = Append(Held(n), Len(arrived) + 1)
  <2>1. Held(n)' = (got[n] \o recvQ[n]) \o <<Len(arrived) + 1>>
    BY <1>1, <1>2 DEF Held
  <2>2. got[n] \in Seq(Nat) /\ recvQ[n] \in Seq(Nat)
    BY HeldSeq DEF Base
  <2>3. Len(arrived) + 1 \in Nat
    BY DEF Base, TypeOK
  <2>4. \A g, q \in Seq(Nat), x \in Nat :
          (g \o q) \o <<x>> = Append((g \o q) \o <<>>, x)
    OBVIOUS
  <2>5. (got[n] \o recvQ[n]) \o <<Len(arrived) + 1>>
          = Append((got[n] \o recvQ[n]) \o <<>>, Len(arrived) + 1)
    BY <2>2, <2>3, <2>4, Zenon
  <2> QED BY <1>3, <2>1, <2>5, Zenon
<1>6. /\ Holding \in [Conns -> Seq(Nat)] /\ Holding' \in [Conns -> Seq(Nat)]
      /\ \A c \in Conns : c # n => Holding'[c] = Holding[c]
      /\ Holding'[n] = Append(Holding[n], Len(arrived) + 1)
  <2>1. \A c \in Conns : Held(c) \in Seq(Nat)
    BY HeldSeq DEF Base
  <2>2. \A c \in Conns : Held(c)' \in Seq(Nat)
    <3>1. Held(n)' \in Seq(Nat)
      <4>1. Len(arrived) + 1 \in Nat
        BY DEF Base, TypeOK
      <4> QED BY <1>5, <2>1, <4>1, PutFacts
    <3> QED BY <1>4, <2>1, <3>1
  <2> QED BY <1>4, <1>5, <2>1, <2>2 DEF Holding
<1>7. /\ arrived \in Seq([from : Remotes, to : Locals])
      /\ a \in [from : Remotes, to : Locals] /\ a.from = r
  BY DEF Base, TypeOK
<1>8. KeptBy(Holding, arrived, remote)
  BY DEF Kept
<1> HIDE DEF a
<1>9. KeptBy(Holding', Append(arrived, a), remote')
  BY <1>2, <1>6, <1>7, <1>8, KeptGrows
<1> QED BY <1>1, <1>9 DEF Kept

\* A datagram moves on inside its PCB.
LEMMA PassKept ==
  ASSUME Base, Kept, fault = "none",
         ProcRecvPut \/ \E c \in Conns : ReadGet(c)
  PROVE  Kept'
<1>1. CASE fault' # "none"
  BY <1>1 DEF Kept
<1> SUFFICES ASSUME UNCHANGED fault PROVE Kept'
  BY <1>1
<1>2. arrived' = arrived /\ remote' = remote
  BY DEF ProcRecvPut, ReadGet
<1>3. \A c \in Conns : Held(c)' = Held(c)
  <2> SUFFICES ASSUME NEW c \in Conns PROVE Held(c)' = Held(c)
    OBVIOUS
  <2>1. got[c] \in Seq(Nat) /\ recvQ[c] \in Seq(Nat) /\ proc.data \in Nat
    BY HeldSeq DEF Base
  <2>2. /\ recvQ \in [Conns -> Seq(1 .. MaxData)]
        /\ got \in [Conns -> Seq(1 .. MaxData)]
    BY DEF Base, TypeOK
  <2>3. CASE ProcRecvPut
    <3>1. /\ proc.conn \in Conns /\ proc' = Idle /\ got' = got
      BY <2>3 DEF ProcRecvPut, Base, Made
    <3>2. recvQ' = [recvQ EXCEPT ![proc.conn] = Append(@, proc.data)]
      BY <2>3 DEF ProcRecvPut
    <3>3. proc'.conn # c
      BY <3>1, UdpAssumption DEF Idle
    <3>4. CASE c = proc.conn
      <4>1. recvQ'[c] = Append(recvQ[c], proc.data)
        BY <2>2, <3>2, <3>4
      <4>2. Held(c)' = (got[c] \o Append(recvQ[c], proc.data)) \o <<>>
        BY <3>1, <3>3, <4>1 DEF Held
      <4>3. Held(c) = (got[c] \o recvQ[c]) \o <<proc.data>>
        BY <3>4 DEF Held
      <4>4. \A g, q \in Seq(Nat), x \in Nat :
              (g \o Append(q, x)) \o <<>> = (g \o q) \o <<x>>
        OBVIOUS
      <4>5. (got[c] \o Append(recvQ[c], proc.data)) \o <<>>
              = (got[c] \o recvQ[c]) \o <<proc.data>>
        BY <2>1, <4>4, Zenon
      <4> QED BY <4>2, <4>3, <4>5, Zenon
    <3>5. CASE c # proc.conn
      BY <2>2, <3>1, <3>2, <3>3, <3>5 DEF Held
    <3> QED BY <3>4, <3>5
  <2>4. ASSUME NEW x \in Conns, ReadGet(x) PROVE Held(c)' = Held(c)
    <3>1. /\ recvQ[x] # <<>> /\ proc' = proc
          /\ recvQ' = [recvQ EXCEPT ![x] = Tail(@)]
          /\ got' = [got EXCEPT ![x] = Append(@, Head(recvQ[x]))]
      BY <2>4 DEF ReadGet
    <3>2. CASE c = x
      <4>1. /\ recvQ'[c] = Tail(recvQ[c])
            /\ got'[c] = Append(got[c], Head(recvQ[c])) /\ recvQ[c] # <<>>
        BY <2>2, <3>1, <3>2
      <4>2. got'[c] \o recvQ'[c] = got[c] \o recvQ[c]
        BY <2>1, <4>1, MoveOne
      <4> QED BY <3>1, <4>2 DEF Held
    <3>3. CASE c # x
      BY <2>2, <3>1, <3>3 DEF Held
    <3> QED BY <3>2, <3>3
  <2> QED BY <2>3, <2>4
<1>4. Holding' = Holding
  BY <1>3 DEF Holding
<1> QED BY <1>2, <1>4 DEF Kept

\* Every step keeps the order.
LEMMA NextKept ==
  ASSUME Base, KeyMatches, Kept, [Next]_uvars, Base'
  PROVE  Kept'
<1>1. CASE UNCHANGED <<arrived, remote, recvQ, got, proc, fault>>
  <2>1. Holding' = Holding
    BY <1>1 DEF Holding, Held
  <2> QED BY <1>1, <2>1 DEF Kept
<1>2. CASE Next
  <2>1. fault = "none"
    BY <1>2 DEF Next
  <2>2. ASSUME NEW r \in Remotes, NEW l \in Locals, UdpRecv(r, l) PROVE Kept'
    BY <2>1, <2>2, UdpRecvKept
  <2>3. CASE UdpRecvEmpty
    BY <2>3 DEF UdpRecvEmpty, Kept
  <2>4. CASE ProcRecvPut \/ \E c \in Conns : ReadGet(c)
    BY <2>1, <2>4, PassKept
  <2>5. CASE ProcSend \/ ProcClose
    BY <1>1, <2>5 DEF ProcSend, ProcClose
  <2>6. ASSUME NEW c \in Conns,
               \/ ReadCheck(c) \/ ReadEnd(c) \/ WriteCheck(c) \/ WriteQueue(c)
               \/ CloseMark(c) \/ CloseQueue(c)
        PROVE  Kept'
    BY <1>1, <2>6 DEF ReadCheck, ReadEnd, WriteCheck, WriteQueue, CloseMark,
                      CloseQueue
  <2> QED BY <1>2, <2>2, <2>3, <2>4, <2>5, <2>6 DEF Next, Input, Proc, Copy
<1>3. CASE UNCHANGED uvars
  BY <1>1, <1>3 DEF uvars
<1> QED BY <1>2, <1>3

\* Between go_udp_recv_h and Read no datagram of a key is lost, repeated or
\* overtaken, with any addresses, any number of Closes and full queues, until
\* Proc panics.
THEOREM UdpFlowsKeepOrder == Spec => []PerRemoteFifo
<1> DEFINE I == Base /\ KeyMatches /\ Kept
<1>1. Init => I
  <2> SUFFICES ASSUME Init PROVE KeyMatches /\ Kept
    BY InitBase
  <2>1. KeyMatches
    BY DEF Init, KeyMatches
  <2>2. \A c \in Conns : Holding[c] = <<>>
    <3> SUFFICES ASSUME NEW c \in Conns PROVE Held(c) = <<>>
      BY DEF Holding
    <3>1. proc.conn # c
      BY UdpAssumption DEF Init, Idle
    <3>2. got[c] = <<>> /\ recvQ[c] = <<>>
      BY DEF Init
    <3> QED BY <3>1, <3>2 DEF Held
  <2>3. \A c \in Conns : Len(Holding[c]) = 0
    BY <2>2
  <2>4. Len(arrived) = 0
    BY DEF Init
  <2>5. \A i \in 1 .. 0 : FALSE
    OBVIOUS
  <2> QED BY <2>1, <2>3, <2>4, <2>5 DEF Kept, KeptBy
<1>2. I /\ [Next]_uvars => I'
  BY NextBase, NextKeyMatches, NextKept DEF Base
<1>3. I => PerRemoteFifo
  BY KeptMeans
<1> QED BY <1>1, <1>2, <1>3, PTL DEF Spec
=============================================================================
