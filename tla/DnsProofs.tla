----------------------------- MODULE DnsProofs -----------------------------
(***************************************************************************)
(* Proofs about DnsProcessor, for any number of client flows, targets,     *)
(* connections and closing goroutines.                                     *)
(*                                                                         *)
(* DNSProcessor.close deletes by key, not by connection.  That it never    *)
(* takes another, open DNSConn out of conns rests on three facts: only the *)
(* proc of a flow registers connections of that flow, and only after it    *)
(* found none (KeyFree); conns agrees with the key of what it holds        *)
(* (Made); and a connection whose delete is still to come keeps its place, *)
(* and has one deleter (PendingHome).                                      *)
(*                                                                         *)
(* That queries keep their order rests on Made, and on the query in hand   *)
(* being later than those of its flow that were passed on (Kept).          *)
(***************************************************************************)
EXTENDS DnsProcessor, TLAPS

\* The query in proc's hand is one that arrived.
InHand ==
  \A r \in Raws :
    ppc[r] \in {"look", "next", "register", "put"} =>
      pmsg[r] \in 1 .. Len(msgs)

\* The key of a connection: proc registers it under that key, Next serves and
\* closes only connections that have one, conns holds it only there.
Made ==
  /\ \A r \in Raws : ppc[r] = "register" =>
       pconn[r] \in Conns /\ key[pconn[r]] = MsgKey(r)
  /\ \A c \in Conns : up[c] => key[c] # None
  /\ \A c \in Conns, k \in Closers : cpc[c][k] # "idle" => up[c]
  /\ \A x \in Keys : conns[x] # None => key[conns[x]] = x

\* From the failed lookup to the registration nobody else takes the key.
KeyFree ==
  \A r \in Raws :
    ppc[r] \in {"next", "register"} => conns[MsgKey(r)] = None

\* Connection c is in conns, or its proc is about to enter it.
Home(c) ==
  \/ conns[key[c]] = c
  \/ ppc[key[c][1]] = "register" /\ pconn[key[c][1]] = c

\* A connection whose delete is to come is closed, has its place in conns, and
\* has one deleter; a second one has panicked in close(d.readQueued).
PendingHome ==
  fault = "none" =>
    \A c \in Conns, k \in Closers : cpc[c][k] = "delete" =>
      /\ closed[c] /\ Home(c)
      /\ \A j \in Closers : cpc[c][j] = "delete" => j = k

\* The part about types and keys.
Base == TypeOK /\ InHand /\ Made /\ KeyFree

\* The inductive invariant of DnsProcessor.
DInv == Base /\ OpenIsRegistered /\ PendingHome

USE DEF pvars, hvars

-----------------------------------------------------------------------------
\* A key names its flow and is a key of conns.
LEMMA KeyFacts ==
  ASSUME TypeOK, InHand, NEW r \in Raws,
         ppc[r] \in {"look", "next", "register", "put"}
  PROVE  MsgKey(r) \in Keys /\ MsgKey(r)[1] = r /\ MsgKey(r) # None
<1> DEFINE Query == [raw : Raws, target : Targets]
<1>0. pmsg[r] \in 1 .. Len(msgs) /\ msgs \in Seq(Query)
  BY DEF TypeOK, InHand
<1> HIDE DEF Query
<1>1. msgs[pmsg[r]] \in Query
  BY <1>0
<1> USE DEF Query
<1>2. msgs[pmsg[r]].target \in Targets
  BY <1>1
<1> QED BY <1>2, DnsAssumption DEF MsgKey, KeyOf, Keys

\* The flow of a key.
LEMMA KeyParts == \A x \in Keys : x[1] \in Raws /\ x # None
BY DnsAssumption DEF Keys

\* Receiving from a channel.
LEMMA TakeFacts ==
  ASSUME NEW S, NEW s \in Seq(S), s # <<>>
  PROVE  /\ Tail(s) \in Seq(S) /\ Head(s) \in S
         /\ Len(Tail(s)) = Len(s) - 1 /\ Len(s) \in Nat
OBVIOUS

\* Sending on a channel.
LEMMA PutFacts ==
  ASSUME NEW S, NEW s \in Seq(S), NEW x \in S
  PROVE  /\ Append(s, x) \in Seq(S)
         /\ Len(Append(s, x)) = Len(s) + 1 /\ Len(s) \in Nat
OBVIOUS

\* Initially conns is empty and there is no connection.
LEMMA InitDInv == Init => DInv
<1> SUFFICES ASSUME Init PROVE DInv
  OBVIOUS
<1>1. TypeOK
  BY DnsAssumption DEF Init, TypeOK, Keys
<1>2. InHand /\ Made /\ KeyFree
  BY DEF Init, InHand, Made, KeyFree
<1>3. OpenIsRegistered /\ PendingHome
  BY DEF Init, OpenIsRegistered, PendingHome
<1> QED BY <1>1, <1>2, <1>3 DEF DInv, Base

\* r.Read: the keys of the other queries in hand stay.
LEMMA ProcReadInv ==
  ASSUME DInv, NEW r \in Raws, NEW t \in Targets, ProcRead(r, t)
  PROVE  DInv'
<1> USE DEF DInv, Base
<1>1. TypeOK'
  BY DnsAssumption DEF ProcRead, TypeOK
<1>2. /\ Len(msgs') = Len(msgs) + 1
      /\ \A i \in 1 .. Len(msgs) : msgs'[i] = msgs[i]
  BY DEF ProcRead, TypeOK
<1>3. \A q \in Raws : q # r => ppc'[q] = ppc[q] /\ pmsg'[q] = pmsg[q]
  BY DEF ProcRead, TypeOK
<1>4. ppc'[r] = "look" /\ pmsg'[r] = Len(msgs) + 1 /\ ppc[r] = "read"
  BY DEF ProcRead, TypeOK
<1>5. Len(msgs) \in Nat
  BY DEF TypeOK
<1>6. InHand'
  BY <1>2, <1>3, <1>4, <1>5 DEF InHand
<1>7. \A q \in Raws : ppc'[q] \in {"next", "register"} =>
        ppc[q] = ppc'[q] /\ MsgKey(q)' = MsgKey(q)
  <2> SUFFICES ASSUME NEW q \in Raws, ppc'[q] \in {"next", "register"}
               PROVE  ppc[q] = ppc'[q] /\ MsgKey(q)' = MsgKey(q)
    OBVIOUS
  <2>1. q # r
    BY <1>4
  <2>2. pmsg[q] \in 1 .. Len(msgs)
    BY <1>3, <2>1 DEF InHand
  <2> QED BY <1>2, <1>3, <2>1, <2>2 DEF MsgKey
<1>8. UNCHANGED <<conns, key, up, closed, cpc, pconn, fault>>
  BY DEF ProcRead
<1>9. Made' /\ KeyFree'
  BY <1>7, <1>8 DEF Made, KeyFree
<1>10. \A q \in Raws : ppc[q] = "register" => ppc'[q] = "register"
  BY <1>3, <1>4
<1>11. \A c \in Conns : key[c] # None => (Home(c) => Home(c)')
  <2> SUFFICES ASSUME NEW c \in Conns, key[c] # None, Home(c) PROVE Home(c)'
    OBVIOUS
  <2>1. key[c][1] \in Raws
    BY KeyParts DEF TypeOK
  <2> QED BY <1>8, <1>10, <2>1 DEF Home
<1>12. OpenIsRegistered' /\ PendingHome'
  BY <1>8, <1>11 DEF OpenIsRegistered, PendingHome, Home, Made
<1> QED BY <1>1, <1>6, <1>9, <1>12

\* A step that leaves conns, the keys, the queries in hand and the closers
\* alone, and takes no proc to or from a registration, keeps all but the types.
LEMMA Frame ==
  ASSUME Base, OpenIsRegistered, PendingHome,
         UNCHANGED <<conns, key, up, closed, cpc, pconn, msgs>>,
         fault' = "none" => fault = "none",
         \A q \in Raws :
           /\ ppc'[q] # ppc[q] => ppc[q] \in {"read", "put"}
                                    /\ ppc'[q] \in {"read", "done"}
           /\ ppc'[q] # "read" /\ ppc'[q] # "done" => pmsg'[q] = pmsg[q]
  PROVE  InHand' /\ Made' /\ KeyFree' /\ OpenIsRegistered' /\ PendingHome'
<1> USE DEF Base
<1>1. InHand'
  BY DEF InHand
<1>2. \A q \in Raws : ppc'[q] \in {"next", "register"} =>
        ppc[q] = ppc'[q] /\ MsgKey(q)' = MsgKey(q)
  BY DEF MsgKey
<1>3. Made' /\ KeyFree'
  BY <1>2 DEF Made, KeyFree
<1>4. \A c \in Conns : key[c] # None => (Home(c) => Home(c)')
  <2> SUFFICES ASSUME NEW c \in Conns, key[c] # None, Home(c) PROVE Home(c)'
    OBVIOUS
  <2>1. key[c][1] \in Raws
    BY KeyParts DEF TypeOK
  <2> QED BY <2>1 DEF Home
<1>5. OpenIsRegistered' /\ PendingHome'
  BY <1>4 DEF OpenIsRegistered, PendingHome, Home, Made
<1> QED BY <1>1, <1>3, <1>5

\* The end of the loop of proc.
LEMMA ProcBreakInv ==
  ASSUME DInv, NEW r \in Raws, ProcBreak(r)
  PROVE  DInv'
<1> USE DEF DInv, Base
<1>1. TypeOK'
  BY DEF ProcBreak, TypeOK
<1>2. \A q \in Raws : ppc'[q] # ppc[q] => q = r
  BY DEF ProcBreak, TypeOK
<1>3. ppc[r] = "read" /\ ppc'[r] = "done"
  BY DEF ProcBreak, TypeOK
<1>4. UNCHANGED <<conns, key, up, closed, cpc, pconn, pmsg, msgs, fault>>
  BY DEF ProcBreak
<1> QED BY <1>1, <1>2, <1>3, <1>4, Frame

\* The panic for a message without a question.
LEMMA ProcNoQuestionInv ==
  ASSUME DInv, NEW r \in Raws, ProcNoQuestion(r)
  PROVE  DInv'
<1> USE DEF DInv, Base
<1>1. TypeOK'
  BY DEF ProcNoQuestion, TypeOK
<1>2. /\ UNCHANGED <<conns, key, up, closed, cpc, pconn, ppc, pmsg, msgs>>
      /\ fault' = "panic"
  BY DEF ProcNoQuestion
<1> QED BY <1>1, <1>2, Frame

\* The lookup: a proc that goes on to Next has found no connection.
LEMMA ProcLookupInv ==
  ASSUME DInv, NEW r \in Raws, ProcLookup(r)
  PROVE  DInv'
<1> USE DEF DInv, Base
<1>1. MsgKey(r) \in Keys
  BY KeyFacts DEF ProcLookup
<1>2. TypeOK'
  BY <1>1 DEF ProcLookup, TypeOK
<1>3. \A q \in Raws : q # r => ppc'[q] = ppc[q] /\ pconn'[q] = pconn[q]
  BY DEF ProcLookup, TypeOK
<1>4. /\ ppc[r] = "look" /\ ppc'[r] \in {"next", "put"}
      /\ ppc'[r] = "next" => conns[MsgKey(r)] = None
  BY DEF ProcLookup, TypeOK
<1>5. UNCHANGED <<conns, key, up, closed, cpc, pmsg, msgs, fault>>
  BY DEF ProcLookup
<1>6. \A q \in Raws : MsgKey(q)' = MsgKey(q)
  BY <1>5 DEF MsgKey
<1>7. InHand' /\ Made' /\ KeyFree'
  BY <1>3, <1>4, <1>5, <1>6 DEF InHand, Made, KeyFree
<1>8. \A c \in Conns : key[c] # None => (Home(c) => Home(c)')
  <2> SUFFICES ASSUME NEW c \in Conns, key[c] # None, Home(c) PROVE Home(c)'
    OBVIOUS
  <2>1. key[c][1] \in Raws
    BY KeyParts DEF TypeOK
  <2> QED BY <1>3, <1>4, <1>5, <2>1 DEF Home
<1>9. OpenIsRegistered' /\ PendingHome'
  BY <1>5, <1>8 DEF OpenIsRegistered, PendingHome, Home, Made
<1> QED BY <1>2, <1>7, <1>9

\* The send on readQueued.
LEMMA ProcPutInv ==
  ASSUME DInv, NEW r \in Raws, ProcPut(r)
  PROVE  DInv'
<1> USE DEF DInv, Base
<1>1. ppc[r] = "put" /\ pmsg[r] \in 1 .. MaxMsgs
  BY DEF ProcPut, InHand, TypeOK
<1>2. readQ' \in [Conns -> Seq(1 .. MaxMsgs)]
        /\ \A c \in Conns : Len(readQ'[c]) <= ReadCap
  <2>1. CASE closed[pconn[r]]
    BY <2>1 DEF ProcPut, TypeOK
  <2>2. CASE ~closed[pconn[r]]
    <3>1. readQ' = [readQ EXCEPT ![pconn[r]] = Append(@, pmsg[r])]
            /\ Len(readQ[pconn[r]]) < ReadCap
      BY <2>2 DEF ProcPut, ReadRoom
    <3>2. CASE pconn[r] \in Conns
      <4>1. readQ[pconn[r]] \in Seq(1 .. MaxMsgs)
        BY <3>2 DEF TypeOK
      <4>2. Append(readQ[pconn[r]], pmsg[r]) \in Seq(1 .. MaxMsgs)
        BY <1>1, <4>1, PutFacts
      <4>3. Len(Append(readQ[pconn[r]], pmsg[r])) <= ReadCap
        BY <1>1, <3>1, <4>1, PutFacts, DnsAssumption
      <4>4. readQ' = [readQ EXCEPT ![pconn[r]] =
                        Append(readQ[pconn[r]], pmsg[r])]
        BY <3>1
      <4> QED BY <3>2, <4>2, <4>3, <4>4 DEF TypeOK
    <3>3. CASE pconn[r] \notin Conns
      BY <3>1, <3>3 DEF TypeOK
    <3> QED BY <3>2, <3>3
  <2> QED BY <2>1, <2>2
<1>3. fault' \in {"none", "panic"} /\ (fault' = "none" => fault = "none")
  BY DEF ProcPut, TypeOK
<1>4. /\ ppc' = [ppc EXCEPT ![r] = "read"] /\ pmsg' = [pmsg EXCEPT ![r] = 0]
      /\ UNCHANGED <<conns, key, up, closed, cpc, pconn, msgs, upc, dropped,
                     got, lost>>
  BY DEF ProcPut
<1>5. TypeOK'
  BY <1>2, <1>3, <1>4, DnsAssumption DEF TypeOK
<1>6. \A q \in Raws :
        /\ ppc'[q] # ppc[q] => ppc[q] = "put" /\ ppc'[q] = "read"
        /\ ppc'[q] # "read" => pmsg'[q] = pmsg[q]
  BY <1>1, <1>4 DEF TypeOK
<1> QED BY <1>3, <1>4, <1>5, <1>6, Frame

\* DNSConn.Read.
LEMMA UpstreamInv ==
  ASSUME DInv, NEW c \in Conns, Upstream(c) \/ UpStop(c)
  PROVE  DInv'
<1> USE DEF DInv, Base
<1>1. TypeOK'
  <2>1. CASE UpRead(c)
    <3>1. /\ readQ[c] \in Seq(1 .. MaxMsgs) /\ readQ[c] # <<>>
          /\ got[c] \in Seq(1 .. MaxMsgs) /\ Len(readQ[c]) <= ReadCap
      BY <2>1 DEF UpRead, TypeOK
    <3>2. /\ Tail(readQ[c]) \in Seq(1 .. MaxMsgs)
          /\ Head(readQ[c]) \in 1 .. MaxMsgs
          /\ Len(Tail(readQ[c])) = Len(readQ[c]) - 1
          /\ Len(readQ[c]) \in Nat
      BY <3>1, TakeFacts
    <3>3. Append(got[c], Head(readQ[c])) \in Seq(1 .. MaxMsgs)
      BY <3>1, <3>2, PutFacts
    <3>4. Len(Tail(readQ[c])) <= ReadCap
      BY <3>1, <3>2, DnsAssumption
    <3>5. /\ readQ' = [readQ EXCEPT ![c] = Tail(readQ[c])]
          /\ \/ got' = [got EXCEPT ![c] = Append(got[c], Head(readQ[c]))]
             \/ got' = got
          /\ lost' = lost \/ lost' = lost \cup {Head(readQ[c])}
          /\ UNCHANGED <<conns, key, up, closed, ppc, pmsg, pconn, upc, cpc,
                         msgs, dropped, fault>>
      BY <2>1 DEF UpRead
    <3>6. got' \in [Conns -> Seq(1 .. MaxMsgs)]
      BY <3>3, <3>5 DEF TypeOK
    <3>7. lost' \subseteq 1 .. MaxMsgs
      BY <3>2, <3>5 DEF TypeOK
    <3> QED BY <3>2, <3>4, <3>5, <3>6, <3>7 DEF TypeOK
  <2>2. CASE UpEnd(c) \/ UpStop(c)
    BY <2>2 DEF UpEnd, UpStop, TypeOK
  <2> QED BY <2>1, <2>2 DEF Upstream
<1>2. UNCHANGED <<conns, key, up, closed, cpc, pconn, msgs, ppc, pmsg, fault>>
  BY DEF Upstream, UpRead, UpEnd, UpStop
<1> QED BY <1>1, <1>2, Frame

\* NewDNSConn and Next.ProcConn: the new connection is nowhere known before.
LEMMA ProcNextInv ==
  ASSUME DInv, NEW r \in Raws, ProcNext(r)
  PROVE  DInv'
<1> USE DEF DInv, Base
<1>1. /\ ppc[r] = "next"
      /\ UNCHANGED <<conns, closed, readQ, upc, cpc, msgs, got, lost, fault>>
  BY DEF ProcNext
<1>2. MsgKey(r) \in Keys /\ MsgKey(r)[1] = r /\ MsgKey(r) # None
  BY <1>1, KeyFacts
<1>3. pmsg[r] \in 1 .. MaxMsgs /\ pmsg[r] \in 1 .. Len(msgs)
  BY <1>1 DEF InHand, TypeOK
<1>4. PICK c \in Conns :
        /\ key[c] = None
        /\ key' = [key EXCEPT ![c] = MsgKey(r)]
        /\ pconn' = [pconn EXCEPT ![r] = c]
        /\ \/ /\ up' = [up EXCEPT ![c] = TRUE]
              /\ ppc' = [ppc EXCEPT ![r] = "register"]
              /\ UNCHANGED <<pmsg, dropped>>
           \/ /\ ppc' = [ppc EXCEPT ![r] = "read"]
              /\ pmsg' = [pmsg EXCEPT ![r] = 0]
              /\ dropped' = dropped \cup {pmsg[r]}
              /\ UNCHANGED up
  BY DEF ProcNext
<1>5. TypeOK'
  <2>1. /\ key' \in [Conns -> Keys \cup {None}]
        /\ pconn' \in [Raws -> Conns \cup {None}]
    BY <1>2, <1>4 DEF TypeOK
  <2>2. up' \in [Conns -> BOOLEAN]
    BY <1>4 DEF TypeOK
  <2>3. pmsg' \in [Raws -> 0 .. MaxMsgs]
    <3>1. 0 \in 0 .. MaxMsgs /\ pmsg \in [Raws -> 0 .. MaxMsgs]
      BY DnsAssumption DEF TypeOK
    <3>2. pmsg' = pmsg \/ pmsg' = [pmsg EXCEPT ![r] = 0]
      BY <1>4
    <3> QED BY <3>1, <3>2
  <2>4. dropped' \subseteq 1 .. MaxMsgs
    BY <1>3, <1>4 DEF TypeOK
  <2>5. ppc' \in [Raws -> {"read", "look", "next", "register", "put", "done"}]
    BY <1>4 DEF TypeOK
  <2> QED BY <1>1, <2>1, <2>2, <2>3, <2>4, <2>5 DEF TypeOK
<1>6. \A q \in Raws : q # r =>
        ppc'[q] = ppc[q] /\ pconn'[q] = pconn[q] /\ pmsg'[q] = pmsg[q]
  BY <1>4 DEF TypeOK
<1>7. /\ pconn'[r] = c
      /\ ppc'[r] = "register" => pmsg'[r] = pmsg[r] /\ up'[c] = TRUE
      /\ ppc'[r] \in {"register", "read"}
  BY <1>4 DEF TypeOK
<1>8. /\ key'[c] = MsgKey(r)
      /\ \A x \in Conns : x # c => key'[x] = key[x] /\ up'[x] = up[x]
      /\ \A x \in Conns : up[x] => up'[x]
  BY <1>4 DEF TypeOK
<1>9. InHand'
  BY <1>1, <1>3, <1>6, <1>7 DEF InHand
<1>10. \A q \in Raws :
         ppc'[q] \in {"next", "register"} => MsgKey(q)' = MsgKey(q)
  BY <1>1, <1>6, <1>7 DEF MsgKey
<1>11. Made'
  <2>1. \A q \in Raws : ppc'[q] = "register" =>
          pconn'[q] \in Conns /\ key'[pconn'[q]] = MsgKey(q)'
    <3> SUFFICES ASSUME NEW q \in Raws, ppc'[q] = "register"
                 PROVE  pconn'[q] \in Conns /\ key'[pconn'[q]] = MsgKey(q)'
      OBVIOUS
    <3>1. CASE q = r
      BY <1>7, <1>8, <1>10, <3>1
    <3>2. CASE q # r
      <4>1. ppc[q] = "register" /\ pconn'[q] = pconn[q]
        BY <1>6, <3>2
      <4>2. pconn[q] \in Conns /\ key[pconn[q]] = MsgKey(q) /\ MsgKey(q) # None
        BY <4>1, KeyFacts DEF Made
      <4>3. pconn[q] # c
        BY <1>4, <4>2
      <4> QED BY <1>8, <1>10, <4>1, <4>2, <4>3
    <3> QED BY <3>1, <3>2
  <2>2. \A x \in Conns : up'[x] => key'[x] # None
    BY <1>2, <1>8 DEF Made
  <2>3. \A x \in Conns, k \in Closers : cpc'[x][k] # "idle" => up'[x]
    BY <1>1, <1>8 DEF Made
  <2>4. \A x \in Keys : conns'[x] # None => key'[conns'[x]] = x
    <3> SUFFICES ASSUME NEW x \in Keys, conns[x] # None
                 PROVE  key'[conns[x]] = x
      BY <1>1
    <3>1. conns[x] \in Conns /\ key[conns[x]] = x /\ x # None
      BY KeyParts DEF Made, TypeOK
    <3> QED BY <1>4, <1>8, <3>1
  <2> QED BY <2>1, <2>2, <2>3, <2>4 DEF Made
<1>12. KeyFree'
  BY <1>1, <1>6, <1>7, <1>10 DEF KeyFree
<1>13. \A x \in Conns : key[x] # None => (Home(x) => Home(x)')
  <2> SUFFICES ASSUME NEW x \in Conns, key[x] # None, Home(x) PROVE Home(x)'
    OBVIOUS
  <2>1. key[x][1] \in Raws /\ key'[x] = key[x]
    BY <1>4, <1>8, KeyParts DEF TypeOK
  <2> QED BY <1>1, <1>6, <2>1 DEF Home
<1>14. OpenIsRegistered'
  <2> SUFFICES ASSUME NEW x \in Conns, up'[x], ~closed'[x] PROVE Home(x)'
    BY DEF OpenIsRegistered, Home
  <2>1. CASE x = c
    <3>1. ~up[c]
      BY <1>4 DEF Made
    <3>2. ppc'[r] = "register"
      BY <1>4, <2>1, <3>1 DEF TypeOK
    <3> QED BY <1>2, <1>7, <1>8, <2>1, <3>2 DEF Home
  <2>2. CASE x # c
    <3>1. up[x] /\ ~closed[x] /\ key[x] # None
      BY <1>1, <1>8, <2>2 DEF Made
    <3> QED BY <1>13, <3>1 DEF OpenIsRegistered, Home
  <2> QED BY <2>1, <2>2
<1>15. PendingHome'
  BY <1>1, <1>13 DEF PendingHome, Made
<1> QED BY <1>5, <1>9, <1>11, <1>12, <1>14, <1>15

\* The registration: the key was free, so nobody loses its place.
LEMMA ProcRegisterInv ==
  ASSUME DInv, NEW r \in Raws, ProcRegister(r)
  PROVE  DInv'
<1> USE DEF DInv, Base
<1>1. /\ ppc[r] = "register" /\ ppc' = [ppc EXCEPT ![r] = "put"]
      /\ conns' = [conns EXCEPT ![MsgKey(r)] = pconn[r]]
      /\ UNCHANGED <<key, up, closed, readQ, pmsg, pconn, upc, cpc, msgs,
                     dropped, got, lost, fault>>
  BY DEF ProcRegister
<1>2. /\ MsgKey(r) \in Keys /\ MsgKey(r)[1] = r
      /\ pconn[r] \in Conns /\ key[pconn[r]] = MsgKey(r)
      /\ conns[MsgKey(r)] = None
  BY <1>1, KeyFacts DEF Made, KeyFree
<1>3. TypeOK'
  BY <1>1, <1>2 DEF TypeOK
<1>4. /\ \A q \in Raws : q # r => ppc'[q] = ppc[q]
      /\ ppc'[r] = "put"
      /\ conns'[MsgKey(r)] = pconn[r]
      /\ \A x \in Keys : x # MsgKey(r) => conns'[x] = conns[x]
  BY <1>1, <1>2 DEF TypeOK
<1>5. \A q \in Raws : MsgKey(q)' = MsgKey(q)
  BY <1>1 DEF MsgKey
<1>6. InHand'
  BY <1>1, <1>4 DEF InHand
<1>7. Made'
  BY <1>1, <1>2, <1>4, <1>5 DEF Made
<1>8. KeyFree'
  <2> SUFFICES ASSUME NEW q \in Raws, ppc'[q] \in {"next", "register"}
               PROVE  conns'[MsgKey(q)] = None
    BY <1>5 DEF KeyFree
  <2>1. q # r /\ ppc[q] \in {"next", "register"}
    BY <1>4
  <2>2. MsgKey(q) \in Keys /\ MsgKey(q)[1] = q
    BY <2>1, KeyFacts
  <2>3. MsgKey(q) # MsgKey(r)
    BY <1>2, <2>1, <2>2
  <2> QED BY <1>4, <2>1, <2>2, <2>3 DEF KeyFree
<1>9. \A x \in Conns : key[x] # None => (Home(x) => Home(x)')
  <2> SUFFICES ASSUME NEW x \in Conns, key[x] # None, Home(x) PROVE Home(x)'
    OBVIOUS
  <2>1. key[x] \in Keys /\ key[x][1] \in Raws /\ key'[x] = key[x] /\ x # None
    BY <1>1, KeyParts, DnsAssumption DEF TypeOK
  <2>2. CASE conns[key[x]] = x
    <3>1. key[x] # MsgKey(r)
      BY <1>2, <2>1, <2>2
    <3> QED BY <1>4, <2>1, <2>2, <3>1 DEF Home
  <2>3. CASE ppc[key[x][1]] = "register" /\ pconn[key[x][1]] = x
    <3>1. CASE key[x][1] = r
      <4>1. x = pconn[r] /\ key[x] = MsgKey(r)
        BY <1>2, <2>3, <3>1
      <4> QED BY <1>4, <2>1, <4>1 DEF Home
    <3>2. CASE key[x][1] # r
      BY <1>1, <1>4, <2>1, <2>3, <3>2 DEF Home
    <3> QED BY <3>1, <3>2
  <2> QED BY <2>2, <2>3 DEF Home
<1>10. OpenIsRegistered' /\ PendingHome'
  BY <1>1, <1>9 DEF OpenIsRegistered, PendingHome, Home, Made
<1> QED BY <1>3, <1>6, <1>7, <1>8, <1>10

\* The steps of DNSConn.Close that only touch closed and the closer.
LEMMA CloseFrame ==
  ASSUME Base, OpenIsRegistered, NEW c \in Conns, NEW k \in Closers, up[c],
         NEW v \in {"close", "delete", "done"},
         cpc' = [cpc EXCEPT ![c][k] = v],
         closed' \in [Conns -> BOOLEAN],
         \A x \in Conns : closed[x] => closed'[x],
         fault' \in {"none", "panic"},
         UNCHANGED <<conns, key, up, readQ, ppc, pmsg, pconn, upc, msgs,
                     dropped, got, lost>>
  PROVE  Base' /\ OpenIsRegistered'
<1> USE DEF Base
<1>1. TypeOK'
  BY DEF TypeOK
<1>2. \A q \in Raws : MsgKey(q)' = MsgKey(q)
  BY DEF MsgKey
<1>3. \A x \in Conns, j \in Closers :
        cpc'[x][j] = IF x = c /\ j = k THEN v ELSE cpc[x][j]
  BY DEF TypeOK
<1>4. InHand' /\ Made' /\ KeyFree'
  BY <1>2, <1>3 DEF InHand, Made, KeyFree
<1>5. OpenIsRegistered'
  BY DEF OpenIsRegistered, TypeOK
<1> QED BY <1>1, <1>4, <1>5

\* The test of d.closed.
LEMMA CloseCheckInv ==
  ASSUME DInv, NEW c \in Conns, NEW k \in Closers, CloseCheck(c, k)
  PROVE  DInv'
<1> USE DEF DInv, Base
<1>1. PICK v \in {"close", "done"} : cpc' = [cpc EXCEPT ![c][k] = v]
  BY DEF CloseCheck
<1>2. /\ up[c] /\ UNCHANGED <<conns, key, up, closed, readQ, ppc, pmsg, pconn,
                              upc, msgs, dropped, got, lost, fault>>
  BY DEF CloseCheck
<1>3. Base' /\ OpenIsRegistered'
  BY <1>1, <1>2, CloseFrame DEF TypeOK
<1>4. \A x \in Conns, j \in Closers :
        cpc'[x][j] = "delete" => cpc[x][j] = "delete"
  BY <1>1 DEF TypeOK
<1>5. \A x \in Conns : Home(x)' <=> Home(x)
  BY <1>2 DEF Home
<1>6. PendingHome'
  BY <1>2, <1>4, <1>5 DEF PendingHome
<1> QED BY <1>3, <1>6

\* close(d.readQueued): without a panic the closer is the only one, and takes
\* over the place of an open connection.
LEMMA CloseChanInv ==
  ASSUME DInv, NEW c \in Conns, NEW k \in Closers, CloseChan(c, k)
  PROVE  DInv'
<1> USE DEF DInv, Base
<1>1. /\ cpc[c][k] = "close" /\ cpc' = [cpc EXCEPT ![c][k] = "delete"]
      /\ closed' = [closed EXCEPT ![c] = TRUE]
      /\ fault' = IF closed[c] THEN "panic" ELSE fault
      /\ UNCHANGED <<conns, key, up, readQ, ppc, pmsg, pconn, upc, msgs,
                     dropped, got, lost>>
  BY DEF CloseChan
<1>2. up[c]
  BY <1>1 DEF Made
<1>3. /\ closed' \in [Conns -> BOOLEAN]
      /\ \A x \in Conns : closed[x] => closed'[x]
  BY <1>1 DEF TypeOK
<1>4. Base' /\ OpenIsRegistered'
  BY <1>1, <1>2, <1>3, CloseFrame DEF TypeOK
<1>5. \A x \in Conns : Home(x)' <=> Home(x)
  BY <1>1 DEF Home
<1>6. \A x \in Conns, j \in Closers :
        cpc'[x][j] = IF x = c /\ j = k THEN "delete" ELSE cpc[x][j]
  BY <1>1 DEF TypeOK
<1>7. PendingHome'
  <2> SUFFICES ASSUME fault' = "none", NEW x \in Conns, NEW j \in Closers,
                      cpc'[x][j] = "delete"
               PROVE  /\ closed'[x] /\ Home(x)'
                      /\ \A i \in Closers : cpc'[x][i] = "delete" => i = j
    BY DEF PendingHome
  <2>1. ~closed[c] /\ fault = "none"
    BY <1>1
  <2>2. \A i \in Closers : cpc[c][i] # "delete"
    BY <2>1 DEF PendingHome
  <2>3. CASE x = c
    <3>1. closed'[x]
      BY <1>1, <2>3 DEF TypeOK
    <3>2. Home(c)
      BY <1>2, <2>1 DEF OpenIsRegistered, Home
    <3>3. \A i \in Closers : cpc'[x][i] = "delete" => i = k
      BY <1>6, <2>2, <2>3
    <3> QED BY <1>5, <2>3, <3>1, <3>2, <3>3
  <2>4. CASE x # c
    BY <1>3, <1>5, <1>6, <2>1, <2>4 DEF PendingHome
  <2> QED BY <2>3, <2>4
<1> QED BY <1>4, <1>7

\* The delete by key: what it takes out of conns is c, if anything.
LEMMA CloseDeleteInv ==
  ASSUME DInv, fault = "none", NEW c \in Conns, NEW k \in Closers,
         CloseDelete(c, k)
  PROVE  DInv'
<1> USE DEF DInv, Base
<1>1. /\ cpc[c][k] = "delete" /\ cpc' = [cpc EXCEPT ![c][k] = "done"]
      /\ conns' = [conns EXCEPT ![key[c]] = None]
      /\ UNCHANGED <<key, up, closed, readQ, ppc, pmsg, pconn, upc, msgs,
                     dropped, got, lost, fault>>
  BY DEF CloseDelete
<1>2. /\ up[c] /\ key[c] # None /\ key[c] \in Keys
      /\ closed[c] /\ Home(c)
      /\ \A j \in Closers : cpc[c][j] = "delete" => j = k
  BY <1>1 DEF Made, PendingHome, TypeOK
<1>3. TypeOK'
  BY <1>1, <1>2 DEF TypeOK
<1>4. /\ conns'[key[c]] = None
      /\ \A x \in Keys : conns'[x] = None \/ conns'[x] = conns[x]
      /\ \A x \in Keys : x # key[c] => conns'[x] = conns[x]
  BY <1>1, <1>2 DEF TypeOK
<1>5. \A q \in Raws : MsgKey(q)' = MsgKey(q)
  BY <1>1 DEF MsgKey
<1>6. \A x \in Conns, j \in Closers :
        cpc'[x][j] = IF x = c /\ j = k THEN "done" ELSE cpc[x][j]
  BY <1>1 DEF TypeOK
<1>7. InHand' /\ Made'
  BY <1>1, <1>2, <1>4, <1>5, <1>6 DEF InHand, Made
<1>8. KeyFree'
  <2> SUFFICES ASSUME NEW q \in Raws, ppc[q] \in {"next", "register"}
               PROVE  conns'[MsgKey(q)] = None
    BY <1>1, <1>5 DEF KeyFree
  <2>1. MsgKey(q) \in Keys /\ conns[MsgKey(q)] = None
    BY KeyFacts DEF KeyFree
  <2> QED BY <1>4, <2>1
<1>9. \A x \in Conns : x # c /\ key[x] # None /\ Home(x) => Home(x)'
  <2> SUFFICES ASSUME NEW x \in Conns, x # c, key[x] # None, Home(x)
               PROVE  Home(x)'
    OBVIOUS
  <2>1. key[x] \in Keys /\ key[x][1] \in Raws /\ x # None /\ c # None
    BY KeyParts, DnsAssumption DEF TypeOK
  <2>2. CASE ppc[key[x][1]] = "register" /\ pconn[key[x][1]] = x
    BY <1>1, <2>2 DEF Home
  <2>3. CASE conns[key[x]] = x /\ key[x] # key[c]
    BY <1>1, <1>4, <2>1, <2>3 DEF Home
  <2>4. CASE conns[key[x]] = x /\ key[x] = key[c]
    <3>1. ppc[key[c][1]] = "register" /\ pconn[key[c][1]] = c
      BY <1>2, <2>4 DEF Home
    <3>2. conns[MsgKey(key[c][1])] = None /\ key[c] = MsgKey(key[c][1])
      BY <2>1, <2>4, <3>1 DEF KeyFree, Made
    <3> QED BY <2>1, <2>4, <3>2
  <2> QED BY <2>2, <2>3, <2>4 DEF Home
<1>10. OpenIsRegistered'
  BY <1>1, <1>2, <1>9 DEF OpenIsRegistered, Home, Made
<1>11. PendingHome'
  BY <1>1, <1>2, <1>6, <1>9 DEF PendingHome, Made
<1> QED BY <1>3, <1>7, <1>8, <1>10, <1>11

-----------------------------------------------------------------------------
\* Every step of DnsProcessor keeps the invariant.
LEMMA NextDInv == DInv /\ [Next]_dvars => DInv'
<1> SUFFICES ASSUME DInv, [Next]_dvars PROVE DInv'
  OBVIOUS
<1>1. CASE UNCHANGED dvars
  BY <1>1 DEF dvars, DInv, Base, TypeOK, InHand, Made, KeyFree, MsgKey, Home,
              OpenIsRegistered, PendingHome
<1>2. CASE Next
  <2>0. fault = "none"
    BY <1>2 DEF Next
  <2>1. ASSUME NEW r \in Raws, NEW t \in Targets, ProcRead(r, t) PROVE DInv'
    BY <2>1, ProcReadInv
  <2>2. ASSUME NEW r \in Raws, ProcBreak(r) \/ ProcNoQuestion(r) PROVE DInv'
    BY <2>2, ProcBreakInv, ProcNoQuestionInv
  <2>3. ASSUME NEW r \in Raws, ProcGo(r) PROVE DInv'
    BY <2>3, ProcLookupInv, ProcNextInv, ProcRegisterInv, ProcPutInv DEF ProcGo
  <2>4. ASSUME NEW c \in Conns, Upstream(c) \/ UpStop(c) PROVE DInv'
    BY <2>4, UpstreamInv
  <2>5. ASSUME NEW c \in Conns, NEW k \in Closers, Close(c, k) PROVE DInv'
    BY <2>0, <2>5, CloseCheckInv, CloseChanInv, CloseDeleteInv DEF Close
  <2> QED BY <1>2, <2>1, <2>2, <2>3, <2>4, <2>5 DEF Next
<1> QED BY <1>1, <1>2

\* The invariant holds in every behaviour of the processor.
LEMMA SpecDInv == Spec => []DInv
<1>1. Init => DInv
  BY InitDInv
<1>2. DInv /\ [Next]_dvars => DInv'
  BY NextDInv
<1> QED BY <1>1, <1>2, PTL DEF Spec

\* Every variable of the DNS processor keeps its type and readQueued its
\* capacity, for every number of flows, connections and closers.
THEOREM DnsTypeCorrect == Spec => []TypeOK
<1>1. DInv => TypeOK
  BY DEF DInv, Base
<1> QED BY <1>1, SpecDInv, PTL

\* An upstream connection that is open is the one proc finds for its flow and
\* target: the delete by key of DNSProcessor.close never unregisters another.
THEOREM DnsOpenStaysRegistered == Spec => []OpenIsRegistered
<1>1. DInv => OpenIsRegistered
  BY DEF DInv
<1> QED BY <1>1, SpecDInv, PTL

-----------------------------------------------------------------------------
(* Where queries are, and in which order.                                  *)

\* What each connection has got, as a function.
Holding == [c \in Conns |-> Held(c)]

\* Query d is somewhere: given up, in a proc's hand or in a connection.
Somewhere(d, H, P, X) ==
  \/ d \in X
  \/ \E r \in Raws : P[r] = d
  \/ \E c \in Conns : \E i \in 1 .. Len(H[c]) : H[c][i] = d

\* With H[c] what connection c has got, K the keys, P what the procs have in
\* hand, M the queries read and X those dropped or lost: a connection has
\* queries of its own key, rising, and no other has them; the one in hand is
\* later than those of its flow that have been passed on; and none is missing.
KeptBy(H, K, P, M, X) ==
  /\ \A c \in Conns : \A i \in 1 .. Len(H[c]) :
       /\ H[c][i] \in 1 .. Len(M)
       /\ K[c] = <<M[H[c][i]].raw, M[H[c][i]].target>>
  /\ \A c \in Conns : \A i, j \in 1 .. Len(H[c]) :
       i < j => H[c][i] < H[c][j]
  /\ \A c, e \in Conns : \A i \in 1 .. Len(H[c]), j \in 1 .. Len(H[e]) :
       H[c][i] = H[e][j] => c = e
  /\ \A r \in Raws : P[r] # 0 =>
       /\ P[r] \in 1 .. Len(M) /\ M[P[r]].raw = r
       /\ \A c \in Conns : \A i \in 1 .. Len(H[c]) :
            K[c][1] = r => H[c][i] < P[r]
  /\ \A d \in 1 .. Len(M) : Somewhere(d, H, P, X)

\* What is about to be put has the key of the connection it is put in.
PutRight ==
  \A r \in Raws : ppc[r] = "put" =>
    pconn[r] \in Conns /\ key[pconn[r]] = MsgKey(r)

\* A proc that reads has nothing in hand.
Empty == \A r \in Raws : ppc[r] \in {"read", "done"} => pmsg[r] = 0

\* The inductive form of PerTargetFifo; a panic loses the query in hand.
Kept ==
  /\ PutRight /\ Empty
  /\ fault = "none" => KeptBy(Holding, key, pmsg, msgs, dropped \cup lost)

\* What the queries are records of.
Queries == [raw : Raws, target : Targets]

\* A query is read into an empty hand.
LEMMA KeptReads ==
  ASSUME NEW H \in [Conns -> Seq(Nat)], NEW K, NEW P \in [Raws -> Nat],
         NEW M \in Seq(Queries), NEW X, KeptBy(H, K, P, M, X),
         NEW r \in Raws, P[r] = 0, NEW m \in Queries, m.raw = r
  PROVE  KeptBy(H, K, [P EXCEPT ![r] = Len(M) + 1], Append(M, m), X)
<1> DEFINE N == Append(M, m)
           d == Len(M) + 1
           Q == [P EXCEPT ![r] = d]
<1> SUFFICES KeptBy(H, K, Q, N, X)
  OBVIOUS
<1>1. /\ Len(M) \in Nat /\ Len(N) = d /\ N[d] = m
      /\ \A i \in 1 .. Len(M) : N[i] = M[i] /\ i \in 1 .. Len(N)
  OBVIOUS
<1>2. Q[r] = d /\ \A x \in Raws : x # r => Q[x] = P[x]
  OBVIOUS
<1>3. d \in 1 .. Len(N) /\ d # 0
  BY <1>1
<1> HIDE DEF N, Q
<1>4. \A c \in Conns : \A i \in 1 .. Len(H[c]) :
        /\ H[c][i] \in 1 .. Len(M) /\ H[c][i] \in 1 .. Len(N)
        /\ K[c] = <<N[H[c][i]].raw, N[H[c][i]].target>>
  <2> SUFFICES ASSUME NEW c \in Conns, NEW i \in 1 .. Len(H[c])
               PROVE  /\ H[c][i] \in 1 .. Len(M) /\ H[c][i] \in 1 .. Len(N)
                      /\ K[c] = <<N[H[c][i]].raw, N[H[c][i]].target>>
    OBVIOUS
  <2>1. /\ H[c][i] \in 1 .. Len(M)
        /\ K[c] = <<M[H[c][i]].raw, M[H[c][i]].target>>
    BY DEF KeptBy
  <2>2. N[H[c][i]] = M[H[c][i]] /\ H[c][i] \in 1 .. Len(N)
    BY <1>1, <2>1
  <2> QED BY <2>1, <2>2, Zenon
<1>5. \A x \in Raws : Q[x] # 0 =>
        /\ Q[x] \in 1 .. Len(N) /\ N[Q[x]].raw = x
        /\ \A c \in Conns : \A i \in 1 .. Len(H[c]) :
             K[c][1] = x => H[c][i] < Q[x]
  <2> SUFFICES ASSUME NEW x \in Raws, Q[x] # 0
               PROVE  /\ Q[x] \in 1 .. Len(N) /\ N[Q[x]].raw = x
                      /\ \A c \in Conns : \A i \in 1 .. Len(H[c]) :
                           K[c][1] = x => H[c][i] < Q[x]
    OBVIOUS
  <2>1. CASE x = r
    <3>1. \A c \in Conns : \A i \in 1 .. Len(H[c]) : H[c][i] < d
      BY <1>1, <1>4
    <3> HIDE DEF d
    <3> QED BY <1>1, <1>2, <1>3, <2>1, <3>1
  <2>2. CASE x # r
    <3>1. Q[x] = P[x]
      BY <1>2, <2>2
    <3>2. /\ P[x] \in 1 .. Len(M) /\ M[P[x]].raw = x
          /\ \A c \in Conns : \A i \in 1 .. Len(H[c]) :
               K[c][1] = x => H[c][i] < P[x]
      BY <3>1 DEF KeptBy
    <3>3. N[P[x]] = M[P[x]] /\ P[x] \in 1 .. Len(N)
      BY <1>1, <3>2
    <3> QED BY <3>1, <3>2, <3>3, Zenon
  <2> QED BY <2>1, <2>2
<1>6. \A e \in 1 .. Len(N) : Somewhere(e, H, Q, X)
  <2> SUFFICES ASSUME NEW e \in 1 .. Len(N) PROVE Somewhere(e, H, Q, X)
    OBVIOUS
  <2>1. CASE e = d
    BY <1>2, <2>1 DEF Somewhere
  <2>2. CASE e \in 1 .. Len(M)
    <3>1. Somewhere(e, H, P, X)
      BY <2>2 DEF KeptBy
    <3>2. \A x \in Raws : P[x] = e => Q[x] = e
      <4>1. e # 0
        BY <2>2
      <4> QED BY <1>2, <4>1
    <3> QED BY <3>1, <3>2 DEF Somewhere
  <2>3. e = d \/ e \in 1 .. Len(M)
    BY <1>1
  <2> QED BY <2>1, <2>2, <2>3
<1>7. \A c \in Conns : \A i, j \in 1 .. Len(H[c]) :
        i < j => H[c][i] < H[c][j]
  BY DEF KeptBy
<1>8. \A c, e \in Conns : \A i \in 1 .. Len(H[c]), j \in 1 .. Len(H[e]) :
        H[c][i] = H[e][j] => c = e
  BY DEF KeptBy
<1> QED BY <1>4, <1>5, <1>6, <1>7, <1>8 DEF KeptBy

\* A connection that has had no key gets one: it holds nothing.
LEMMA KeptNames ==
  ASSUME NEW H \in [Conns -> Seq(Nat)], NEW K \in [Conns -> Keys \cup {None}],
         NEW P, NEW M \in Seq(Queries), NEW X, KeptBy(H, K, P, M, X),
         NEW n \in Conns, K[n] = None, NEW k
  PROVE  KeptBy(H, [K EXCEPT ![n] = k], P, M, X)
<1> DEFINE L == [K EXCEPT ![n] = k]
<1>1. \A c \in Conns : c # n => L[c] = K[c]
  OBVIOUS
<1>2. ASSUME NEW i \in 1 .. Len(H[n]) PROVE FALSE
  <2>1. /\ H[n][i] \in 1 .. Len(M)
        /\ K[n] = <<M[H[n][i]].raw, M[H[n][i]].target>>
    BY DEF KeptBy
  <2>2. M[H[n][i]] \in Queries
    BY <2>1
  <2>3. <<M[H[n][i]].raw, M[H[n][i]].target>> \in Keys
    BY <2>2 DEF Queries, Keys
  <2> QED BY <2>1, <2>3, KeyParts
<1> HIDE DEF L
<1>3. KeptBy(H, L, P, M, X)
  BY <1>1, <1>2 DEF KeptBy
<1> QED BY <1>3 DEF L

\* Next refuses the connection: the query in hand is dropped.
LEMMA KeptDrops ==
  ASSUME NEW H, NEW K, NEW P \in [Raws -> Nat], NEW M, NEW X,
         KeptBy(H, K, P, M, X), NEW r \in Raws
  PROVE  KeptBy(H, K, [P EXCEPT ![r] = 0], M, X \cup {P[r]})
<1> DEFINE Q == [P EXCEPT ![r] = 0]
           Y == X \cup {P[r]}
<1>1. Q[r] = 0 /\ \A x \in Raws : x # r => Q[x] = P[x]
  OBVIOUS
<1>2. \A e : e \in X \/ e = P[r] => e \in Y
  OBVIOUS
<1> HIDE DEF Q, Y
<1>3. \A e \in 1 .. Len(M) : Somewhere(e, H, Q, Y)
  BY <1>1, <1>2 DEF KeptBy, Somewhere
<1>4. KeptBy(H, K, Q, M, Y)
  BY <1>1, <1>3 DEF KeptBy
<1> QED BY <1>4 DEF Q, Y

\* The query in hand is put in a connection of its key.
LEMMA KeptPuts ==
  ASSUME NEW H \in [Conns -> Seq(Nat)], NEW G \in [Conns -> Seq(Nat)],
         NEW K \in [Conns -> Keys \cup {None}],
         NEW P \in [Raws -> Nat], NEW M \in Seq(Queries), NEW X,
         KeptBy(H, K, P, M, X),
         NEW r \in Raws, P[r] # 0, NEW n \in Conns,
         K[n] = <<r, M[P[r]].target>>,
         \A c \in Conns : c # n => G[c] = H[c],
         G[n] = Append(H[n], P[r])
  PROVE  KeptBy(G, K, [P EXCEPT ![r] = 0], M, X)
<1> DEFINE Q == [P EXCEPT ![r] = 0]
<1> SUFFICES KeptBy(G, K, Q, M, X)
  OBVIOUS
<1>1. Q[r] = 0 /\ \A x \in Raws : x # r => Q[x] = P[x]
  OBVIOUS
<1>2. /\ Len(H[n]) \in Nat /\ Len(G[n]) = Len(H[n]) + 1
      /\ G[n][Len(H[n]) + 1] = P[r]
      /\ \A i \in 1 .. Len(H[n]) : G[n][i] = H[n][i]
  <2>1. H[n] \in Seq(Nat) /\ P[r] \in Nat
    OBVIOUS
  <2> QED BY <2>1
<1> HIDE DEF Q
<1>3. \A c \in Conns : \A i \in 1 .. Len(H[c]) :
        i \in 1 .. Len(G[c]) /\ G[c][i] = H[c][i]
  <2> SUFFICES ASSUME NEW c \in Conns, NEW i \in 1 .. Len(H[c])
               PROVE  i \in 1 .. Len(G[c]) /\ G[c][i] = H[c][i]
    OBVIOUS
  <2>1. CASE c # n
    BY <2>1
  <2>2. CASE c = n
    <3>1. i \in 1 .. Len(H[n]) /\ i \in 1 .. Len(H[n]) + 1
      BY <1>2, <2>2
    <3> QED BY <1>2, <2>2, <3>1
  <2> QED BY <2>1, <2>2
<1>4. \A c \in Conns : \A i \in 1 .. Len(G[c]) :
        \/ i \in 1 .. Len(H[c]) /\ G[c][i] = H[c][i]
        \/ c = n /\ i = Len(H[n]) + 1 /\ G[c][i] = P[r]
  <2> SUFFICES ASSUME NEW c \in Conns, NEW i \in 1 .. Len(G[c])
               PROVE  \/ i \in 1 .. Len(H[c]) /\ G[c][i] = H[c][i]
                      \/ c = n /\ i = Len(H[n]) + 1 /\ G[c][i] = P[r]
    OBVIOUS
  <2>1. CASE c # n
    BY <2>1
  <2>2. CASE c = n
    <3>1. i \in 1 .. Len(H[n]) \/ i = Len(H[n]) + 1
      <4>1. Len(G[c]) = Len(H[n]) + 1 /\ Len(H[n]) \in Nat
        BY <1>2, <2>2, Zenon
      <4> QED BY <4>1
    <3> QED BY <1>2, <2>2, <3>1, Zenon
  <2> QED BY <2>1, <2>2
<1>5. /\ P[r] \in 1 .. Len(M) /\ M[P[r]].raw = r
      /\ \A c \in Conns : \A i \in 1 .. Len(H[c]) :
           K[c][1] = r => H[c][i] < P[r]
  BY DEF KeptBy
<1>6. \A c \in Conns : \A i \in 1 .. Len(G[c]) :
        /\ G[c][i] \in 1 .. Len(M)
        /\ K[c] = <<M[G[c][i]].raw, M[G[c][i]].target>>
  <2> SUFFICES ASSUME NEW c \in Conns, NEW i \in 1 .. Len(G[c])
               PROVE  /\ G[c][i] \in 1 .. Len(M)
                      /\ K[c] = <<M[G[c][i]].raw, M[G[c][i]].target>>
    OBVIOUS
  <2>1. CASE i \in 1 .. Len(H[c]) /\ G[c][i] = H[c][i]
    BY <2>1 DEF KeptBy
  <2>2. CASE c = n /\ G[c][i] = P[r]
    BY <1>5, <2>2
  <2> QED BY <1>4, <2>1, <2>2
<1>7. \A c \in Conns : \A i, j \in 1 .. Len(G[c]) :
        i < j => G[c][i] < G[c][j]
  <2> SUFFICES ASSUME NEW c \in Conns, NEW i \in 1 .. Len(G[c]),
                      NEW j \in 1 .. Len(G[c]), i < j
               PROVE  G[c][i] < G[c][j]
    OBVIOUS
  <2>0. Len(H[c]) \in Nat
    OBVIOUS
  <2>1. CASE j \in 1 .. Len(H[c])
    <3>1. i \in 1 .. Len(H[c])
      BY <2>0, <2>1
    <3>2. H[c][i] < H[c][j]
      BY <2>1, <3>1 DEF KeptBy
    <3> QED BY <1>3, <2>1, <3>1, <3>2
  <2>2. CASE c = n /\ j = Len(H[n]) + 1 /\ G[c][j] = P[r]
    <3>1. i \in 1 .. Len(H[c])
      BY <2>0, <2>2
    <3>2. G[c][i] = H[c][i]
      BY <1>3, <3>1
    <3>3. K[c][1] = r
      BY <2>2
    <3>4. H[c][i] < P[r]
      BY <1>5, <3>1, <3>3
    <3> QED BY <2>2, <3>2, <3>4
  <2> QED BY <1>4, <2>1, <2>2
<1>8. \A x \in Raws : Q[x] # 0 =>
        /\ Q[x] \in 1 .. Len(M) /\ M[Q[x]].raw = x
        /\ \A c \in Conns : \A i \in 1 .. Len(G[c]) :
             K[c][1] = x => G[c][i] < Q[x]
  <2> SUFFICES ASSUME NEW x \in Raws, Q[x] # 0
               PROVE  /\ Q[x] \in 1 .. Len(M) /\ M[Q[x]].raw = x
                      /\ \A c \in Conns : \A i \in 1 .. Len(G[c]) :
                           K[c][1] = x => G[c][i] < Q[x]
    OBVIOUS
  <2>1. x # r /\ Q[x] = P[x]
    BY <1>1
  <2>2. /\ P[x] \in 1 .. Len(M) /\ M[P[x]].raw = x
        /\ \A c \in Conns : \A i \in 1 .. Len(H[c]) :
             K[c][1] = x => H[c][i] < P[x]
    BY <2>1 DEF KeptBy
  <2>3. K[n][1] # x
    BY <2>1
  <2>4. ASSUME NEW c \in Conns, NEW i \in 1 .. Len(G[c]), K[c][1] = x
        PROVE  G[c][i] < P[x]
    <3>1. i \in 1 .. Len(H[c]) /\ G[c][i] = H[c][i]
      BY <1>4, <2>3, <2>4
    <3> QED BY <2>2, <2>4, <3>1
  <2> QED BY <2>1, <2>2, <2>4
<1>9. \A e \in 1 .. Len(M) : Somewhere(e, G, Q, X)
  <2> SUFFICES ASSUME NEW e \in 1 .. Len(M) PROVE Somewhere(e, G, Q, X)
    OBVIOUS
  <2>1. Somewhere(e, H, P, X)
    BY DEF KeptBy
  <2>2. CASE e = P[r]
    <3>1. Len(H[n]) + 1 \in 1 .. Len(G[n])
      BY <1>2
    <3> QED BY <1>2, <2>2, <3>1 DEF Somewhere
  <2>3. CASE e # P[r]
    <3>1. \A x \in Raws : P[x] = e => Q[x] = e
      BY <1>1, <2>3
    <3>2. \A c \in Conns : (\E i \in 1 .. Len(H[c]) : H[c][i] = e)
                           => \E i \in 1 .. Len(G[c]) : G[c][i] = e
      BY <1>3
    <3> QED BY <2>1, <3>1, <3>2 DEF Somewhere
  <2> QED BY <2>2, <2>3
<1>10. \A c \in Conns : \A i \in 1 .. Len(H[c]) : H[c][i] # P[r]
  <2> SUFFICES ASSUME NEW c \in Conns, NEW i \in 1 .. Len(H[c]),
                      H[c][i] = P[r]
               PROVE  FALSE
    OBVIOUS
  <2>1. K[c] = <<M[H[c][i]].raw, M[H[c][i]].target>>
    BY DEF KeptBy
  <2>2. K[c][1] = r
    BY <1>5, <2>1
  <2>3. H[c][i] < P[r] /\ P[r] \in Nat
    BY <1>5, <2>2
  <2> QED BY <2>3
<1>11. \A c, e \in Conns : \A i \in 1 .. Len(G[c]), j \in 1 .. Len(G[e]) :
         G[c][i] = G[e][j] => c = e
  <2> SUFFICES ASSUME NEW c \in Conns, NEW e \in Conns,
                      NEW i \in 1 .. Len(G[c]), NEW j \in 1 .. Len(G[e]),
                      G[c][i] = G[e][j]
               PROVE  c = e
    OBVIOUS
  <2>1. CASE /\ i \in 1 .. Len(H[c]) /\ G[c][i] = H[c][i]
             /\ j \in 1 .. Len(H[e]) /\ G[e][j] = H[e][j]
    <3>1. H[c][i] = H[e][j]
      BY <2>1
    <3> QED BY <2>1, <3>1 DEF KeptBy
  <2>2. CASE c = n /\ G[c][i] = P[r]
    BY <1>4, <1>10, <2>2
  <2>3. CASE e = n /\ G[e][j] = P[r]
    BY <1>4, <1>10, <2>3
  <2> QED BY <1>4, <2>1, <2>2, <2>3
<1> QED BY <1>6, <1>7, <1>8, <1>9, <1>11 DEF KeptBy

\* A Read whose buffer is too small takes the query at place p of connection n
\* for nobody: those behind it move up.
LEMMA KeptLoses ==
  ASSUME NEW H \in [Conns -> Seq(Nat)], NEW G \in [Conns -> Seq(Nat)],
         NEW K, NEW P, NEW M, NEW X, KeptBy(H, K, P, M, X),
         NEW n \in Conns, NEW p \in 1 .. Len(H[n]),
         \A c \in Conns : c # n => G[c] = H[c],
         Len(G[n]) = Len(H[n]) - 1,
         \A i \in 1 .. Len(G[n]) :
           G[n][i] = IF i < p THEN H[n][i] ELSE H[n][i + 1]
  PROVE  KeptBy(G, K, P, M, X \cup {H[n][p]})
<1> DEFINE at(c, i) == IF c # n \/ i < p THEN i ELSE i + 1
           Y == X \cup {H[n][p]}
<1>0. \A c \in Conns : Len(H[c]) \in Nat /\ Len(G[c]) \in Nat
  OBVIOUS
<1>1. \A c \in Conns : \A i \in 1 .. Len(G[c]) :
        at(c, i) \in 1 .. Len(H[c]) /\ G[c][i] = H[c][at(c, i)]
  <2> SUFFICES ASSUME NEW c \in Conns, NEW i \in 1 .. Len(G[c])
               PROVE  at(c, i) \in 1 .. Len(H[c]) /\ G[c][i] = H[c][at(c, i)]
    OBVIOUS
  <2>1. CASE c # n
    BY <2>1
  <2>2. CASE c = n
    BY <1>0, <2>2
  <2> QED BY <2>1, <2>2
<1>2. \A c \in Conns : \A i, j \in 1 .. Len(G[c]) :
        i < j => at(c, i) < at(c, j)
  <2> SUFFICES ASSUME NEW c \in Conns, NEW i \in 1 .. Len(G[c]),
                      NEW j \in 1 .. Len(G[c]), i < j
               PROVE  at(c, i) < at(c, j)
    OBVIOUS
  <2>1. p \in Nat /\ i \in Nat /\ j \in Nat
    BY <1>0
  <2>2. CASE c # n
    <3>1. at(c, i) = i /\ at(c, j) = j
      BY <2>2
    <3> QED BY <3>1
  <2>3. CASE c = n
    <3>1. /\ at(c, i) = IF i < p THEN i ELSE i + 1
          /\ at(c, j) = IF j < p THEN j ELSE j + 1
      BY <2>3
    <3>2. \A x, y, z \in Nat :
            x < y => (IF x < z THEN x ELSE x + 1) < (IF y < z THEN y ELSE y + 1)
      OBVIOUS
    <3> QED BY <2>1, <3>1, <3>2
  <2> QED BY <2>2, <2>3
<1>3. \A c \in Conns : \A k \in 1 .. Len(H[c]) :
        \/ c = n /\ k = p
        \/ \E i \in 1 .. Len(G[c]) : at(c, i) = k
  <2> SUFFICES ASSUME NEW c \in Conns, NEW k \in 1 .. Len(H[c]),
                      ~(c = n /\ k = p)
               PROVE  \E i \in 1 .. Len(G[c]) : at(c, i) = k
    OBVIOUS
  <2>1. CASE c # n
    BY <2>1
  <2>2. CASE c = n /\ k < p
    <3>1. k \in 1 .. Len(G[c]) /\ at(c, k) = k
      BY <1>0, <2>2
    <3> QED BY <3>1
  <2>3. CASE c = n /\ k > p
    <3>1. k - 1 \in 1 .. Len(G[c]) /\ at(c, k - 1) = k
      BY <1>0, <2>3
    <3> QED BY <3>1
  <2> QED BY <1>0, <2>1, <2>2, <2>3
<1> HIDE DEF at
<1>4. \A c \in Conns : \A i \in 1 .. Len(G[c]) :
        /\ G[c][i] \in 1 .. Len(M)
        /\ K[c] = <<M[G[c][i]].raw, M[G[c][i]].target>>
  <2> SUFFICES ASSUME NEW c \in Conns, NEW i \in 1 .. Len(G[c])
               PROVE  /\ G[c][i] \in 1 .. Len(M)
                      /\ K[c] = <<M[G[c][i]].raw, M[G[c][i]].target>>
    OBVIOUS
  <2>1. PICK k \in 1 .. Len(H[c]) : G[c][i] = H[c][k]
    BY <1>1
  <2>2. /\ H[c][k] \in 1 .. Len(M)
        /\ K[c] = <<M[H[c][k]].raw, M[H[c][k]].target>>
    BY DEF KeptBy
  <2> QED BY <2>1, <2>2
<1>5. \A c \in Conns : \A i, j \in 1 .. Len(G[c]) :
        i < j => G[c][i] < G[c][j]
  <2> SUFFICES ASSUME NEW c \in Conns, NEW i \in 1 .. Len(G[c]),
                      NEW j \in 1 .. Len(G[c]), i < j
               PROVE  G[c][i] < G[c][j]
    OBVIOUS
  <2>1. PICK k \in 1 .. Len(H[c]) : k = at(c, i) /\ G[c][i] = H[c][k]
    BY <1>1
  <2>2. PICK l \in 1 .. Len(H[c]) : l = at(c, j) /\ G[c][j] = H[c][l]
    BY <1>1
  <2>3. k < l
    BY <1>2, <2>1, <2>2
  <2>4. H[c][k] < H[c][l]
    BY <2>3 DEF KeptBy
  <2> QED BY <2>1, <2>2, <2>4
<1>6. \A c, e \in Conns : \A i \in 1 .. Len(G[c]), j \in 1 .. Len(G[e]) :
        G[c][i] = G[e][j] => c = e
  <2> SUFFICES ASSUME NEW c \in Conns, NEW e \in Conns,
                      NEW i \in 1 .. Len(G[c]), NEW j \in 1 .. Len(G[e]),
                      G[c][i] = G[e][j]
               PROVE  c = e
    OBVIOUS
  <2>1. PICK k \in 1 .. Len(H[c]) : G[c][i] = H[c][k]
    BY <1>1
  <2>2. PICK l \in 1 .. Len(H[e]) : G[e][j] = H[e][l]
    BY <1>1
  <2>3. H[c][k] = H[e][l]
    BY <2>1, <2>2
  <2> QED BY <2>3 DEF KeptBy
<1>7. \A r \in Raws : P[r] # 0 =>
        /\ P[r] \in 1 .. Len(M) /\ M[P[r]].raw = r
        /\ \A c \in Conns : \A i \in 1 .. Len(G[c]) :
             K[c][1] = r => G[c][i] < P[r]
  <2> SUFFICES ASSUME NEW r \in Raws, P[r] # 0
               PROVE  /\ P[r] \in 1 .. Len(M) /\ M[P[r]].raw = r
                      /\ \A c \in Conns : \A i \in 1 .. Len(G[c]) :
                           K[c][1] = r => G[c][i] < P[r]
    OBVIOUS
  <2>1. /\ P[r] \in 1 .. Len(M) /\ M[P[r]].raw = r
        /\ \A c \in Conns : \A k \in 1 .. Len(H[c]) :
             K[c][1] = r => H[c][k] < P[r]
    BY DEF KeptBy
  <2>2. ASSUME NEW c \in Conns, NEW i \in 1 .. Len(G[c]), K[c][1] = r
        PROVE  G[c][i] < P[r]
    <3>1. PICK k \in 1 .. Len(H[c]) : G[c][i] = H[c][k]
      BY <1>1
    <3> QED BY <2>1, <2>2, <3>1
  <2> QED BY <2>1, <2>2
<1>8. \A d \in 1 .. Len(M) : Somewhere(d, G, P, Y)
  <2> SUFFICES ASSUME NEW d \in 1 .. Len(M) PROVE Somewhere(d, G, P, Y)
    OBVIOUS
  <2>1. Somewhere(d, H, P, X)
    BY DEF KeptBy
  <2>2. CASE d \in X \/ \E r \in Raws : P[r] = d
    BY <2>2 DEF Somewhere
  <2>3. ASSUME NEW c \in Conns, NEW k \in 1 .. Len(H[c]), H[c][k] = d
        PROVE  Somewhere(d, G, P, Y)
    <3>1. CASE c = n /\ k = p
      BY <2>3, <3>1 DEF Somewhere
    <3>2. CASE ~(c = n /\ k = p)
      <4>1. PICK i \in 1 .. Len(G[c]) : at(c, i) = k
        BY <1>3, <3>2
      <4>2. G[c][i] = d
        BY <1>1, <2>3, <4>1
      <4> QED BY <4>2 DEF Somewhere
    <3> QED BY <3>1, <3>2
  <2> QED BY <2>1, <2>2, <2>3 DEF Somewhere
<1> HIDE DEF Y
<1>9. KeptBy(G, K, P, M, Y)
  BY <1>4, <1>5, <1>6, <1>7, <1>8 DEF KeptBy
<1> QED BY <1>9 DEF Y

\* The types of what KeptBy is about.
LEMMA KeptTypes ==
  ASSUME TypeOK
  PROVE  /\ Holding \in [Conns -> Seq(Nat)]
         /\ \A c \in Conns : /\ got[c] \in Seq(Nat) /\ readQ[c] \in Seq(Nat)
                             /\ Holding[c] = got[c] \o readQ[c]
         /\ key \in [Conns -> Keys \cup {None}]
         /\ pmsg \in [Raws -> Nat] /\ msgs \in Seq(Queries)
<1>1. ASSUME NEW s \in Seq(1 .. MaxMsgs) PROVE s \in Seq(Nat)
  <2>1. \A i \in 1 .. Len(s) : s[i] \in Nat
    BY DnsAssumption
  <2> QED BY <2>1
<1>2. \A c \in Conns : got[c] \in Seq(Nat) /\ readQ[c] \in Seq(Nat)
  <2>1. \A c \in Conns : /\ got[c] \in Seq(1 .. MaxMsgs)
                         /\ readQ[c] \in Seq(1 .. MaxMsgs)
    BY DEF TypeOK
  <2> QED BY <1>1, <2>1
<1>3. \A c \in Conns : Holding[c] = got[c] \o readQ[c]
  BY DEF Holding, Held
<1>4. \A c \in Conns : got[c] \o readQ[c] \in Seq(Nat)
  BY <1>2
<1>5. Holding \in [Conns -> Seq(Nat)]
  BY <1>4 DEF Holding, Held
<1>6. pmsg \in [Raws -> Nat]
  BY DnsAssumption DEF TypeOK
<1>7. msgs \in Seq(Queries)
  BY DEF TypeOK, Queries
<1>8. key \in [Conns -> Keys \cup {None}]
  BY DEF TypeOK
<1> QED BY <1>2, <1>3, <1>5, <1>6, <1>7, <1>8

\* Kept's meaning for the sets of PerTargetFifo.
LEMMA KeptMeans ==
  ASSUME TypeOK, Kept
  PROVE  PerTargetFifo
<1> SUFFICES ASSUME fault = "none" PROVE PerTargetFifo
  BY DEF PerTargetFifo
<1> DEFINE H == Holding
<1>0. KeptBy(H, key, pmsg, msgs, dropped \cup lost)
  BY DEF Kept
<1>1. \A c \in Conns : Held(c) = H[c] /\ H[c] \in Seq(Nat)
  BY KeptTypes DEF Holding
<1> HIDE DEF H
<1>2. \A c \in Conns : Range(Held(c)) = {H[c][i] : i \in 1 .. Len(H[c])}
  BY <1>1 DEF Range
<1>3. \A c \in Conns, i, j \in 1 .. MaxMsgs :
        i < j /\ j <= Len(Held(c)) => Held(c)[i] < Held(c)[j]
  <2> SUFFICES ASSUME NEW c \in Conns, NEW i \in 1 .. MaxMsgs,
                      NEW j \in 1 .. MaxMsgs, i < j, j <= Len(H[c])
               PROVE  H[c][i] < H[c][j]
    BY <1>1
  <2>1. Len(H[c]) \in Nat /\ MaxMsgs \in Nat
    BY <1>1, DnsAssumption
  <2>2. i \in 1 .. Len(H[c]) /\ j \in 1 .. Len(H[c])
    BY <2>1
  <2> QED BY <1>0, <2>2 DEF KeptBy
<1>4. \A c \in Conns : \A d \in Range(Held(c)) :
        key[c] = <<msgs[d].raw, msgs[d].target>>
  BY <1>0, <1>2 DEF KeptBy
<1>5. \A d \in 1 .. Len(msgs) :
        \/ d \in dropped \cup lost
        \/ \E r \in Raws : pmsg[r] = d
        \/ \E c \in Conns : d \in Range(Held(c))
  BY <1>0, <1>2 DEF KeptBy, Somewhere
<1>6. \A c, x \in Conns : c # x => Range(Held(c)) \cap Range(Held(x)) = {}
  BY <1>0, <1>2 DEF KeptBy
<1> QED BY <1>3, <1>4, <1>5, <1>6 DEF PerTargetFifo

\* The head of the second of two sequences in a row is taken out.
LEMMA LoseFacts ==
  ASSUME NEW g \in Seq(Nat), NEW q \in Seq(Nat), q # <<>>
  PROVE  /\ Len(g) + 1 \in 1 .. Len(g \o q) /\ (g \o q)[Len(g) + 1] = Head(q)
         /\ Len(g \o Tail(q)) = Len(g \o q) - 1
         /\ \A i \in 1 .. Len(g \o Tail(q)) :
              (g \o Tail(q))[i] = IF i < Len(g) + 1 THEN (g \o q)[i]
                                  ELSE (g \o q)[i + 1]
<1>1. /\ Len(g) \in Nat /\ Len(q) \in Nat \ {0} /\ Tail(q) \in Seq(Nat)
      /\ Len(Tail(q)) = Len(q) - 1 /\ Head(q) = q[1]
      /\ \A i \in 1 .. Len(Tail(q)) : Tail(q)[i] = q[i + 1]
  OBVIOUS
<1>2. ASSUME NEW t \in Seq(Nat)
      PROVE  /\ Len(g \o t) = Len(g) + Len(t)
             /\ \A i \in 1 .. Len(g) + Len(t) :
                  (g \o t)[i] = IF i <= Len(g) THEN g[i] ELSE t[i - Len(g)]
  OBVIOUS
<1>3. /\ Len(g) + 1 \in 1 .. Len(g \o q) /\ (g \o q)[Len(g) + 1] = Head(q)
      /\ Len(g \o Tail(q)) = Len(g \o q) - 1
  BY <1>1, <1>2
<1>4. ASSUME NEW i \in 1 .. Len(g \o Tail(q))
      PROVE  (g \o Tail(q))[i] = IF i < Len(g) + 1 THEN (g \o q)[i]
                                 ELSE (g \o q)[i + 1]
  <2>1. i \in 1 .. Len(g) + Len(Tail(q)) /\ i \in Nat
    BY <1>1, <1>2
  <2>2. CASE i <= Len(g)
    BY <1>1, <1>2, <2>1, <2>2
  <2>3. CASE i > Len(g)
    <3>1. i - Len(g) \in 1 .. Len(Tail(q)) /\ i + 1 \in 1 .. Len(g) + Len(q)
      BY <1>1, <2>1, <2>3
    <3>2. (g \o Tail(q))[i] = Tail(q)[i - Len(g)]
      BY <1>1, <1>2, <2>1, <2>3
    <3>3. (g \o q)[i + 1] = q[(i + 1) - Len(g)]
      BY <1>1, <1>2, <2>1, <2>3, <3>1
    <3>4. (i - Len(g)) + 1 = (i + 1) - Len(g)
      BY <1>1, <2>1
    <3>5. Tail(q)[i - Len(g)] = q[(i - Len(g)) + 1]
      BY <1>1, <3>1
    <3> QED BY <1>1, <2>1, <2>3, <3>2, <3>3, <3>4, <3>5
  <2> QED BY <1>1, <2>1, <2>2, <2>3
<1> QED BY <1>3, <1>4

\* Every step keeps what is in the procs' hands right.
LEMMA NextHands ==
  ASSUME Base, PutRight, Empty, [Next]_dvars
  PROVE  PutRight' /\ Empty'
<1>0. /\ ppc \in [Raws -> {"read", "look", "next", "register", "put", "done"}]
      /\ pmsg \in [Raws -> 0 .. MaxMsgs]
      /\ pconn \in [Raws -> Conns \cup {None}]
      /\ key \in [Conns -> Keys \cup {None}]
      /\ conns \in [Keys -> Conns \cup {None}]
      /\ msgs \in Seq([raw : Raws, target : Targets])
  BY DEF Base, TypeOK
<1>1. CASE UNCHANGED <<ppc, pmsg, pconn, key, msgs>>
  BY <1>1 DEF PutRight, Empty, MsgKey
<1>2. ASSUME NEW r \in Raws, NEW t \in Targets, ProcRead(r, t)
      PROVE  PutRight' /\ Empty'
  <2>1. /\ pmsg' = [pmsg EXCEPT ![r] = Len(msgs) + 1]
        /\ ppc' = [ppc EXCEPT ![r] = "look"]
        /\ pconn' = pconn /\ key' = key
        /\ msgs' = Append(msgs, [raw |-> r, target |-> t])
    BY <1>2 DEF ProcRead
  <2>2. Empty'
    BY <1>0, <2>1 DEF Empty
  <2>3. ASSUME NEW x \in Raws, ppc'[x] = "put"
        PROVE  pconn'[x] \in Conns /\ key'[pconn'[x]] = MsgKey(x)'
    <3>1. x # r /\ ppc[x] = "put" /\ pmsg'[x] = pmsg[x]
      BY <1>0, <2>1, <2>3
    <3>2. pmsg[x] \in 1 .. Len(msgs)
      BY <3>1 DEF Base, InHand
    <3>3. msgs'[pmsg[x]] = msgs[pmsg[x]]
      <4> DEFINE Q == [raw : Raws, target : Targets]
                 m == [raw |-> r, target |-> t]
      <4>1. m \in Q /\ msgs \in Seq(Q)
        BY <1>0
      <4> HIDE DEF Q, m
      <4>2. Append(msgs, m)[pmsg[x]] = msgs[pmsg[x]]
        BY <3>2, <4>1
      <4> QED BY <2>1, <4>2 DEF m
    <3>4. MsgKey(x)' = MsgKey(x)
      BY <3>1, <3>3 DEF MsgKey
    <3> QED BY <2>1, <3>1, <3>4 DEF PutRight
  <2> QED BY <2>2, <2>3 DEF PutRight
<1>3. ASSUME NEW r \in Raws, ProcBreak(r) PROVE PutRight' /\ Empty'
  <2>1. /\ ppc[r] = "read" /\ ppc' = [ppc EXCEPT ![r] = "done"]
        /\ UNCHANGED <<pmsg, pconn, key, msgs>>
    BY <1>3 DEF ProcBreak
  <2> QED BY <1>0, <2>1 DEF PutRight, Empty, MsgKey
<1>4. ASSUME NEW r \in Raws, ProcLookup(r) PROVE PutRight' /\ Empty'
  <2>1. /\ ppc[r] = "look" /\ UNCHANGED <<pmsg, key, msgs>>
        /\ pconn' = [pconn EXCEPT ![r] = conns[MsgKey(r)]]
        /\ ppc' = [ppc EXCEPT ![r] = IF conns[MsgKey(r)] = None THEN "next"
                                     ELSE "put"]
    BY <1>4 DEF ProcLookup
  <2>2. MsgKey(r) \in Keys
    BY <2>1, KeyFacts DEF Base
  <2>3. conns[MsgKey(r)] # None =>
          /\ conns[MsgKey(r)] \in Conns
          /\ key[conns[MsgKey(r)]] = MsgKey(r)
    BY <1>0, <2>2 DEF Base, Made
  <2>4. Empty'
    BY <1>0, <2>1 DEF Empty
  <2>5. \A x \in Raws : MsgKey(x)' = MsgKey(x)
    BY <2>1 DEF MsgKey
  <2>6. PutRight'
    BY <1>0, <2>1, <2>3, <2>5 DEF PutRight
  <2> QED BY <2>4, <2>6
<1>5. ASSUME NEW r \in Raws, ProcNext(r) PROVE PutRight' /\ Empty'
  <2>1. PICK c \in Conns :
          /\ key[c] = None /\ key' = [key EXCEPT ![c] = MsgKey(r)]
          /\ pconn' = [pconn EXCEPT ![r] = c] /\ msgs' = msgs
          /\ \/ ppc' = [ppc EXCEPT ![r] = "register"] /\ pmsg' = pmsg
             \/ /\ ppc' = [ppc EXCEPT ![r] = "read"]
                /\ pmsg' = [pmsg EXCEPT ![r] = 0]
    BY <1>5 DEF ProcNext
  <2>2. Empty'
    BY <1>0, <2>1 DEF Empty
  <2>3. ASSUME NEW x \in Raws, ppc'[x] = "put"
        PROVE  pconn'[x] \in Conns /\ key'[pconn'[x]] = MsgKey(x)'
    <3>1. /\ x # r /\ ppc[x] = "put" /\ pmsg'[x] = pmsg[x]
          /\ pconn'[x] = pconn[x]
      BY <1>0, <2>1, <2>3
    <3>2. pconn[x] \in Conns /\ key[pconn[x]] = MsgKey(x)
      BY <3>1 DEF PutRight
    <3>3. MsgKey(x) # None
      BY <3>1, KeyFacts DEF Base
    <3>4. key'[pconn[x]] = key[pconn[x]]
      BY <1>0, <2>1, <3>2, <3>3
    <3>5. MsgKey(x)' = MsgKey(x)
      BY <2>1, <3>1 DEF MsgKey
    <3> QED BY <3>1, <3>2, <3>4, <3>5
  <2> QED BY <2>2, <2>3 DEF PutRight
<1>6. ASSUME NEW r \in Raws, ProcRegister(r) PROVE PutRight' /\ Empty'
  <2>1. /\ ppc[r] = "register" /\ UNCHANGED <<pmsg, pconn, key, msgs>>
        /\ ppc' = [ppc EXCEPT ![r] = "put"]
    BY <1>6 DEF ProcRegister
  <2>2. \A x \in Raws : MsgKey(x)' = MsgKey(x)
    BY <2>1 DEF MsgKey
  <2>3. pconn[r] \in Conns /\ key[pconn[r]] = MsgKey(r)
    BY <2>1 DEF Base, Made
  <2> QED BY <1>0, <2>1, <2>2, <2>3 DEF PutRight, Empty
<1>7. ASSUME NEW r \in Raws, ProcPut(r) PROVE PutRight' /\ Empty'
  <2>1. /\ UNCHANGED <<pconn, key, msgs>>
        /\ ppc' = [ppc EXCEPT ![r] = "read"]
        /\ pmsg' = [pmsg EXCEPT ![r] = 0]
    BY <1>7 DEF ProcPut
  <2>2. Empty'
    BY <1>0, <2>1 DEF Empty
  <2>3. \A x \in Raws : x # r => MsgKey(x)' = MsgKey(x)
    BY <1>0, <2>1 DEF MsgKey
  <2> QED BY <1>0, <2>1, <2>2, <2>3 DEF PutRight
<1>8. ASSUME NEW c \in Conns,
             Upstream(c) \/ UpStop(c) \/ \E k \in Closers : Close(c, k)
      PROVE  PutRight' /\ Empty'
  BY <1>1, <1>8 DEF Upstream, UpRead, UpEnd, UpStop, Close, CloseCheck,
                    CloseChan, CloseDelete
<1>10. ASSUME NEW r \in Raws, ProcNoQuestion(r) PROVE PutRight' /\ Empty'
  BY <1>1, <1>10 DEF ProcNoQuestion
<1>9. CASE UNCHANGED dvars
  BY <1>1, <1>9 DEF dvars
<1> QED BY <1>2, <1>3, <1>4, <1>5, <1>6, <1>7, <1>8, <1>9, <1>10
        DEF Next, ProcGo

\* Every step keeps the queries and their order.
LEMMA NextKept ==
  ASSUME Base, Kept, [Next]_dvars, TypeOK'
  PROVE  Kept'
<1> DEFINE Right == KeptBy(Holding, key, pmsg, msgs, dropped \cup lost)
           RightNow == KeptBy(Holding', key', pmsg', msgs', dropped' \cup lost')
<1>0. PutRight' /\ Empty'
  BY NextHands DEF Kept
<1> SUFFICES ASSUME fault' = "none" PROVE RightNow
  BY <1>0 DEF Kept
<1>1. Right
  BY DEF Kept, Next, dvars
<1>2. CASE UNCHANGED <<key, readQ, pmsg, msgs, dropped, got, lost>>
  <2>1. Holding' = Holding
    BY <1>2 DEF Holding, Held
  <2> QED BY <1>1, <1>2, <2>1
<1>3. ASSUME UNCHANGED <<readQ, got>> PROVE Holding' = Holding
  BY <1>3 DEF Holding, Held
<1>4. ASSUME NEW r \in Raws, NEW t \in Targets, ProcRead(r, t) PROVE RightNow
  <2>1. /\ ppc[r] = "read" /\ Holding' = Holding /\ key' = key
        /\ pmsg' = [pmsg EXCEPT ![r] = Len(msgs) + 1]
        /\ msgs' = Append(msgs, [raw |-> r, target |-> t])
        /\ dropped' = dropped /\ lost' = lost
    BY <1>3, <1>4 DEF ProcRead
  <2>2. pmsg[r] = 0
    BY <2>1 DEF Kept, Empty
  <2>3. [raw |-> r, target |-> t] \in Queries
    BY DEF Queries
  <2>4. KeptBy(Holding, key, [pmsg EXCEPT ![r] = Len(msgs) + 1],
               Append(msgs, [raw |-> r, target |-> t]), dropped \cup lost)
    BY <1>1, <2>2, <2>3, KeptTypes, KeptReads DEF Base
  <2> QED BY <2>1, <2>4
<1>5. ASSUME NEW r \in Raws, ProcNext(r) PROVE RightNow
  <2>1. PICK c \in Conns :
          /\ key[c] = None /\ key' = [key EXCEPT ![c] = MsgKey(r)]
          /\ msgs' = msgs /\ Holding' = Holding /\ lost' = lost
          /\ \/ pmsg' = pmsg /\ dropped' = dropped
             \/ /\ pmsg' = [pmsg EXCEPT ![r] = 0]
                /\ dropped' = dropped \cup {pmsg[r]}
    BY <1>3, <1>5 DEF ProcNext
  <2>2. KeptBy(Holding, key', pmsg, msgs, dropped \cup lost)
    BY <1>1, <2>1, KeptTypes, KeptNames DEF Base
  <2>3. KeptBy(Holding, key', [pmsg EXCEPT ![r] = 0], msgs,
               (dropped \cup lost) \cup {pmsg[r]})
    BY <2>2, KeptTypes, KeptDrops DEF Base
  <2>4. (dropped \cup lost) \cup {pmsg[r]} = (dropped \cup {pmsg[r]}) \cup lost
    OBVIOUS
  <2> QED BY <2>1, <2>2, <2>3, <2>4
<1>6. ASSUME NEW r \in Raws, ProcPut(r) PROVE RightNow
  <2> DEFINE n == pconn[r]
  <2>1. /\ ppc[r] = "put" /\ UNCHANGED <<key, msgs, dropped, got, lost>>
        /\ readQ' = [readQ EXCEPT ![n] = Append(@, pmsg[r])]
        /\ pmsg' = [pmsg EXCEPT ![r] = 0]
    BY <1>6 DEF ProcPut
  <2>2. n \in Conns /\ key[n] = MsgKey(r)
    BY <2>1 DEF Kept, PutRight
  <2>3. pmsg[r] \in Nat /\ pmsg[r] # 0
    BY <2>1 DEF Base, TypeOK, InHand
  <2> HIDE DEF n
  <2>4. /\ readQ'[n] = Append(readQ[n], pmsg[r])
        /\ \A c \in Conns : c # n => readQ'[c] = readQ[c]
    BY <2>1, <2>2 DEF Base, TypeOK
  <2>5. \A c \in Conns : c # n => Holding'[c] = Holding[c]
    <3> SUFFICES ASSUME NEW c \in Conns, c # n PROVE Held(c)' = Held(c)
      BY DEF Holding
    <3>1. readQ'[c] = readQ[c] /\ got'[c] = got[c]
      BY <2>1, <2>4
    <3> QED BY <3>1 DEF Held
  <2>6. Holding'[n] = Append(Holding[n], pmsg[r])
    <3>1. got[n] \in Seq(Nat) /\ readQ[n] \in Seq(Nat)
      BY <2>2, KeptTypes DEF Base
    <3>2. \A g, q \in Seq(Nat), x \in Nat :
            g \o Append(q, x) = Append(g \o q, x)
      OBVIOUS
    <3>3. got[n] \o Append(readQ[n], pmsg[r])
            = Append(got[n] \o readQ[n], pmsg[r])
      BY <2>3, <3>1, <3>2, Zenon
    <3> QED BY <2>1, <2>2, <2>4, <3>3 DEF Holding, Held
  <2>7. key[n] = <<r, msgs[pmsg[r]].target>>
    BY <2>2 DEF MsgKey, KeyOf
  <2>8. Holding' \in [Conns -> Seq(Nat)]
    <3>1. \A c \in Conns : Holding'[c] \in Seq(Nat)
      <4>1. \A c \in Conns : Holding[c] \in Seq(Nat)
        BY KeptTypes DEF Base
      <4>2. Holding'[n] \in Seq(Nat)
        BY <2>2, <2>3, <2>6, <4>1
      <4> QED BY <2>5, <4>1, <4>2
    <3> QED BY <3>1 DEF Holding
  <2>9. KeptBy(Holding', key, [pmsg EXCEPT ![r] = 0], msgs, dropped \cup lost)
    BY <1>1, <2>2, <2>3, <2>5, <2>6, <2>7, <2>8, KeptTypes, KeptPuts DEF Base
  <2> QED BY <2>1, <2>9
<1>7. ASSUME NEW n \in Conns, UpRead(n), lost' = lost,
             got' = [got EXCEPT ![n] = Append(@, Head(readQ[n]))]
      PROVE  RightNow
  <2>1. /\ readQ[n] # <<>> /\ UNCHANGED <<key, pmsg, msgs, dropped, lost>>
        /\ readQ' = [readQ EXCEPT ![n] = Tail(@)]
        /\ got' = [got EXCEPT ![n] = Append(@, Head(readQ[n]))]
    BY <1>7 DEF UpRead
  <2>2. /\ readQ \in [Conns -> Seq(1 .. MaxMsgs)]
        /\ got \in [Conns -> Seq(1 .. MaxMsgs)]
    BY DEF Base, TypeOK
  <2>3. ASSUME NEW c \in Conns PROVE Held(c)' = Held(c)
    <3>1. CASE c # n
      BY <2>1, <2>2, <3>1 DEF Held
    <3>2. CASE c = n
      <4>1. /\ readQ'[c] = Tail(readQ[c]) /\ readQ[c] # <<>>
            /\ got'[c] = Append(got[c], Head(readQ[c]))
        BY <2>1, <2>2, <3>2
      <4>2. got[c] \in Seq(Nat) /\ readQ[c] \in Seq(Nat)
        BY KeptTypes DEF Base
      <4>3. \A g, q \in Seq(Nat) :
              q # <<>> => Append(g, Head(q)) \o Tail(q) = g \o q
        OBVIOUS
      <4>4. Append(got[c], Head(readQ[c])) \o Tail(readQ[c])
              = got[c] \o readQ[c]
        BY <4>1, <4>2, <4>3, Zenon
      <4> QED BY <4>1, <4>4 DEF Held
    <3> QED BY <3>1, <3>2
  <2>4. Holding' = Holding
    BY <2>3 DEF Holding
  <2> QED BY <1>1, <2>1, <2>4
<1>8. ASSUME NEW r \in Raws, ProcBreak(r) \/ ProcLookup(r) \/ ProcRegister(r)
      PROVE  RightNow
  BY <1>2, <1>8 DEF ProcBreak, ProcLookup, ProcRegister
<1>9. ASSUME NEW c \in Conns,
             UpEnd(c) \/ UpStop(c) \/ \E k \in Closers : Close(c, k)
      PROVE  RightNow
  BY <1>2, <1>9 DEF UpEnd, UpStop, Close, CloseCheck, CloseChan, CloseDelete
<1>10. CASE UNCHANGED dvars
  BY <1>2, <1>10 DEF dvars
<1>11. ASSUME NEW n \in Conns, UpRead(n), got' = got,
              lost' = lost \cup {Head(readQ[n])}
       PROVE  RightNow
  <2> DEFINE p == Len(got[n]) + 1
  <2>1. /\ readQ[n] # <<>> /\ UNCHANGED <<key, pmsg, msgs, dropped, got>>
        /\ readQ' = [readQ EXCEPT ![n] = Tail(readQ[n])]
    BY <1>11 DEF UpRead
  <2>2. /\ got[n] \in Seq(Nat) /\ readQ[n] \in Seq(Nat)
        /\ Holding[n] = got[n] \o readQ[n]
    BY KeptTypes DEF Base
  <2>3. /\ readQ'[n] = Tail(readQ[n])
        /\ \A c \in Conns : c # n => readQ'[c] = readQ[c]
    BY <2>1 DEF Base, TypeOK
  <2>4. /\ Holding' \in [Conns -> Seq(Nat)]
        /\ Holding'[n] = got[n] \o Tail(readQ[n])
    <3>1. Tail(readQ[n]) \in Seq(Nat)
      BY <2>1, <2>2, TakeFacts
    <3>2. got[n] \o Tail(readQ[n]) \in Seq(Nat)
      BY <2>2, <3>1
    <3>3. Held(n)' = got[n] \o Tail(readQ[n])
      BY <2>1, <2>3 DEF Held
    <3>4. \A c \in Conns : Held(c)' \in Seq(Nat)
      <4> SUFFICES ASSUME NEW c \in Conns PROVE Held(c)' \in Seq(Nat)
        OBVIOUS
      <4>1. CASE c = n
        BY <3>2, <3>3, <4>1
      <4>2. CASE c # n
        <5>1. Held(c)' = got[c] \o readQ[c]
          BY <2>1, <2>3, <4>2 DEF Held
        <5>2. got[c] \in Seq(Nat) /\ readQ[c] \in Seq(Nat)
          BY KeptTypes DEF Base
        <5> QED BY <5>1, <5>2
      <4> QED BY <4>1, <4>2
    <3> QED BY <3>3, <3>4 DEF Holding
  <2>5. \A c \in Conns : c # n => Holding'[c] = Holding[c]
    <3> SUFFICES ASSUME NEW c \in Conns, c # n PROVE Held(c)' = Held(c)
      BY DEF Holding
    <3> QED BY <2>1, <2>3 DEF Held
  <2>6. /\ p \in 1 .. Len(Holding[n]) /\ Holding[n][p] = Head(readQ[n])
        /\ Len(Holding'[n]) = Len(Holding[n]) - 1
        /\ \A i \in 1 .. Len(Holding'[n]) :
             Holding'[n][i] = IF i < p THEN Holding[n][i]
                              ELSE Holding[n][i + 1]
    <3> DEFINE g == got[n]
               q == readQ[n]
    <3>1. g \in Seq(Nat) /\ q \in Seq(Nat) /\ q # <<>>
      BY <2>1, <2>2
    <3>2. Holding[n] = g \o q /\ Holding'[n] = g \o Tail(q) /\ p = Len(g) + 1
      BY <2>2, <2>4
    <3> HIDE DEF g, q, p
    <3>3. /\ Len(g) + 1 \in 1 .. Len(g \o q)
          /\ (g \o q)[Len(g) + 1] = Head(q)
          /\ Len(g \o Tail(q)) = Len(g \o q) - 1
          /\ \A i \in 1 .. Len(g \o Tail(q)) :
               (g \o Tail(q))[i] = IF i < Len(g) + 1 THEN (g \o q)[i]
                                   ELSE (g \o q)[i + 1]
      BY <3>1, LoseFacts
    <3>4. Head(q) = Head(readQ[n])
      BY DEF q
    <3> DEFINE G == Holding'[n]
    <3>5. /\ p \in 1 .. Len(Holding[n]) /\ Holding[n][p] = Head(readQ[n])
          /\ Len(G) = Len(Holding[n]) - 1
          /\ \A i \in 1 .. Len(G) :
               G[i] = IF i < p THEN Holding[n][i] ELSE Holding[n][i + 1]
      <4> HIDE DEF G
      <4>1. G = g \o Tail(q)
        BY <3>2 DEF G
      <4> QED BY <3>2, <3>3, <3>4, <4>1
    <3> QED BY <3>5
  <2> HIDE DEF p
  <2>7. KeptBy(Holding', key, pmsg, msgs,
               (dropped \cup lost) \cup {Holding[n][p]})
    BY <1>1, <2>4, <2>5, <2>6, KeptTypes, KeptLoses DEF Base
  <2>8. (dropped \cup lost) \cup {Holding[n][p]} = dropped' \cup lost'
    BY <1>11, <2>1, <2>6
  <2> QED BY <2>1, <2>7, <2>8
<1>12. ASSUME NEW n \in Conns, UpRead(n) PROVE RightNow
  BY <1>7, <1>11, <1>12 DEF UpRead
<1>13. \A r \in Raws : ~ProcNoQuestion(r)
  BY DEF ProcNoQuestion
<1> HIDE DEF RightNow
<1> QED BY <1>4, <1>5, <1>6, <1>8, <1>9, <1>10, <1>12, <1>13
        DEF Next, ProcGo, Upstream

\* A query that proc has read is in its hand or in one connection, unless Next
\* refused that connection or a Read with a buffer that is too small has taken
\* it; and a connection gets only queries of its own flow and target, in
\* order: for any number of flows, targets, connections and closers, until the
\* process panics.
THEOREM DnsQueriesKeepOrder == Spec => []PerTargetFifo
<1> DEFINE I == DInv /\ Kept
<1>1. Init => I
  <2> SUFFICES ASSUME Init PROVE Kept
    BY InitDInv
  <2>1. PutRight /\ Empty
    BY DEF Init, PutRight, Empty
  <2>2. \A c \in Conns : Holding[c] = <<>>
    BY DEF Init, Holding, Held
  <2>3. \A c \in Conns : Len(Holding[c]) = 0
    BY <2>2
  <2>4. Len(msgs) = 0 /\ \A r \in Raws : pmsg[r] = 0
    BY DEF Init
  <2>5. \A i \in 1 .. 0 : FALSE
    OBVIOUS
  <2> QED BY <2>1, <2>3, <2>4, <2>5 DEF Kept, KeptBy
<1>2. I /\ [Next]_dvars => I'
  BY NextDInv, NextKept DEF DInv, Base
<1>3. I => PerTargetFifo
  BY KeptMeans DEF DInv, Base
<1> QED BY <1>1, <1>2, <1>3, PTL DEF Spec
=============================================================================
