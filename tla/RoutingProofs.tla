--------------------------- MODULE RoutingProofs ---------------------------
(***************************************************************************)
(* Proofs about Routing, for any names, lists and addresses, any number of *)
(* queries and flows, and any number of Clears: a connection to an address *)
(* the client has learned goes to the proxy, and DNSGFW.Find agrees with   *)
(* the reference for lists of two-label entries.                           *)
(***************************************************************************)
EXTENDS Routing, SequenceTheorems, TLAPS

\* Types of what the argument is about.
RType ==
  /\ wr \in [Servers -> [at : {"idle", "record"},
                         ips : SUBSET Hosts, todo : SUBSET Hosts]]
  /\ queries \in Seq([name : Names, via : Servers, to : {"proxy", "direct"}])
  /\ flows \in Seq([host : Hosts, to : {"dns", "proxy", "direct"},
                    known : BOOLEAN])
  /\ \A k \in DOMAIN list : list[k] \in Servers

\* What the client has learned is noted or has been cleared.
LearnedNoted == learned \subseteq allIP \cup forgotten

\* So is what the loop over an answer has passed.
PassedNoted ==
  \A s \in Servers : wr[s].ips \ wr[s].todo \subseteq allIP \cup forgotten

\* The inductive invariant.
RInv == RType /\ LearnedNoted /\ PassedNoted /\ LearnedIsProxied

-----------------------------------------------------------------------------
\* Nothing is learned at start-up.
LEMMA InitRInv == Init => RInv
BY DEF Init, RInv, RType, LearnedNoted, PassedNoted, LearnedIsProxied, NoWrite

\* LwipHandler.OnAccept: a learned address is noted, so PACProcessor takes the
\* proxy.
LEMMA OnAcceptRInv ==
  ASSUME RInv, NEW sch \in {"tcp", "udp"}, NEW p \in {"53", "*"},
         NEW h \in Hosts, OnAccept(sch, p, h)
  PROVE  RInv'
<1> DEFINE to == SchemeDist(sch, p, h)
           f == [host |-> h, to |-> to, known |-> h \in learned \ forgotten]
           Flow == [host : Hosts, to : {"dns", "proxy", "direct"},
                    known : BOOLEAN]
<1>1. /\ flows' = Append(flows, f) /\ flows \in Seq(Flow)
      /\ UNCHANGED <<list, wr, queries, allIP, learned, forgotten>>
  BY DEF OnAccept, RInv, RType
<1>2. to \in {"dns", "proxy", "direct"}
  BY DEF SchemeDist, PortDist, Pac
<1>3. f \in Flow
  BY <1>2
<1>4. f.known => f.to \in {"proxy", "dns"}
  <2> SUFFICES ASSUME h \in learned \ forgotten PROVE to \in {"proxy", "dns"}
    OBVIOUS
  <2>1. h \in allIP
    BY DEF RInv, LearnedNoted
  <2> QED BY <2>1 DEF SchemeDist, PortDist, Pac
<1> HIDE DEF f, to, Flow
<1>5. /\ flows' \in Seq(Flow) /\ Len(flows) \in Nat
      /\ Len(flows') = Len(flows) + 1 /\ flows'[Len(flows) + 1] = f
      /\ \A i \in 1 .. Len(flows) : flows'[i] = flows[i]
  BY <1>1, <1>3
<1>6. LearnedIsProxied'
  <2> SUFFICES ASSUME NEW i \in 1 .. Len(flows'), flows'[i].known
               PROVE  flows'[i].to \in {"proxy", "dns"}
    BY DEF LearnedIsProxied
  <2>1. i \in 1 .. Len(flows) \/ i = Len(flows) + 1
    BY <1>5
  <2> QED BY <1>4, <1>5, <2>1 DEF RInv, LearnedIsProxied
<1>7. RType'
  BY <1>1, <1>5 DEF RInv, RType, Flow
<1> QED BY <1>1, <1>6, <1>7 DEF RInv, LearnedNoted, PassedNoted

\* A query touches neither notes nor flows.
LEMMA QueryRInv ==
  ASSUME RInv, NEW d \in Names, Query(d)
  PROVE  RInv'
<1>1. PICK s \in Find(d) :
        queries' = Append(queries, [name |-> d, via |-> s, to |-> Pac(s)])
  BY DEF Query
<1>2. UNCHANGED <<wr, allIP, learned, forgotten, flows>>
  BY DEF Query
<1>3. UNCHANGED list
  BY DEF Query
<1>4. s \in Servers
  BY DEF Find, Servers, RInv, RType
<1>5. [name |-> d, via |-> s, to |-> Pac(s)] \in
        [name : Names, via : Servers, to : {"proxy", "direct"}]
  BY <1>4 DEF Pac
<1>6. queries' \in Seq([name : Names, via : Servers,
                        to : {"proxy", "direct"}])
  BY <1>1, <1>5 DEF RInv, RType
<1>7. RType'
  BY <1>2, <1>3, <1>6 DEF RInv, RType
<1> QED BY <1>2, <1>7
        DEF RInv, LearnedNoted, PassedNoted, LearnedIsProxied

\* The type of the Write of an answer.
Writes == [at : {"idle", "record"},
           ips : SUBSET Hosts, todo : SUBSET Hosts]

\* An answer arrives: nothing of it has been passed.
LEMMA WriteStartRInv ==
  ASSUME RInv, NEW s \in Servers, NEW ips \in SUBSET Hosts,
         WriteStart(s, ips)
  PROVE  RInv'
<1> DEFINE w == [at |-> "record", ips |-> ips, todo |-> ips]
<1>1. /\ wr' = [wr EXCEPT ![s] = w]
      /\ UNCHANGED <<list, queries, allIP, learned, forgotten, flows>>
  BY DEF WriteStart
<1>2. w \in Writes /\ w.ips \ w.todo = {}
  BY DEF Writes
<1> HIDE DEF w
<1>3. wr \in [Servers -> Writes]
  BY DEF RInv, RType, Writes
<1>4. /\ wr' \in [Servers -> Writes] /\ wr'[s] = w
      /\ \A x \in Servers : x # s => wr'[x] = wr[x]
  BY <1>1, <1>2, <1>3
<1>5. RType'
  BY <1>1, <1>4 DEF RInv, RType, Writes
<1>6. PassedNoted'
  BY <1>1, <1>2, <1>4 DEF RInv, PassedNoted
<1> QED BY <1>1, <1>5, <1>6 DEF RInv, LearnedNoted, LearnedIsProxied

\* Record: what it passes it notes.
LEMMA RecordRInv ==
  ASSUME RInv, NEW s \in Servers, NEW h \in Hosts, Record(s, h)
  PROVE  RInv'
<1>1. /\ wr' = [wr EXCEPT ![s].todo = wr[s].todo \ {h}]
      /\ allIP' = allIP \cup {h}
      /\ UNCHANGED <<list, queries, learned, forgotten, flows>>
  BY DEF Record
<1>2. wr \in [Servers -> Writes]
  BY DEF RInv, RType, Writes
<1>3. /\ wr' \in [Servers -> Writes]
      /\ wr'[s].ips = wr[s].ips /\ wr'[s].todo = wr[s].todo \ {h}
      /\ \A x \in Servers : x # s => wr'[x] = wr[x]
  BY <1>1, <1>2 DEF Writes
<1>4. RType'
  BY <1>1, <1>3 DEF RInv, RType, Writes
<1>5. PassedNoted'
  BY <1>1, <1>3 DEF RInv, PassedNoted
<1> QED BY <1>1, <1>4, <1>5 DEF RInv, LearnedNoted, LearnedIsProxied

\* d.base.Write, when the loop has passed every address of the answer.
LEMMA BaseWriteRInv ==
  ASSUME RInv, NEW s \in Servers, BaseWrite(s)
  PROVE  RInv'
<1>1. /\ wr' = [wr EXCEPT ![s] = NoWrite] /\ wr[s].todo = {}
      /\ learned' = learned \cup wr[s].ips
      /\ forgotten' = forgotten \ (wr[s].ips \cap allIP)
      /\ UNCHANGED <<list, queries, allIP, flows>>
  BY DEF BaseWrite, Recorded
<1>2. wr \in [Servers -> Writes]
  BY DEF RInv, RType, Writes
<1>3. NoWrite \in Writes /\ NoWrite.ips \ NoWrite.todo = {}
  BY DEF NoWrite, Writes
<1>4. /\ wr' \in [Servers -> Writes] /\ wr'[s] = NoWrite
      /\ \A x \in Servers : x # s => wr'[x] = wr[x]
  BY <1>1, <1>2, <1>3
<1>5. allIP' \cup forgotten' = allIP \cup forgotten
  BY <1>1
<1>6. RType'
  BY <1>1, <1>4 DEF RInv, RType, Writes
<1>7. LearnedNoted'
  <2>1. wr[s].ips \subseteq allIP \cup forgotten
    BY <1>1 DEF RInv, PassedNoted
  <2> QED BY <1>1, <1>5, <2>1 DEF RInv, LearnedNoted
<1>8. PassedNoted'
  BY <1>3, <1>4, <1>5 DEF RInv, PassedNoted
<1> QED BY <1>1, <1>6, <1>7, <1>8 DEF RInv, LearnedIsProxied

\* d.base.Write fails: the client has learned nothing.
LEMMA BaseWriteFailRInv ==
  ASSUME RInv, NEW s \in Servers, BaseWriteFail(s)
  PROVE  RInv'
<1>1. /\ wr' = [wr EXCEPT ![s] = NoWrite]
      /\ UNCHANGED <<list, queries, allIP, learned, forgotten, flows>>
  BY DEF BaseWriteFail
<1>2. wr \in [Servers -> Writes]
  BY DEF RInv, RType, Writes
<1>3. NoWrite \in Writes /\ NoWrite.ips \ NoWrite.todo = {}
  BY DEF NoWrite, Writes
<1>4. /\ wr' \in [Servers -> Writes] /\ wr'[s] = NoWrite
      /\ \A x \in Servers : x # s => wr'[x] = wr[x]
  BY <1>1, <1>2, <1>3
<1>5. RType'
  BY <1>1, <1>4 DEF RInv, RType, Writes
<1>6. PassedNoted'
  BY <1>1, <1>3, <1>4 DEF RInv, PassedNoted
<1> QED BY <1>1, <1>5, <1>6 DEF RInv, LearnedNoted, LearnedIsProxied

\* Every step keeps RInv.
LEMMA NextRInv == RInv /\ [Next]_rvars => RInv'
<1> SUFFICES ASSUME RInv, [Next]_rvars PROVE RInv'
  OBVIOUS
<1>1. CASE UNCHANGED rvars
  BY <1>1 DEF rvars, RInv, RType, LearnedNoted, PassedNoted,
              LearnedIsProxied
<1>2. ASSUME NEW k \in Lists, NEW s \in Servers, Add(k, s) PROVE RInv'
  <2>1. \A x \in DOMAIN list' : list'[x] \in Servers
    BY <1>2 DEF Add, RInv, RType
  <2> QED BY <1>2, <2>1 DEF Add, RInv, RType, LearnedNoted, PassedNoted,
                             LearnedIsProxied
<1>3. CASE Start
  BY <1>3 DEF Start, RInv, RType, LearnedNoted, PassedNoted,
              LearnedIsProxied
<1>4. CASE \E h \in Hosts, p \in {"53", "*"}, sch \in {"tcp", "udp"} :
             OnAccept(sch, p, h)
  BY <1>4, OnAcceptRInv
<1>5. CASE \E d \in Names : Query(d)
  BY <1>5, QueryRInv
<1>6. ASSUME NEW s \in Servers, Answering(s) PROVE RInv'
  BY <1>6, RecordRInv, BaseWriteRInv, BaseWriteFailRInv DEF Answering
<1>7. ASSUME NEW s \in Servers, NEW ips \in SUBSET Hosts, WriteStart(s, ips)
      PROVE  RInv'
  BY <1>7, WriteStartRInv
<1>8. CASE Clear
  <2>1. /\ UNCHANGED <<list, queries, wr, learned, flows>>
        /\ allIP \cup forgotten \subseteq allIP' \cup forgotten'
    BY <1>8 DEF Clear
  <2> QED BY <2>1 DEF RInv, RType, LearnedNoted, PassedNoted,
                      LearnedIsProxied
<1> QED BY <1>1, <1>2, <1>3, <1>4, <1>5, <1>6, <1>7, <1>8 DEF Next

\* A client that connects to an address it has learned from an answer, and no
\* Clear has taken it away since, is sent to the proxy by PACProcessor: the
\* order of Record and base.Write in DNSRecordConn.Write is enough, however
\* answers of the servers and flows interleave.
THEOREM LearnedAlwaysProxied == Spec => []LearnedIsProxied
<1>1. Init => RInv
  BY InitRInv
<1>2. RInv /\ [Next]_rvars => RInv'
  BY NextRInv
<1>3. RInv => LearnedIsProxied
  BY DEF RInv
<1> QED BY <1>1, <1>2, <1>3, PTL DEF Spec

-----------------------------------------------------------------------------
(* DNSGFW.Find.                                                            *)

\* The entries of the list have two labels, and an address is not the name of
\* a server.
PlainLists == (\A k \in Lists : Len(k) = 2) /\ "local" \notin Hosts

\* What ListedNameFound says of a query for d that goes to t.
Rightly(d, t) ==
  LET c == {k \in DOMAIN list : Covers(k, d)}
  IN  Len(d) = 3 =>
        /\ c # {} /\ (\A k \in DOMAIN list : list[k] = "proxy") => t = "proxy"
        /\ (\A k \in DOMAIN list : <<k[1], d[2]>> \notin EndsIn) /\ c = {} =>
             t = "direct"

\* The list does not change once queries arrive, and r.allIP has addresses.
Frozen ==
  /\ dnsFlow \/ queries # <<>> => serving
  /\ DOMAIN list \subseteq Lists /\ allIP \subseteq Hosts

\* The invariant of the list.
LInv == RInv /\ Frozen /\ ListedNameFound

\* An entry of two labels is a parent of a name of three when its labels are
\* the last two.
LEMMA CoversTwo ==
  ASSUME NEW S, NEW d \in Seq(S), NEW k \in Seq(S), Len(d) = 3, Len(k) = 2
  PROVE  Covers(k, d) <=> k[1] = d[2] /\ k[2] = d[3]
<1> DEFINE s == SubSeq(d, 2, 3)
<1>1. s \in Seq(S) /\ Len(s) = 2 /\ s[1] = d[2] /\ s[2] = d[3]
  <2>1. \A i \in 2 .. 3 : d[i] \in S
    <3>1. \A i \in 1 .. Len(d) : d[i] \in S
      OBVIOUS
    <3> QED BY <3>1
  <2>2. /\ s \in Seq(S) /\ Len(s) = IF 2 <= 3 THEN 3 - 2 + 1 ELSE 0
        /\ \A i \in 1 .. 3 - 2 + 1 : s[i] = d[2 + i - 1]
    BY <2>1, SubSeqProperties
  <2> HIDE DEF s
  <2>3. s[1] = d[2 + 1 - 1] /\ s[2] = d[2 + 2 - 1]
    BY <2>2
  <2> QED BY <2>2, <2>3
<1>2. Len(k) < Len(d) /\ Len(d) - Len(k) + 1 = 2
  OBVIOUS
<1>3. Covers(k, d) <=> k = s
  BY <1>2 DEF Covers
<1> HIDE DEF s
<1>4. k[1] = s[1] /\ k[2] = s[2] => k = s
  BY <1>1
<1> QED BY <1>1, <1>3, <1>4

\* Find takes such an entry for such a name when the text of its first label
\* ends in the second label of the name, and the others are equal.
LEMMA MatchesTwo ==
  ASSUME NEW S, NEW d \in Seq(S), NEW k \in Seq(S), Len(d) = 3, Len(k) = 2
  PROVE  Matches(k, d) <=> TextEnds(k[1], d[2]) /\ k[2] = d[3]
<1> DEFINE p == Tail(d)
<1>1. Parts(d) = p
  BY DEF Parts
<1>2. p \in Seq(S) /\ Len(p) = 2 /\ p[1] = d[2] /\ p[2] = d[3] /\ p # <<>>
  <2>1. d # <<>>
    <3>1. d = <<>> => Len(d) = 0
      OBVIOUS
    <3> QED BY <3>1
  <2>2. /\ p \in Seq(S) /\ Len(p) = 3 - 1
        /\ \A i \in 1 .. Len(p) : p[i] = d[i + 1]
    BY <2>1, HeadTailProperties
  <2> HIDE DEF p
  <2>3. p # <<>> /\ Len(p) = 2
    <3>1. p = <<>> => Len(p) = 0
      OBVIOUS
    <3> QED BY <2>2, <3>1
  <2>4. p[1] = d[1 + 1] /\ p[2] = d[2 + 1]
    BY <2>2, <2>3
  <2> QED BY <2>2, <2>3, <2>4
<1> HIDE DEF p
<1>3. Len(k) - Len(p) = 0
  BY <1>2
<1>4. Matches(k, d) <=> /\ TextEnds(k[0 + 1], p[1])
                        /\ \A i \in 2 .. 2 : k[0 + i] = p[i]
  BY <1>1, <1>2, <1>3 DEF Matches
<1> QED BY <1>2, <1>4

\* A query goes where ListedNameFound says.
LEMMA FindRight ==
  ASSUME PlainLists, RType, Frozen, NEW d \in Names, NEW s \in Find(d)
  PROVE  Rightly(d, Pac(s))
<1> SUFFICES ASSUME Len(d) = 3
             PROVE  LET c == {k \in DOMAIN list : Covers(k, d)}
                    IN  /\ c # {} /\ (\A k \in DOMAIN list : list[k] = "proxy") =>
                             Pac(s) = "proxy"
                        /\ (\A k \in DOMAIN list : <<k[1], d[2]>> \notin EndsIn)
                             /\ c = {} => Pac(s) = "direct"
  BY DEF Rightly
<1>1. d \in Seq(STRING)
  BY RoutingAssumption
<1>2. \A k \in DOMAIN list : k \in Seq(STRING) /\ Len(k) = 2
  BY RoutingAssumption DEF PlainLists, Frozen
<1>3. ASSUME NEW k \in DOMAIN list, Covers(k, d),
             \A x \in DOMAIN list : list[x] = "proxy"
      PROVE  Pac(s) = "proxy"
  <2>1. Matches(k, d)
    BY <1>1, <1>2, <1>3, CoversTwo, MatchesTwo DEF TextEnds
  <2>2. s = "proxy"
    BY <1>3, <2>1 DEF Find
  <2> QED BY <2>2 DEF Pac
<1>4. ASSUME \A k \in DOMAIN list : <<k[1], d[2]>> \notin EndsIn,
             \A k \in DOMAIN list : ~Covers(k, d)
      PROVE  Pac(s) = "direct"
  <2>1. \A k \in DOMAIN list : ~Matches(k, d)
    BY <1>1, <1>2, <1>4, CoversTwo, MatchesTwo DEF TextEnds
  <2>2. s = "local"
    BY <2>1 DEF Find
  <2>3. s \notin allIP
    BY <2>2 DEF PlainLists, Frozen
  <2> QED BY <2>2, <2>3 DEF Pac
<1> QED BY <1>3, <1>4

\* ListedNameFound is about each query by itself.
LEMMA ListedIsRightly ==
  ListedNameFound <=>
    \A i \in 1 .. Len(queries) : Rightly(queries[i].name, queries[i].to)
BY DEF ListedNameFound, Rightly

\* A step that adds no query and no entry.
LEMMA FrameListed ==
  ASSUME ListedNameFound, UNCHANGED <<list, queries>>
  PROVE  ListedNameFound'
BY DEF ListedNameFound

\* A new query.
LEMMA QueryListed ==
  ASSUME PlainLists, LInv, NEW d \in Names, Query(d)
  PROVE  ListedNameFound'
<1>1. PICK s \in Find(d) :
        queries' = Append(queries, [name |-> d, via |-> s, to |-> Pac(s)])
  BY DEF Query
<1> DEFINE r == [name |-> d, via |-> s, to |-> Pac(s)]
<1>2. r.name = d /\ r.to = Pac(s)
  OBVIOUS
<1>3. queries' = Append(queries, r) /\ UNCHANGED list
  BY <1>1 DEF Query
<1> HIDE DEF r
<1>4. \E T : queries \in Seq(T)
  BY DEF LInv, RInv, RType
<1>5. /\ Len(queries) \in Nat /\ Len(queries') = Len(queries) + 1
      /\ \A i \in 1 .. Len(queries) : queries'[i] = queries[i]
      /\ queries'[Len(queries) + 1] = r
  BY <1>3, <1>4
<1>6. Rightly(d, Pac(s))
  BY FindRight DEF LInv, RInv
<1>7. ASSUME NEW i \in 1 .. Len(queries')
      PROVE  Rightly(queries'[i].name, queries'[i].to)
  <2>1. i \in 1 .. Len(queries) \/ i = Len(queries) + 1
    BY <1>5
  <2>2. CASE i = Len(queries) + 1
    BY <1>2, <1>5, <1>6, <2>2
  <2>3. CASE i \in 1 .. Len(queries)
    BY <1>5, <2>3, ListedIsRightly DEF LInv
  <2> QED BY <2>1, <2>2, <2>3
<1> QED BY <1>3, <1>7 DEF ListedNameFound, Rightly

\* Every step keeps LInv.
LEMMA NextLInv ==
  ASSUME PlainLists, LInv, [Next]_rvars
  PROVE  LInv'
<1>0. RInv /\ RInv' /\ Frozen /\ ListedNameFound
  BY NextRInv DEF LInv
<1> SUFFICES Frozen' /\ ListedNameFound'
  BY <1>0 DEF LInv
<1>1. CASE UNCHANGED <<list, queries, dnsFlow, serving, allIP>>
  BY <1>0, <1>1, FrameListed DEF Frozen
<1>2. ASSUME NEW k \in Lists, NEW s \in Servers, Add(k, s)
      PROVE  Frozen' /\ ListedNameFound'
  <2>1. queries = <<>> /\ queries' = queries
    BY <1>0, <1>2 DEF Add, Frozen
  <2> QED BY <1>0, <1>2, <2>1 DEF Add, Frozen, ListedNameFound
<1>3. CASE Start
  BY <1>0, <1>3, FrameListed DEF Start, Frozen
<1>4. ASSUME NEW h \in Hosts, NEW p \in {"53", "*"}, NEW sch \in {"tcp", "udp"},
             OnAccept(sch, p, h)
      PROVE  Frozen' /\ ListedNameFound'
  BY <1>0, <1>4, FrameListed DEF OnAccept, Frozen
<1>5. ASSUME NEW d \in Names, Query(d)
      PROVE  Frozen' /\ ListedNameFound'
  <2>1. dnsFlow /\ UNCHANGED <<list, dnsFlow, serving, allIP>>
    BY <1>5 DEF Query
  <2> QED BY <1>0, <1>5, <2>1, QueryListed DEF Frozen
<1>6. ASSUME NEW s \in Servers, NEW h \in Hosts, Record(s, h)
      PROVE  Frozen' /\ ListedNameFound'
  BY <1>0, <1>6, FrameListed DEF Record, Frozen
<1>7. ASSUME NEW s \in Servers, BaseWrite(s) \/ BaseWriteFail(s)
      PROVE  Frozen' /\ ListedNameFound'
  BY <1>1, <1>7 DEF BaseWrite, BaseWriteFail
<1>8. ASSUME NEW s \in Servers, NEW ips \in SUBSET Hosts, WriteStart(s, ips)
      PROVE  Frozen' /\ ListedNameFound'
  BY <1>1, <1>8 DEF WriteStart
<1>9. CASE Clear
  BY <1>0, <1>9, FrameListed DEF Clear, Frozen
<1>10. CASE UNCHANGED rvars
  BY <1>1, <1>10 DEF rvars
<1> QED BY <1>2, <1>3, <1>4, <1>5, <1>6, <1>7, <1>8, <1>9, <1>10
        DEF Next, Answering

\* DNSGFW.Find agrees with the reference for lists of two-label entries of any
\* length and any names: a name that an entry covers goes to the proxy when
\* every entry says so, and one that none covers goes the direct way, unless
\* the text of an entry ends in its domain.
THEOREM ListedAlwaysFound == PlainLists => (Spec => []ListedNameFound)
<1> SUFFICES ASSUME PlainLists
             PROVE  Spec => []ListedNameFound
  OBVIOUS
<1>1. Init => LInv
  BY InitRInv DEF Init, LInv, Frozen, ListedNameFound
<1>2. LInv /\ [Next]_rvars => LInv'
  BY NextLInv
<1>3. LInv => ListedNameFound
  BY DEF LInv
<1> QED BY <1>1, <1>2, <1>3, PTL DEF Spec
=============================================================================
