------------------------------ MODULE Routing ------------------------------
(***************************************************************************)
(* Where csocks sends a flow (csocks/csocks.go): LwipHandler hands each    *)
(* PCB to SchemeDistProcessor, PortDistProcessor and PACProcessor;         *)
(* DNSGFW.Find chooses the server of a DNS query; DNSRecordConn notes the  *)
(* addresses of every answer before the client gets it, and PACProcessor   *)
(* sends connections to noted addresses to the proxy.                      *)
(*                                                                         *)
(* A name is the sequence of its labels; in a DNS message it ends with a   *)
(* dot.  DNSProcessor is reduced here to one queue of queries per server;  *)
(* DnsProcessor models its connections.  The servers and the goroutine     *)
(* that writes the answers of each are external.                           *)
(***************************************************************************)
EXTENDS Integers, Sequences

CONSTANTS
  Names,      \* domain names clients ask for, sequences of labels
  Lists,      \* entries a GFW list may have, sequences of labels
  EndsIn,     \* <<a, b>>: the text of label a ends in the text of label b
  Hosts,      \* addresses
  MaxQueries, \* bound: queries
  MaxFlows,   \* bound: flows
  MaxClears   \* bound: calls of Clear

ASSUME RoutingAssumption ==
  /\ \A n \in Names \cup Lists : n \in Seq(STRING) /\ n # <<>>
  /\ MaxQueries \in Nat /\ MaxFlows \in Nat /\ MaxClears \in Nat

Servers == {"proxy", "local"}   \* dns://proxy, dns://local

VARIABLES
  list,       \* d.list without "*", which is dns://local
  serving,    \* lwipcs.Event is set and flows arrive
  dnsFlow,    \* a UDP flow to port 53 has been accepted
  queries,    \* history: the queries, [name, via]
  pending,    \* pending[s]: how many queries server s has not answered
  wr,         \* wr[s]: the Write of an answer, [at, ips, todo]
  allIP,      \* the addresses in r.allIP
  clears,     \* calls of Clear so far
  learned,    \* history: addresses in answers the client has got
  forgotten,  \* history: those of them a Clear has taken out of allIP
  flows       \* history: the flows, [host, to, known]

rvars == <<list, serving, dnsFlow, queries, pending, wr, allIP, clears,
           learned, forgotten, flows>>

NoWrite == [at |-> "idle", ips |-> {}, todo |-> {}]

-----------------------------------------------------------------------------
(* DNSGFW.                                                                 *)

\* Mutant: the first label is kept.
PartsAll(d) == d

\* strings.SplitAfterN(domain, ".", 3) and parts[1:]: a name of three or more
\* labels loses its first one.  The dot at the end leaves an empty part for a
\* shorter name, whose pattern then ends in a dot, as no entry does.
Parts(d) == IF Len(d) >= 3 THEN Tail(d) ELSE <<>>

TextEnds(a, b) == a = b \/ <<a, b>> \in EndsIn

\* pattern.MatchString(key): the entry ends in the text of the parts, not
\* necessarily at the start of a label.
Matches(k, d) ==
  LET p == Parts(d)
      o == Len(k) - Len(p)
  IN  /\ p # <<>> /\ o >= 0
      /\ TextEnds(k[o + 1], p[1])
      /\ \A i \in 2 .. Len(p) : k[o + i] = p[i]

\* What Find may return: the loop takes the entries of the map in any order.
Find(d) ==
  LET m == {k \in DOMAIN list : Matches(k, d)}
  IN  IF m # {} THEN {list[k] : k \in m} ELSE {"local"}

\* DNSGFW.Add, by the program that sets up the handler.
Add(k, s) ==
  /\ ~serving
  /\ list' = [x \in DOMAIN list \cup {k} |-> IF x = k THEN s ELSE list[x]]
  /\ UNCHANGED <<serving, dnsFlow, queries, pending, wr, allIP, clears,
                 learned, forgotten, flows>>

\* lwipcs.Event = handler
Start ==
  /\ ~serving /\ serving' = TRUE
  /\ UNCHANGED <<list, dnsFlow, queries, pending, wr, allIP, clears, learned,
                 forgotten, flows>>

-----------------------------------------------------------------------------
(* The processors.                                                         *)

\* PACProcessor.ProcConn and IsRecorded.
Pac(h) == IF h = "proxy" \/ h \in allIP THEN "proxy" ELSE "direct"

\* PortDistProcessor.ProcConn, with the handlers "53" and "*".
PortDist(port, h) == IF port = "53" THEN "dns" ELSE Pac(h)

\* SchemeDistProcessor.ProcConn, with the handlers "tcp" and "udp".
SchemeDist(scheme, port, h) ==
  IF scheme = "tcp" THEN Pac(h) ELSE PortDist(port, h)

\* LwipHandler.OnAccept.
OnAccept(scheme, port, h) ==
  LET to == SchemeDist(scheme, port, h) IN
  /\ serving /\ Len(flows) < MaxFlows
  /\ flows' = Append(flows, [host |-> h, to |-> to,
                             known |-> h \in learned \ forgotten])
  /\ dnsFlow' = (dnsFlow \/ to = "dns")
  /\ UNCHANGED <<list, serving, queries, pending, wr, allIP, clears, learned,
                 forgotten>>

\* A query on the DNS flow goes to the server that Find names.  For the DNS
\* connection itself PACProcessor sees the host "proxy" or "local".
Query(d) ==
  /\ dnsFlow /\ Len(queries) < MaxQueries
  /\ \E s \in Find(d) :
       /\ queries' = Append(queries, [name |-> d, via |-> s, to |-> Pac(s)])
       /\ pending' = [pending EXCEPT ![s] = @ + 1]
  /\ UNCHANGED <<list, serving, dnsFlow, wr, allIP, clears, learned,
                 forgotten, flows>>

-----------------------------------------------------------------------------
(* DNSRecordConn.Write and DNSRecordProcessor.                             *)

\* A server answers with the addresses ips; msg.Unpack takes them out.  For an
\* answer without A records, or one that Unpack rejects, ips is empty.
WriteStart(s, ips) ==
  /\ wr[s].at = "idle" /\ pending[s] > 0
  /\ wr' = [wr EXCEPT ![s] = [at |-> "record", ips |-> ips, todo |-> ips]]
  /\ pending' = [pending EXCEPT ![s] = @ - 1]
  /\ UNCHANGED <<list, serving, dnsFlow, queries, allIP, clears, learned,
                 forgotten, flows>>

\* d.p.Record(a.A.String(), a.Hdr.Name)
Record(s, h) ==
  /\ wr[s].at = "record" /\ h \in wr[s].todo
  /\ wr' = [wr EXCEPT ![s].todo = @ \ {h}]
  /\ allIP' = allIP \cup {h}
  /\ UNCHANGED <<list, serving, dnsFlow, queries, pending, clears, learned,
                 forgotten, flows>>

\* Mutant: the answer is passed on before its addresses are noted.
RecordedAny(s) == TRUE

\* The loop over msg.Answer has ended.
Recorded(s) == wr[s].todo = {}

\* d.base.Write(p) returns: the client has got the answer.  While sendQueue is
\* full it may wait here for any time.
BaseWrite(s) ==
  /\ wr[s].at = "record" /\ Recorded(s)
  /\ learned' = learned \cup wr[s].ips
  /\ forgotten' = forgotten \ (wr[s].ips \cap allIP)
  /\ wr' = [wr EXCEPT ![s] = NoWrite]
  /\ UNCHANGED <<list, serving, dnsFlow, queries, pending, allIP, clears,
                 flows>>

\* d.base.Write(p) returns an error: the answer is lost, what it taught is not.
BaseWriteFail(s) ==
  /\ wr[s].at = "record" /\ Recorded(s)
  /\ wr' = [wr EXCEPT ![s] = NoWrite]
  /\ UNCHANGED <<list, serving, dnsFlow, queries, pending, allIP, clears,
                 learned, forgotten, flows>>

\* DNSRecordProcessor.Clear.
Clear ==
  /\ clears < MaxClears /\ clears' = clears + 1
  /\ forgotten' = forgotten \cup learned \cup allIP
  /\ allIP' = {}
  /\ UNCHANGED <<list, serving, dnsFlow, queries, pending, wr, learned,
                 flows>>

-----------------------------------------------------------------------------
Init ==
  /\ list = <<>> /\ serving = FALSE /\ dnsFlow = FALSE
  /\ queries = <<>> /\ pending = [s \in Servers |-> 0]
  /\ wr = [s \in Servers |-> NoWrite]
  /\ allIP = {} /\ clears = 0
  /\ learned = {} /\ forgotten = {} /\ flows = <<>>

Answering(s) ==
  BaseWrite(s) \/ BaseWriteFail(s) \/ \E h \in Hosts : Record(s, h)

Next ==
  \/ \E k \in Lists, s \in Servers : Add(k, s)
  \/ Start
  \/ \E h \in Hosts, p \in {"53", "*"}, sch \in {"tcp", "udp"} :
       OnAccept(sch, p, h)
  \/ \E d \in Names : Query(d)
  \/ \E s \in Servers :
       Answering(s) \/ \E ips \in SUBSET Hosts : WriteStart(s, ips)
  \/ Clear

Spec == Init /\ [][Next]_rvars

-----------------------------------------------------------------------------
(* Properties.                                                             *)

\* DNSRecordConn.Write notes the addresses of an answer before it passes the
\* answer on: a client that connects to an address it has learned is sent to
\* the proxy, whatever other answers and flows are handled at the time.
LearnedIsProxied ==
  \A i \in 1 .. Len(flows) :
    flows[i].known => flows[i].to \in {"proxy", "dns"}

\* Reference: entry k is a parent domain of name d.
Covers(k, d) ==
  /\ Len(k) < Len(d)
  /\ k = SubSeq(d, Len(d) - Len(k) + 1, Len(d))

\* DNSGFW.Find agrees with the reference on names of three labels and entries
\* of two: a query goes to a server an entry names, and never to the default
\* one, when an entry covers the name; it goes to the default one when no
\* entry covers it, unless the text of an entry ends in the name's domain.
ListedNameFound ==
  \A i \in 1 .. Len(queries) :
    LET d == queries[i].name
        c == {k \in DOMAIN list : Covers(k, d)}
    IN  Len(d) = 3 =>
          /\ c # {} /\ (\A k \in DOMAIN list : list[k] = "proxy") =>
               queries[i].to = "proxy"
          /\ (\A k \in DOMAIN list : <<k[1], d[2]>> \notin EndsIn) /\ c = {} =>
               queries[i].to = "direct"
=============================================================================
