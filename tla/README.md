# Verification of lwip-cs in TLA+

lwip-cs runs an lwIP TCP/IP stack inside a Go program and gives the program an
ordinary `net.Conn`-like object for every TCP connection and every UDP flow
that enters through a tap device. This directory models the parts of it that
are concurrent or keep state across callbacks, checks them with TLC, and proves
the central invariants with TLAPS.

To run it: `tlc -config bridge.cfg MCTcpBridge`, and so on with the module and
cfg of every run of `PROJECT.json`; `tlapm TcpBridgeProofs.tla` (about six
minutes) and likewise the other seven `*Proofs.tla` (at most a minute each) for
the proofs.

## 1. The system

| Part | Source | State | Operations |
|---|---|---|---|
| TCP bridge, Go side | `lwipcs.go` | per `PCB`: `err`, `lck`, `recvQueued`, `sendWait`, `sendCount`, `pcb`, `state`; package: `tcpPcbs`, `sendQueue`, `recvedQueue`, `closeQueue` | `Read`, `Write`, `Close`; callbacks `go_tcp_accept_h`, `go_tcp_recv_h`, `go_tcp_send_done_h`, `go_tcp_close_h`; the select loop `go_netif_proc` |
| TCP bridge, C side | `src/tcp.c`, `lwipcs.c` | `cs_tcp_raw_state` per connection: `state`, `pcb`, `p` | `cs_tcp_raw_accept/recv/error/poll/close/send`, `cs_tcp_send`, `cs_tcp_char_send` |
| UDP bridge | `lwipcs.go`, `src/udp.c` | `udpPcbs`, the PCBs | `go_udp_recv_h`, `Read`, `Write`, `Close`, `cs_udp_char_sendto` |
| Netif loop | `lwipcs.go`, `src/cs.c` | `inputQueue`, `inputQueue2`, `runnning` | `go_netif_read`, `go_input_h`, `cs_netif_input`, output |
| Echo application | `echo/echo.go` | one `io.Copy` goroutine per PCB | `OnAccept` |
| DNS processor | `csocks/csocks.go` | `conns`, per `DNSConn`: `readQueued`, `closed` | `proc`, `Read`, `Close` |
| Routing | `csocks/csocks.go` | handler maps, `DNSGFW.list` | `LwipHandler.OnAccept`, `SchemeDistProcessor`, `PortDistProcessor`, `PACProcessor`, `DNSGFW.Find`, `Add` |
| DNS records | `csocks/csocks.go` | `allIP` | `DNSRecordConn.Write`, `Record`, `IsRecorded`, `Clear` |
| Address conversion | `src/cs.c` | none | `cs_ip_len`, `cs_ip_get` |
| lwIP system port | `src/sys.c` | per mailbox: `first`, `last`, `msgs`, three semaphores, `wait_send`; per semaphore: `c`, mutex, condition variable; global: `lwprot_*`, the core's holder, the list `threads` | `sys_mbox_*`, `sys_arch_mbox_*`, `sys_arch_sem_wait`, `sys_sem_signal`, `sys_arch_protect`, `sys_arch_unprotect`, `sys_lock_tcpip_core`, `sys_check_core_locking`, `sys_thread_new` |
| Drivers | `src/test.c`, `echo/test`, `csocks/pc`, `csocks/mobile`, `test` | tap device | start-up |
| lwIP | not in the repository | `tcp_pcb` blocks, pbufs | the callbacks it makes |

Threads. **Proc** (`go_netif_proc`) is the one goroutine that runs lwIP: it
takes frames, close requests, receive credits and data to send from four
channels, and every C callback and every exported `go_*_h` function runs inside
it. A reader goroutine feeds `inputQueue`. Application goroutines call the
methods of a PCB, and talk to Proc only through the package's channels, the
PCB's channels, `p.lck` and the unprotected fields `p.err` and `p.sendCount`.

The system port is different. `lwipopts.h` sets `NO_SYS` to 1, so of `sys.c` only
the clock functions are compiled into this program. The models of the port are
about the code that a build with `NO_SYS` 0 would run, where lwIP has threads of
its own; they say nothing about the Go program above, and no other module uses
them.

What is hard here: Proc must never block on something only an application
goroutine can release while that goroutine waits for Proc; `p.err` is read
without the lock; in the system port one token of a binary semaphore must do for
many waiting threads, and two words are read without their lock; the C heap, the lwIP block pool and the Go map refer to each
other by raw addresses that are reused; data is handed over in several places
(window, queue, es->p, tcp_write) each of which may be full or fail; UDP PCBs
and DNSConns are found by a key that outlives them. The list with lines is
`hazards` in `PROJECT.json`.

What makes the parts correct: a Write completes exactly once and only when its
data was taken; the receive window is neither leaked nor overrun; the registry
and the heap agree; nothing is freed twice and no closed channel is sent on;
bytes come out in order, without gap or repetition; every frame, chunk, datagram
and query is eventually handled; a close takes effect on the right object; an
address is noted before the client can connect to it.

## 2. The modules

| Module | What it models |
|---|---|
| `TcpBridge` | TCP bridge, both sides, with lwIP's part as external operators |
| `TcpEcho` | the echo application composed with `TcpBridge` (EXTENDS, application actions replaced by those of `io.Copy`) |
| `EchoService` | abstract specification: a service that returns each client's segments in order until the connection is closed |
| `IpAddr` | `cs_ip_len` and `cs_ip_get`: the bytes the Go side gets for an lwIP address |
| `UdpBridge` | UDP bridge with the echo application and goroutines that Close; its keys are made by `IpAddr` |
| `DnsProcessor` | DNS processor with upstream goroutines that read and close |
| `NetifLoop` | from the tap device to lwIP: reader goroutine, both input channels, Proc, `go_input_h`, `cs_netif_input`; calls into lwIP that may not return |
| `Routing` | the chain of processors of `LwipHandler`, `DNSGFW.Find`, the record of answers and `PACProcessor` |
| `SysMbox` | mailbox of the system port: ring, semaphores, post, trypost, fetch, tryfetch, free |
| `Mailbox` | abstract specification of `SysMbox`: a bounded FIFO |
| `SysSem` | semaphore of the system port: count, pthread mutex, condition variable, timeouts |
| `BinarySemaphore` | abstract specification of `SysSem`, and what `SysMbox` takes a semaphore to be |
| `SysLocks` | `sys_arch_protect`, the core lock and its check, the list of threads |
| `TcpBridgeProofs`, `UdpProofs`, `DnsProofs`, `NetifProofs`, `RoutingProofs`, `SysMboxProofs`, `SysSemProofs`, `SysLocksProofs` | inductive invariants and theorems of the module each extends |
| `MCTcpBridge`, `MCRouting`, `MCUdp` | symmetry set; names and list entries; remote addresses for TLC |

Names are the source's where TLA+ allows it (`recvQ` for `recvQueued`, `es` for
`cs_tcp_raw_state`, `conns`, `closed`, `sendWait`, `tcpPcbs`). `map` in
`PROJECT.json` gives the lines behind every definition. Operators whose comment
starts with "Mutant:" are deliberately wrong versions of the definition that
follows them. Each is used by an entry of `mutants`, which shows that a
property would notice that bug.

**Granularity.** A step is what one thread does between two points where it can
block or where another thread can see the difference. So a callback that ends
in a channel send is two steps (the test of `p.err`, then the send: that gap is
where `bridge_panic` lives), `cs_tcp_raw_close` is two steps around `p.lck`,
`Write` is four. Variable `proc` is the program counter of Proc.

**lwIP.** Blocks of the pool with a state, the connection they carry, the
callback argument, counts of unread and unacknowledged segments, and
`refused_data`. Data arrives in order, ACKs cover whole segments, FIN and RST
arrive at any time, `tcp_alloc` recycles blocks the way lwIP does (free,
TIME_WAIT, LAST_ACK, then abort of an active one). Nothing in the repository
calls `sys_check_timeouts`, so there are no timers: no poll callback, no
retransmission, no TIME_WAIT expiry. The constant `Env` says which of FIN, RST,
exhaustion of blocks, failing allocations and read buffers that are too small
may happen. Sequence numbers, loss
in the network and out-of-order segments are below the callbacks and left out.

**Faults.** A send on a closed channel ends the process, and so does a Read with
a buffer that is too small (`ReadSmall`) or a DNS message without a question
(`ProcNoQuestion`); a second free corrupts lwIP's pools. All set `fault`, after
which the model stops. `UdpBridge` has no `ReadSmall`: its reader is `io.Copy`,
whose 32 KiB hold any datagram that lwIP reassembles from ten fragments.

**Calls that need not return.** `NetifLoop` does not look into lwIP. The
callbacks that run inside `netif->input` or `Send` send on channels and take
`p.lck` (`echo_stuck` shows one that hangs there), so `NetifInput` and
`ServeDone` have no fairness, and `FrameHandled` has the return of these calls
as its premise. The pool is shared with sends (`tcp.c:339`, `udp.c:118`), so
that `PbufAlloc` may fail at any time. In `Routing`, `base.Write` may fail
(`BaseWriteFail`) or never return. In `DnsProcessor` an upstream may stop
reading at any time (`UpStop`) or read with a small buffer, which loses the
query (`lost`).

**Data.** A chunk, a datagram, a frame or a query is a number, so that order
and identity can be stated; one Write is a chain of `Segs` pbufs. Windows are
counted in chunks. A slice is a reference where the code shares it (`buf` in
`UdpBridge`, `mem` in `NetifLoop`). A domain name is the sequence of its labels;
that one label's text may end in another's is a constant relation (`EndsIn`),
because the pattern of `DNSGFW.Find` matches inside labels. Not modelled of
that pattern: labels with characters special to a regular expression, and the
unescaped dots behind the second part, which match any character. An address is
its bytes where `cs_ip_get` converts it (`UdpBridge`), a model value elsewhere.

**The system port.** `SysMbox` takes a wait and a signal of a semaphore as one
step each; that mutex, condition variable and count amount to that is
`IsBinarySemaphore` of `SysSem`, so the two modules together cover the mailbox
down to pthreads. In `SysSem` a wait may end spuriously, and the clock has
seconds of four ticks so that the carry and the borrow of `cond_wait` happen. In
`SysLocks` every read or write of a word that another thread may read without
the lock is a step of its own. `sys_mbox_free` may be called when no other
thread still has to take the mutex or sleeps, which its caller must see to;
a thread that is about to signal and leave may be there.

## 3. Runs

Every cfg but `locks.cfg` says `CHECK_DEADLOCK FALSE`: the environment is bounded (`MaxData`,
`MaxWrites`, `MaxCloses`, `MaxMsgs`, `MaxPosts`, `MaxCalls`), the model stops at
a fault, and Proc can really hang (`echo_stuck`). The threads of `SysLocks` can
go on for ever, so there a deadlock would be an error.

### Passing

| Run | Shows | Distinct states |
|---|---|---|
| `bridge` | types, send credit, room for the token, registry, callback arguments, transience of ES_CLOSING, receive window; one connection, two writers, everything in `Env` | 607 000 |
| `echo` | `EchoImplements` (refinement of `EchoService`), `TokenMeansAccepted`, `LiveHandles`, `NoFault`, and again the registry and the callback arguments, over two connections one after the other on one block | 1 230 000 |
| `echo_live` | every chunk is echoed (fairness) | 49 000 |
| `udp` | an open PCB is registered; datagrams are neither lost, repeated nor reordered before Read; a reply goes to the client whose datagram it carries, or to an IPv6 client that `cs_ip_get` does not tell from it; each datagram is read (fairness) unless Proc and `io.Copy` wait for each other | 370 000 |
| `dns` | open upstream connections are registered, queries keep flow, target and order, none is in two connections or vanishes but by an error, and each is served (fairness) unless its upstream has stopped | 158 000 |
| `netif` | frames are at one place and in order; each turn of Proc consumes the frame it announced; every frame is handled or dropped (fairness) as long as calls into lwIP return | 549 |
| `routing` | a learned address is routed to the proxy, listed three-label names are asked at the right server | 895 000 |
| `mbox` | `IsMailbox` (refinement of `Mailbox`); no wakeup is lost, of the fetcher or of a poster; `sys_mbox_free` waits for who is leaving; every post returns and every message is fetched (fairness) | 98 600 |
| `sem` | `IsBinarySemaphore` (refinement of `BinarySemaphore`); no thread sleeps beside a token; timeouts and reported times are true; a token is taken (fairness) | 526 000 |
| `locks` | `sys_arch_protect` excludes at every depth; the check of the core lock is exact; no thread is missing from the list; no deadlock | 24 500 |

**Bounds.** Channel capacities (1024 in the code) become 1 or 2, the smallest
values at which the channel can be empty, partly full and full; the windows are
2 or 3 chunks against a `RecvCap` of 1 or 2 in both orders (`RecvCap < TcpWnd`
is possible in the code, 1024 chunks against 20 KiB of bytes). A Write has two
pbufs and the send buffer two or three, so that partial acceptance and ACKs of
a part of a Write occur. Two writers are enough for contention of `p.lck`, two
connections and one block for reuse of an address, two `es` addresses for an
`es` that differs from the block's previous one. `udp` has one slot in
`recvQueued` and one in `sendQueue`, so that both fill and Proc and `io.Copy` do
come to wait for each other, which takes four datagrams, and one Close per PCB,
because `OpenIsRegistered` fails with a second (see below). Its clients are one
of IPv4 and two of IPv6 whose addresses `cs_ip_get` maps to the same bytes.
`MaxInputs` bounds datagrams and closed PCBs together at four: four datagrams,
or two with both PCBs closed. `MaxCloses` is 0 in the echo runs because
`echo.go` never closes. `dns` has one closer;
the theorem about the registry covers any number. Three conns and two targets
let a closed connection be replaced while the other target's is open. `netif`
has five frames against an `inputQueue` of two and up to two requests of the
application at a time, without an end to them. `routing` has
two servers that answer at the same time, two addresses, and one Clear.
`mbox` has two posters with two messages each against room for two, so that one
poster sleeps while the other puts, refuses or is woken, and one fetcher: with
two the property fails (see below), and lwIP's mailboxes have one. `sem` has two
waiters for one token, a timeout shorter than a second but across one, and time
for two timeouts. `locks` has three threads, the least at which two create the
third and another at the same time, and nesting of two.

**Symmetry** is used in `bridge` only, for connections, writers and addresses,
which are only compared for equality.

**Fairness.** Weak fairness of Proc, of each application goroutine and of each
upstream goroutine: the Go scheduler runs every goroutine that can run. For
`echo_live` also weak fairness of ACKs: a client that stays connected
acknowledges what it receives. New data, FIN, RST and closes are never fair.
`FairSpec` of the bridges treats Proc as one process: Go's `select` picks at
random among ready channels, and with bounded input this does not starve one. In
`NetifLoop` requests of the application never end, so the choice of `select` is
strong fairness of `ProcTake`; weak fairness is not enough, TLC shows. Calls into
lwIP have none, and an upstream that stops reading (`UpStop`) does so at its own
will. In the system
port, weak fairness of each thread inside a function: the operating system runs
what can run, and the semaphores are contended by a bounded number of calls. A
thread that fetches does so again (`FetchBegin`), as lwIP's tcpip thread does.
Posts, calls, the clock, spurious wakeups and frees are not fair.

### Violations

Each states a sentence of the repository and is refuted by the code as written.

| Run | Sentence | What happens |
|---|---|---|
| `echo_stuck` | "passively closes when client is done" (`src/tcp.c:39`) | FIN while Write waits: `close()` needs `p.lck`, held by the Write that only Proc can release |
| `bridge_panic` | "Close will close pcb" (`lwipcs.go:157`) | send on `recvQueued` closed after the test |

Four more configurations are not among the runs. `bridge_reuse.cfg` with
`MCTcpBridge` checks the invariants of `bridge` over two connections on one block
and one `es` address with late Closes (2.3 million states, one minute): they
hold, also when a late `tcp_close` hits a foreign block. The others reproduce a counterexample each:
`bridge_stale.cfg` with `MCTcpBridge` (`CloseOwnBlock`: a late `tcp_close`
hits a block of another connection), `udp_alias.cfg` with `MCUdp`
(`EchoFaithful`, "Echos all bytes", `src/udp.c:42`: a queued slice is overwritten
before it is sent) and `udp_ipv6.cfg` with `MCUdp` (`ExactReply`, the same
sentence: `cs_ip_get` casts before it shifts, so two IPv6 hosts whose addresses
agree in every fourth byte share a key and a PCB, and the datagrams of one are
answered to the other).

### What the models show with other constants

The same modules show the following with other values or properties; the passing
runs exclude them by the constants named.

- TCP: `Read` prefers `p.err`, so chunks queued before a FIN are never echoed
  (`EchoService` promises nothing after a close). With `RecvCap < TcpWnd` and
  fairness, Proc blocks on a full `recvQueued` while the application waits for
  Proc. With "nomem", a failed `tcpSend` is completed by a later ACK and the
  stream has a gap; a chain left in `es->p` without unacknowledged data stays
  there, since the poll callback never runs. With "kill", `cs_tcp_raw_error`
  calls `tcp_close` on the freed block. A local Close with unread data leaks
  the `es` and its `tcpPcbs` entry (lwIP sends RST and makes no callback).
- UDP: a datagram for a closed PCB panics, and so does an empty one. Proc and
  `io.Copy` may wait for each other for ever, in `recvQueued` and `sendQueue`,
  and with them everyone else (`MutualWait`, the exception of `AllRead`). With `MaxCloses = 2`, the second Close
  unregisters the successor. With two `Locals`, one PCB serves both and replies
  from the first.
- DNS: a message without a question panics. An upstream that stops reading
  stops proc once its queue is full, and with it the queries for all other
  targets of the flow. An upstream that closes between the lookup and the send, or two that
  close at once, panic. The end of a flow leaves its DNSConns open for ever.
- Routing: `Find` sees names with the dot that ends them in a DNS message. A
  name of two labels is therefore never found, a name of four only under its
  own three-label parent, and an entry whose text merely ends in the name's
  domain is taken for it. Answers of both servers are noted, so addresses of
  names that are not listed go to the proxy too. A Clear between `Record` and
  `base.Write` lets the client learn an address that is not noted.
- Netif: one failed read ends all input.
- System port: with two fetchers, one sleeps beside a message, since `not_empty`
  is signalled only when the mailbox was empty. With `IntMax` below the number
  of posts, `last++` overflows and the index of the ring becomes negative: in
  the code after 2^31 messages. A timed wait that is woken for nothing starts
  again with its whole timeout, and reports the time of its last wait only.

## 4. Proofs

Every safety property that a passing run checks is also a theorem, for every
value of the constants, some under a hypothesis that is named below. What is left
to TLC alone is listed at the end of this section.

### TCP bridge and echo server: `TcpBridgeProofs`

For any finite or infinite sets of connections, writers, blocks and addresses,
any positive capacities and any `Env`, from `NoneAssumption` and `CapAssumption`:

| Theorem | Property | Hypothesis |
|---|---|---|
| `TypeCorrect`, `LockSafe`, `SendCreditConserved`, `TokenNeverBlocks` | `TypeOK`, `LockHeld`, `SendCredit`, `TokenHasRoom` | |
| `RegistryRight` | `RegistryMatchesHeap` | |
| `CallbacksFindTheirPcb` | `CallbackArgLive` | |
| `ClosingNeverSeen` | `ClosingIsTransient` | |
| `OpenHandlesLive`, `WindowNeverLost` | `LiveHandles`, `WindowConserved` | `CloseNotForeign` |
| `EchoHandlesLive`, `EchoWindowConserved` | the same two, of `EchoSpec` | |
| `EchoNeverFaults` | `NoFault` of `EchoSpec` | no "kill" in `Env` |
| `EchoTokensHonest`, `EchoRefines` | `TokenMeansAccepted`, `EchoImplements` | `OneCopier`, no "nomem" in `Env` |

The invariant is built in layers; each needs the ones above it.

- `IInv == Base /\ Credit`. `Base` is `TypeOK` plus what a callback relies on:
  `ProcOK` (what Proc carries through a callback), `BlockOK` (a block that can
  get a callback has a connection and an es; CLOSE_WAIT exists only inside
  `cs_tcp_raw_close`), `MadeOK` (only a made PCB is written to or queued).
  Without them a step could index a map with `None`. `Credit` is
  `LockHeld /\ SendCredit /\ TokenHasRoom`. None is inductive alone: that there
  is one credit follows from the lock, that Close cannot come between the count
  and the token follows from a Write holding the lock for as long as its credit
  exists, which is `SendCredit` again. This circle is why the unprotected test of
  `p.err` in `go_tcp_send_done_h` is harmless while the same test in
  `go_tcp_recv_h` is not.
- `Handles`: the three properties about the registry with `Places`
  (`cs_tcp_raw_close` runs on the block and es of the connection it was called
  for), `Owned` (a block that is not free carries the connection made with it)
  and `Registered`. They hold even when a late `tcp_close` hits a block that has
  a new owner: a callback finds either its own connection or does not come.
- `Opens`: `OpenOK` (the block of a PCB without error carries it and is
  ESTABLISHED), `QueuedClosed` (what is in `closeQueue` has `p.err` set) and
  `Fresh`. This layer is false when the `closeQueue` branch closes a block that
  meanwhile carries another connection, which the code permits
  (`bridge_stale.cfg`). `CloseNotForeign` is the action property that this does
  not happen; it is a hypothesis of the two theorems about `Spec`. It allows FIN,
  RST, exhaustion of blocks, a `tcp_close` of a block already free, and any reuse
  of addresses, so the theorems say that the foreign close is the only way to
  break these handles and the window. An application that never closes satisfies
  it, which is how the theorems about `EchoSpec` come without it.
- `Window` is `WindowConserved` with what is in flight as a function of the
  channels (`Flying`); the sum over `recvedQueue` is `CountIn`, of which lemmas
  say what appending and removing one element do.
- `EchoIInv` adds `EchoBase` (nobody closes) and `Calm` (no refused data, no
  half-closed block, a connection with an error has left `tcpPcbs`).
  `EchoNeverFaults` adds `NoAbort`. With "kill" the theorem is false:
  `tcp_abandon` frees the block and `cs_tcp_raw_error` closes it again.
- `PipeInv` numbers the data on through all its places: `Copying` from
  `recvQueued` to the Write of `io.Copy`, `Echoing` from there through `es->p` to
  the stream, `Unmade` for connections that do not exist yet. `EchoTokens` adds
  the tokens of connections that have ended. Every step then maps to a `Send`,
  `Emit` or `Close` of `EchoService` or to a stutter. `OneCopier` says
  that one goroutine per connection writes, as `echo.go` starts one `io.Copy`.
  With "nomem" both theorems are false (section 3).

There is one lemma per action and layer, or one for all actions that leave what
the layer is about alone.

### The other parts of the bridge

`UdpProofs` proves `UdpTypeCorrect` of `UdpBridge` from `UdpAssumption`, and
`UdpOpenStaysRegistered` (`OpenIsRegistered`) under the further assumption
`MaxCloses <= 1`, without which it is false. The invariant `Tied` says that
`udpPcbs` holds a PCB only under its own address (`KeyMatches`), that a PCB has
at most one delete, at one place (`Once`), and that a PCB which is open or
whose delete is to come is in `udpPcbs` (`Settled`). `UdpRepliesToSender` proves
`ReplyToSender` for any addresses (`RemotesAssumption` says only that they are
addresses) and any number of clients and Closes: `SameKey` is the lemma that two
remotes with one key are the same or are IPv6 hosts that agree in port, last
bytes and sign bits, and the invariant says that every datagram in a PCB, its
buffer or Proc's hand has the key of that PCB. `UdpFlowsKeepOrder` proves `PerRemoteFifo` for any
addresses and any number of Closes. Its invariant `Kept` is the property over
all that a PCB has ever got (`Holding`), so that a datagram moving from Proc's
hand to `recvQueued` to Read leaves it alone; the new datagram has the highest
number, and `KeyMatches` puts it into a PCB of its key.

`DnsProofs` proves `DnsTypeCorrect` (`Spec => []TypeOK`) and
`DnsOpenStaysRegistered` (`Spec => []OpenIsRegistered`) of `DnsProcessor`, for
any number of flows, targets, connections and closers, from `DnsAssumption`.
The inductive invariant is `DInv == Base /\ OpenIsRegistered /\ PendingHome`.
`Base` adds to the types that a query in hand has arrived, that `conns` maps a
key only to a DNSConn with that key, and that a key whose DNSConn is being made
is not in the map. `PendingHome` says that a DNSConn whose delete is pending
keeps its place, and that at most one closer is past `close(d.readQueued)` as
long as the process has not panicked. It is what makes the delete by key safe:
no second DNSConn gets the key before the first one's delete has run.
`DnsQueriesKeepOrder` proves `PerTargetFifo` from `DInv` and `Kept`: the query in
proc's hand is later than all of its flow that were passed on, and what is about
to be put has the key of the connection it is put in (`PutRight`). A query that
a Read with a small buffer has taken (`lost`) or that was dropped is in no
connection, and no query is in two: a connection gets only a query later than
all that any connection of the flow has held.

`NetifProofs` proves `TurnAlwaysConsumes` (`TurnConsumesFrame`) and from it
`HandOverNeverBlocks`: the send on `inputQueue2` finds room for every capacity.
`FramesKeepOrder` (`FramesInOrder`) rests on `PathInv`: `Line` numbers the frames
on through those done, the hand of Proc, `inputQueue` and the hand of the reader,
and says that slice b holds frame b.

`RoutingProofs` proves `LearnedAlwaysProxied` (`LearnedIsProxied`) for any
names, lists, addresses and any number of queries, flows and Clears. The
invariant says that what the client has learned, and what the loop over an
answer has passed, is noted or has been cleared. `ListedAlwaysFound` proves
`ListedNameFound` for any list of two-label entries (`PlainLists`), the ones the
property is about and of the form the repository's example shows
(`"||google.com"`, `csocks/pc/pc.go:150`), and any names. The invariant adds that
the list is frozen once queries arrive.

### The system port

`SysSemProofs` proves `NoLostWakeup` (`NoSleeperWithToken`) and
`SemaphoreImplemented` (`Spec => IsBinarySemaphore`, every step maps to a step
of `BinarySemaphore` or a stutter), for any threads, timeouts and clock. The
invariant adds to the types only that the place of a thread fits the function it
is in (`Placed`). `TimesAreHonest` proves `HonestTimes`, an action property, for
any timeout and any length of a second that is a multiple of a millisecond:
`Timed` says what a timed wait has read of the clock, and lemmas about quotient
and remainder that the deadline with its carry and the difference with its
borrow have the value they stand for.

`SysMboxProofs` proves, for any threads and any size of the ring,
`MutexAlwaysLock` and `FreeWaitsForLeaver`; `FetcherAlwaysWoken`
(`FetcherIsWoken`) for one fetcher and any posters; and `PosterAlwaysWoken`
(`PosterIsWoken`) for finitely many posters and any fetchers, as long as the
counters have not wrapped (`NoWrap`). The invariant behind the last one is that
`wait_send` is the number of posters in the loop: a fetch that empties the
mailbox while one sleeps then signals, and the poster that takes the token puts
a message, whose fetch signals for the next. `MailboxImplemented` proves the
refinement of `Mailbox` (`IsMailbox`) under `NoWrap`, for any number of posters
and fetchers: at most `Size - 1` messages lie between `first` and `last`, and
positions less than a ring apart are different slots, so that a put leaves the
waiting messages alone.

`SysLocksProofs` proves `LocksTypeCorrect`, `ProtectExcludes` (`ProtectIsLock`),
`UnlockedTestSafe`, `CoreCheckExact` (`CheckIsExact`) and `ThreadListComplete`
(`ListIsComplete`), for any number of threads and any depth. The invariant says
for each lock who may hold it at which label, and that `lwprot_thread` and the
core's holder name a thread only while it holds the lock, which is what makes
the reads without the lock harmless.

### What is only model-checked

- Liveness, which needs fairness and ENABLED and is outside the prover:
  `AllBytesEchoed`, `AllRead`, `AllServed`, `FrameHandled`,
  `PostReturns`, `MessageFetched`, `TokenTaken`.
- The absence of deadlock in `locks`, for the same reason.
- The two refuted properties of section 3 have no theorem, of course. The
  hypotheses above exclude what makes the property false (a foreign close,
  "kill", "nomem", a second Close of a UDP PCB,
  wrapped counters, a second fetcher), what the code does not do (two copiers on
  one connection), or what the property is not about (`PlainLists`).

Proved and not in a run: `LockSafe`, `DnsTypeCorrect`, `HandOverNeverBlocks`,
`MutexAlwaysLock`, `LocksTypeCorrect`, `UnlockedTestSafe`.

## 5. What is not modelled

lwIP below its callbacks; the tap device and `cs_low_level_output`, which keeps
no state; `Intercept`, which nothing calls; `cs_tcp_raw_poll`, which nothing
triggers; parsing of target URLs; the processors of cs4go behind `Proxy` and
`Direct`; the `runnning` flag, which is never cleared by the repository's code;
the drivers; which code holds the pbufs of `PBUF_POOL`, that is, whether the pool
leaks; the messages a client sends while `DNSProcessor.proc` is blocked. Of
`sys.c`: an error of `pthread_cond_wait`, which only mutexes and conditions that
are not initialised cause and on which a wait returns without a token; `sys_now` and `sys_jiffies`, which read the clock; the
branches for Mach, Android and the Hurd; a `malloc` that fails in
`sys_sem_new_internal`, after which `sys_mbox_new` hands out a mailbox without
semaphores; `sys_mutex_*`, which are pthread mutexes and appear as `CoreLock` and
`CoreUnlock`; `lwip_unix_keypressed`. `lwipopts.h` and the headers only
configure.

## 6. Plan

Done so far: the TCP and UDP bridges, the echo application, the netif loop, the
DNS processor, routing, address conversion, and the system port. Left, in this
order:

1. `Bridge`: NetifLoop, TCP and UDP together over one Proc and one `sendQueue`;
   isolation of flows, liveness of one protocol under load of the other.
2. `DnsProcessor` below `Routing`: the queue of queries per server of `Routing`
   implemented by the connections of `DnsProcessor`.
3. Proofs: what `Find` does with entries of other lengths; `SendCredit` and the registry for the composed
   `Bridge`.
