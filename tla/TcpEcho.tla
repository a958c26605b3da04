------------------------------ MODULE TcpEcho ------------------------------
(***************************************************************************)
(* The echo server of echo/echo.go on top of TcpBridge: OnAccept starts    *)
(* one goroutine per connection that runs io.Copy(pcb, pcb) and never      *)
(* calls Close.  io.Copy reads a chunk, writes it, and ends at the first   *)
(* error of either.                                                        *)
(***************************************************************************)
EXTENDS TcpBridge

VARIABLE held   \* held[c]: the chunk io.Copy has read and not yet written, or 0

echoVars == <<vars, held>>

EchoInit == Init /\ held = [c \in Conns |-> 0]

\* io.Copy calls Read once its last Write has returned.
EchoRead(c) ==
  /\ held[c] = 0
  /\ ReadCheck(c) /\ UNCHANGED held

EchoGet(c) ==
  /\ ReadGet(c)
  /\ held' = [held EXCEPT ![c] = Head(recvQ[c])]

\* Read returned nr > 0 and no error: io.Copy calls Write.
EchoWrite(c, w) ==
  /\ rpc[c] = "idle" /\ held[c] # 0
  /\ WriteCheck(c, w, held[c]) /\ UNCHANGED held

\* Write found p.err set.  io.Copy ends; so would the Read that follows here.
EchoWriteFail(c) ==
  /\ rpc[c] = "idle" /\ held[c] # 0 /\ err[c]
  /\ \A w \in Writers : wpc[c][w] = "idle"
  /\ held' = [held EXCEPT ![c] = 0]
  /\ UNCHANGED vars

EchoWriteDone(c, w) ==
  /\ WriteDone(c, w)
  /\ held' = [held EXCEPT ![c] = 0]

Copy(c) ==
  \/ EchoRead(c)
  \/ EchoGet(c)
  \/ ReadEnd(c) /\ UNCHANGED held
  \/ ReadCredit(c) /\ UNCHANGED held
  \/ \E w \in Writers : EchoWrite(c, w)
  \/ EchoWriteFail(c)
  \/ \E w \in Writers : WriteLock(c, w) /\ UNCHANGED held
  \/ \E w \in Writers : WriteQueue(c, w) /\ UNCHANGED held
  \/ \E w \in Writers : EchoWriteDone(c, w)

EchoNext ==
  /\ fault = "none"
  /\ \/ (Input \/ Proc) /\ UNCHANGED held
     \/ \E c \in Conns : Copy(c)

EchoSpec == EchoInit /\ [][EchoNext]_echoVars

\* Go schedules every goroutine that can run, and the peer acknowledges what
\* it gets.
EchoFairness ==
  /\ WF_echoVars(fault = "none" /\ Proc /\ UNCHANGED held)
  /\ WF_echoVars(/\ fault = "none" /\ UNCHANGED held
                 /\ \E a \in Blocks, n \in 1 .. SndBuf : RecvAck(a, n))
  /\ \A c \in Conns : WF_echoVars(fault = "none" /\ Copy(c))

EchoFairSpec == EchoSpec /\ EchoFairness

-----------------------------------------------------------------------------
(* Properties.                                                             *)

Service == INSTANCE EchoService
             WITH Clients <- Conns, Pieces <- Segs, sent <- peerSent,
                  out <- stream, closed <- [c \in Conns |->
                                             peerFin[c] \/ err[c]]

\* The bridge under the echo application implements the echo service: nothing
\* between recvQueued, io.Copy, sendQueue, es->p and tcp_write reorders, drops
\* or repeats a segment, and nothing is written after FIN or error.
EchoImplements == Service!Spec

\* A Write is told of success only when tcp_write has taken all its segments:
\* go_tcp_send_done_h runs when es->p is empty, and the token it hands out
\* belongs to the Write that waits.
TokenMeansAccepted ==
  \A c \in Conns, w \in Writers :
    wpc[c][w] = "wait" /\ sendWait[c] > 0 =>
      /\ stream[c] # <<>>
      /\ stream[c][Len(stream[c])] = <<wbuf[c][w], Segs>>

\* Without a local Close and without pcb exhaustion no callback sends on a
\* closed channel and no pbuf or tcp_pcb is freed twice.
NoFault == fault = "none"

\* "Echos all bytes sent by connecting client, and passively closes when
\* client is done" (src/tcp.c): every chunk of a client that stays connected
\* and acknowledges what it gets is echoed.
AllBytesEchoed ==
  \A c \in Conns, n \in Chunks :
    peerSent[c] >= n ~> Len(stream[c]) >= n * Segs

\* The second half of the sentence: the client's FIN makes the server close
\* the connection.
PassivelyCloses == \A c \in Conns : peerFin[c] ~> err[c]
=============================================================================
