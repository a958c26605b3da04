----------------------------- MODULE NetifLoop -----------------------------
(***************************************************************************)
(* How frames get from the tap device into lwIP: the goroutine             *)
(* go_netif_read, the channels inputQueue and inputQueue2, the select loop *)
(* go_netif_proc and go_input_h (lwipcs.go), cs_netif_proc, cs_netif_input *)
(* and cs_low_level_input (src/cs.c) with the shims of lwipcs.c between.   *)
(*                                                                         *)
(* What lwIP does with a frame, and in the other cases of the select, is   *)
(* external here; TcpBridge and UdpBridge model the callbacks.  Those send *)
(* on channels and take locks, so that a call into lwIP may take any time  *)
(* and may never return.  PBUF_POOL is shared with the chains of           *)
(* cs_tcp_char_send and cs_udp_char_sendto: it may be empty at any time.   *)
(***************************************************************************)
EXTENDS Integers, Sequences

CONSTANTS
  InCap,      \* capacity of inputQueue (1024 in the code)
  In2Cap,     \* capacity of inputQueue2 (1024)
  MaxFrames,  \* bound: frames the tap device delivers
  MaxWork     \* requests that fit in recvedQueue, closeQueue and sendQueue

ASSUME NetifAssumption ==
  /\ InCap \in Nat \ {0} /\ In2Cap \in Nat \ {0}
  /\ MaxFrames \in Nat /\ MaxWork \in Nat

VARIABLES
  nread,      \* frames read from the tap device; they are numbered
  mem,        \* mem[b]: the frame in the slice b
  reader,     \* where go_netif_read is: [at, buf]
  inputQ, inputQ2,   \* slices in inputQueue, inputQueue2
  proc,       \* where Proc is: [at, buf, frame]
  work,       \* requests in recvedQueue, closeQueue and sendQueue
  done        \* history: frames handed to lwIP or dropped, in that order

nvars == <<nread, mem, reader, inputQ, inputQ2, proc, work, done>>

Frames == 1 .. MaxFrames
Select == [at |-> "select", buf |-> 0, frame |-> 0]
Reading == [at |-> "read", buf |-> 0]

-----------------------------------------------------------------------------
(* The goroutine go_netif_read.                                            *)

\* Mutant: one buffer for all frames.
NewBufShared == 1

\* "var buf = make([]byte, 1518)" inside the loop.
NewBuf == nread + 1

\* go_cs_input returns a frame.
ReadFrame ==
  /\ reader.at = "read" /\ nread < MaxFrames
  /\ nread' = nread + 1
  /\ mem' = [mem EXCEPT ![NewBuf] = nread + 1]
  /\ reader' = [at |-> "put", buf |-> NewBuf]
  /\ UNCHANGED <<inputQ, inputQ2, proc, work, done>>

\* "readed < 1": the goroutine ends, and with it all input.
ReadFail ==
  /\ reader.at = "read"
  /\ reader' = [at |-> "end", buf |-> 0]
  /\ UNCHANGED <<nread, mem, inputQ, inputQ2, proc, work, done>>

\* "inputQueue <- buf[0:readed]"
ReadPut ==
  /\ reader.at = "put" /\ Len(inputQ) < InCap
  /\ inputQ' = Append(inputQ, reader.buf)
  /\ reader' = Reading
  /\ UNCHANGED <<nread, mem, inputQ2, proc, work, done>>

-----------------------------------------------------------------------------
(* Proc.                                                                   *)

\* case i := <-inputQueue
ProcTake ==
  /\ proc.at = "select" /\ inputQ # <<>>
  /\ inputQ' = Tail(inputQ)
  /\ proc' = [at |-> "put2", buf |-> Head(inputQ), frame |-> 0]
  /\ UNCHANGED <<nread, mem, reader, inputQ2, work, done>>

\* "inputQueue2 <- i", then go_cs_netif_proc
ProcPut2 ==
  /\ proc.at = "put2" /\ Len(inputQ2) < In2Cap
  /\ inputQ2' = Append(inputQ2, proc.buf)
  /\ proc' = [at |-> "input", buf |-> 0, frame |-> 0]
  /\ UNCHANGED <<nread, mem, reader, inputQ, work, done>>

\* pbuf_alloc(PBUF_RAW, len, PBUF_POOL) finds room or not.
PbufAlloc == BOOLEAN

\* Mutant: the pool is looked at before the frame is taken.
GoInputEarly ==
  /\ proc.at = "input"
  /\ \E ok \in PbufAlloc :
       IF inputQ2 = <<>> \/ ~ok
       THEN proc' = Select /\ UNCHANGED inputQ2
       ELSE /\ inputQ2' = Tail(inputQ2)
            /\ proc' = [at |-> "handle", buf |-> 0,
                        frame |-> mem[Head(inputQ2)]]
  /\ UNCHANGED <<nread, mem, reader, inputQ, work, done>>

\* go_input_h, called by cs_low_level_input: the frame is copied to a pbuf,
\* which cs_netif_input passes to netif->input, or dropped when there is none.
GoInput ==
  /\ proc.at = "input"
  /\ IF inputQ2 = <<>>
     THEN proc' = Select /\ UNCHANGED <<inputQ2, done>>
     ELSE LET f == mem[Head(inputQ2)] IN
          /\ inputQ2' = Tail(inputQ2)
          /\ \E ok \in PbufAlloc :
               IF ok
               THEN /\ proc' = [at |-> "handle", buf |-> 0, frame |-> f]
                    /\ UNCHANGED done
               ELSE done' = Append(done, f) /\ proc' = Select
  /\ UNCHANGED <<nread, mem, reader, inputQ, work>>

\* netif->input returns to cs_netif_input, which is done with the frame: lwIP
\* has it, or has refused it and it is freed.  netif_poll_all then finds
\* nothing, there is no loopback.
NetifInput ==
  /\ proc.at = "handle"
  /\ done' = Append(done, proc.frame)
  /\ proc' = Select
  /\ UNCHANGED <<nread, mem, reader, inputQ, inputQ2, work>>

\* The other cases of the select: tcp_recved, tcpClose or Send is called ...
ProcServe ==
  /\ proc.at = "select" /\ work > 0
  /\ work' = work - 1
  /\ proc' = [at |-> "serve", buf |-> 0, frame |-> 0]
  /\ UNCHANGED <<nread, mem, reader, inputQ, inputQ2, done>>

\* ... and returns.
ServeDone ==
  /\ proc.at = "serve"
  /\ proc' = Select
  /\ UNCHANGED <<nread, mem, reader, inputQ, inputQ2, work, done>>

\* The application puts a request in recvedQueue, sendQueue or closeQueue: the
\* end of Read, Write or Close.
Ask ==
  /\ work < MaxWork
  /\ work' = work + 1
  /\ UNCHANGED <<nread, mem, reader, inputQ, inputQ2, proc, done>>

-----------------------------------------------------------------------------
Init ==
  /\ nread = 0 /\ mem = [b \in Frames |-> 0]
  /\ reader = Reading
  /\ inputQ = <<>> /\ inputQ2 = <<>>
  /\ proc = Select
  /\ work = 0
  /\ done = <<>>

Proc == ProcTake \/ ProcPut2 \/ GoInput \/ NetifInput \/ ProcServe \/ ServeDone

Next == ReadFrame \/ ReadFail \/ ReadPut \/ Proc \/ Ask

Spec == Init /\ [][Next]_nvars

\* Go schedules the reader once its channel has room and Proc while it is in Go
\* code, and select picks any ready case with the same chance.  Nothing makes a
\* call into lwIP return.
FairSpec ==
  /\ Spec
  /\ WF_nvars(ReadPut)
  /\ WF_nvars(ProcPut2 \/ GoInput)
  /\ SF_nvars(ProcTake)

-----------------------------------------------------------------------------
(* Properties.                                                             *)

\* The frames that are on their way, oldest first.
Contents(s) == [i \in 1 .. Len(s) |-> mem[s[i]]]
InFlight ==
  (IF proc.at = "handle" THEN <<proc.frame>> ELSE <<>>)
    \o Contents(inputQ2)
    \o (IF proc.at = "put2" THEN <<mem[proc.buf]>> ELSE <<>>)
    \o Contents(inputQ)
    \o (IF reader.at = "put" THEN <<mem[reader.buf]>> ELSE <<>>)

\* Every frame read from the tap device is at one place between go_netif_read
\* and lwIP, with its own bytes, and frames overtake nowhere: what has been
\* handled and what is in flight are all the frames in the order of arrival.
FramesInOrder == done \o InFlight = [i \in 1 .. nread |-> i]

\* go_input_h takes the frame that Proc has just announced: between two turns
\* of the loop inputQueue2 is empty, so that the send on it never blocks Proc
\* (the only goroutine that receives from it).
TurnConsumesFrame ==
  /\ proc.at \in {"select", "put2", "handle", "serve"} => inputQ2 = <<>>
  /\ proc.at = "input" => Len(inputQ2) = 1

\* Proc has called into lwIP and is not back.
InLwip == proc.at \in {"handle", "serve"}

\* As long as the calls into lwIP return, every frame read is handled or
\* dropped, although the queues are bounded, the pool may be empty and Proc
\* serves the application too.
FrameHandled ==
  []<>(~InLwip) =>
    \A f \in Frames : nread >= f ~> f \in {done[i] : i \in DOMAIN done}
=============================================================================
