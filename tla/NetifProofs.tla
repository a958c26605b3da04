---------------------------- MODULE NetifProofs ----------------------------
(***************************************************************************)
(* Proofs about NetifLoop, for channels of any size and any number of      *)
(* frames: the hand-over through inputQueue2 never blocks Proc, the only   *)
(* goroutine that empties it; frames keep their order and their bytes.     *)
(*                                                                         *)
(* The order is not inductive as stated, since a frame in the hand of a    *)
(* goroutine has no place in a channel: Line numbers the frames on through *)
(* every place they can be, and a frame's number is that of its slice.     *)
(***************************************************************************)
EXTENDS NetifLoop, SequenceTheorems, TLAPS

\* What the goroutines carry are slices, by number.
Slices ==
  /\ nread \in Nat
  /\ reader.at = "put" => reader.buf \in Nat
  /\ inputQ \in Seq(Nat) /\ inputQ2 \in Seq(Nat)
  /\ proc.at \in {"select", "put2", "input", "handle", "serve"}
  /\ proc.at = "put2" => proc.buf \in Nat

\* The inductive invariant.
NInv == Slices /\ TurnConsumesFrame

\* Proc waits in "inputQueue2 <- i" for no one.
PutNeverBlocks == proc.at = "put2" => Len(inputQ2) < In2Cap

-----------------------------------------------------------------------------
\* Sending on a channel.
LEMMA PutFacts ==
  ASSUME NEW s \in Seq(Nat), NEW x \in Nat
  PROVE  Append(s, x) \in Seq(Nat) /\ Len(Append(s, x)) = Len(s) + 1
OBVIOUS

\* Receiving from a channel.
LEMMA TakeFacts ==
  ASSUME NEW s \in Seq(Nat), s # <<>>
  PROVE  /\ Tail(s) \in Seq(Nat) /\ Head(s) \in Nat
         /\ Len(Tail(s)) = Len(s) - 1
OBVIOUS

\* A channel with one slice is empty after a receive.
LEMMA LastTaken ==
  ASSUME NEW s \in Seq(Nat), Len(s) = 1
  PROVE  s # <<>> /\ Tail(s) = <<>>
<1>1. s # <<>>
  <2>1. s = <<>> => Len(s) = 0
    BY EmptySeq
  <2> QED BY <2>1
<1>2. Tail(s) \in Seq(Nat) /\ Len(Tail(s)) = 0
  BY <1>1, TakeFacts
<1> QED BY <1>1, <1>2, EmptySeq

\* The channels are empty at start-up.
LEMMA InitNInv == Init => NInv
BY DEF Init, NInv, Slices, TurnConsumesFrame, Reading, Select

\* Every step of the reader, of Proc and of the application keeps NInv.
LEMMA NextNInv == NInv /\ [Next]_nvars => NInv'
<1> SUFFICES ASSUME NInv, [Next]_nvars PROVE NInv'
  OBVIOUS
<1> USE DEF NInv
<1>1. CASE UNCHANGED nvars
  BY <1>1 DEF nvars, Slices, TurnConsumesFrame
<1>2. CASE ReadFrame
  BY <1>2 DEF ReadFrame, NewBuf, Slices, TurnConsumesFrame
<1>3. CASE ReadFail
  BY <1>3 DEF ReadFail, Slices, TurnConsumesFrame
<1>4. CASE ReadPut
  BY <1>4, PutFacts DEF ReadPut, Reading, Slices, TurnConsumesFrame
<1>5. CASE ProcTake
  BY <1>5, TakeFacts DEF ProcTake, Slices, TurnConsumesFrame
<1>6. CASE ProcPut2
  <2>1. inputQ2 = <<>> /\ proc.buf \in Nat /\ inputQ2 \in Seq(Nat)
    BY <1>6 DEF ProcPut2, Slices, TurnConsumesFrame
  <2>2. inputQ2' \in Seq(Nat) /\ Len(inputQ2') = 1
    BY <1>6, <2>1, PutFacts DEF ProcPut2
  <2> QED BY <1>6, <2>2 DEF ProcPut2, Slices, TurnConsumesFrame
<1>7. CASE GoInput
  <2>1. inputQ2 \in Seq(Nat) /\ Len(inputQ2) = 1
    BY <1>7 DEF GoInput, Slices, TurnConsumesFrame
  <2>2. inputQ2 # <<>> /\ Tail(inputQ2) = <<>>
    BY <2>1, LastTaken
  <2>3. inputQ2' = <<>> /\ UNCHANGED <<nread, reader, inputQ>>
    BY <1>7, <2>2 DEF GoInput
  <2>4. PICK f : proc' = Select \/ proc' = [at |-> "handle", buf |-> 0, frame |-> f]
    <3>1. \E ok \in PbufAlloc :
            \/ proc' = Select
            \/ proc' = [at |-> "handle", buf |-> 0, frame |-> mem[Head(inputQ2)]]
      BY <1>7, <2>2, Zenon DEF GoInput
    <3> QED BY <3>1
  <2>5. proc'.at \in {"select", "handle"}
    BY <2>4 DEF Select
  <2> QED BY <2>3, <2>5 DEF Slices, TurnConsumesFrame
<1>8. CASE NetifInput
  BY <1>8 DEF NetifInput, Select, Slices, TurnConsumesFrame
<1>9. CASE ProcServe
  BY <1>9 DEF ProcServe, Slices, TurnConsumesFrame
<1>10. CASE ServeDone
  BY <1>10 DEF ServeDone, Select, Slices, TurnConsumesFrame
<1>11. CASE Ask
  BY <1>11 DEF Ask, Slices, TurnConsumesFrame
<1> QED BY <1>1, <1>2, <1>3, <1>4, <1>5, <1>6, <1>7, <1>8, <1>9, <1>10, <1>11
        DEF Next, Proc

\* go_input_h takes the frame that go_netif_proc has put in inputQueue2 in the
\* same turn of the loop; between turns that channel is empty.
THEOREM TurnAlwaysConsumes == Spec => []TurnConsumesFrame
<1>1. Init => NInv
  BY InitNInv
<1>2. NInv /\ [Next]_nvars => NInv'
  BY NextNInv
<1>3. NInv => TurnConsumesFrame
  BY DEF NInv
<1> QED BY <1>1, <1>2, <1>3, PTL DEF Spec

\* "inputQueue2 <- i" in go_netif_proc always finds room, whatever the capacity
\* of the channel.
THEOREM HandOverNeverBlocks == Spec => []PutNeverBlocks
<1>1. TurnConsumesFrame => PutNeverBlocks
  BY NetifAssumption DEF TurnConsumesFrame, PutNeverBlocks
<1> QED BY <1>1, TurnAlwaysConsumes, PTL

-----------------------------------------------------------------------------
(* The order of the frames.                                                *)

\* A frame is in the hands of Proc.
Turn == IF proc.at \in {"select", "serve"} THEN 0 ELSE 1

\* go_netif_read has a frame that is not in inputQueue yet.
Late == IF reader.at = "put" THEN 1 ELSE 0

\* Slice b holds frame b, and the frames done, in the hands of Proc, in
\* inputQueue and in the hands of the reader are numbered on.
Line ==
  /\ nread \in 0 .. MaxFrames /\ mem \in [Frames -> Nat]
  /\ \A b \in 1 .. nread : mem[b] = b
  /\ reader.at = "put" => reader.buf = nread
  /\ done \in Seq(Nat) /\ \A i \in 1 .. Len(done) : done[i] = i
  /\ proc.at = "put2" => proc.buf = Len(done) + 1
  /\ proc.at = "input" => inputQ2[1] = Len(done) + 1
  /\ proc.at = "handle" => proc.frame = Len(done) + 1
  /\ \A i \in 1 .. Len(inputQ) : inputQ[i] = Len(done) + Turn + i
  /\ nread = Len(done) + Turn + Len(inputQ) + Late

\* The inductive invariant of the whole path.
PathInv == NInv /\ Line

\* The numbers after k, n of them.
Run(k, n) == [i \in 1 .. n |-> k + i]

\* A run is a sequence.
LEMMA RunType ==
  ASSUME NEW k \in Nat, NEW n \in Nat
  PROVE  /\ Run(k, n) \in Seq(Nat) /\ Len(Run(k, n)) = n
         /\ \A i \in 1 .. n : Run(k, n)[i] = k + i
BY DEF Run

\* A run followed by the next one is a run.
LEMMA RunConcat ==
  ASSUME NEW k \in Nat, NEW n \in Nat, NEW m \in Nat
  PROVE  Run(k, n) \o Run(k + n, m) = Run(k, n + m)
<1> DEFINE s == Run(k, n)
           t == Run(k + n, m)
           r == Run(k, n + m)
<1>0. k + n \in Nat /\ n + m \in Nat
  OBVIOUS
<1>1. s \in Seq(Nat) /\ Len(s) = n /\ \A i \in 1 .. n : s[i] = k + i
  BY RunType
<1>2. t \in Seq(Nat) /\ Len(t) = m /\ \A i \in 1 .. m : t[i] = (k + n) + i
  BY <1>0, RunType
<1>3. r \in Seq(Nat) /\ Len(r) = n + m /\ \A i \in 1 .. n + m : r[i] = k + i
  BY <1>0, RunType
<1> HIDE DEF s, t, r
<1>4. s \in Seq(Nat) /\ Len(s) = n /\ t \in Seq(Nat) /\ Len(t) = m
  BY <1>1, <1>2, Zenon
<1>5. /\ s \o t \in Seq(Nat) /\ Len(s \o t) = Len(s) + Len(t)
      /\ \A i \in 1 .. Len(s) + Len(t) :
           (s \o t)[i] = IF i <= Len(s) THEN s[i] ELSE t[i - Len(s)]
  BY <1>4, ConcatProperties
<1>6. /\ s \o t \in Seq(Nat) /\ Len(s \o t) = n + m
      /\ \A i \in 1 .. n + m : (s \o t)[i] = IF i <= n THEN s[i] ELSE t[i - n]
  BY <1>4, <1>5, Zenon
<1>7. ASSUME NEW i \in 1 .. n + m
      PROVE  (s \o t)[i] = r[i]
  <2>1. r[i] = k + i
    BY <1>3
  <2>2. CASE i <= n
    <3>1. (s \o t)[i] = s[i]
      BY <1>6, <2>2, Zenon
    <3>2. i \in 1 .. n
      BY <2>2
    <3> QED BY <1>1, <2>1, <3>1, <3>2, Zenon
  <2>3. CASE ~(i <= n)
    <3>1. (s \o t)[i] = t[i - n]
      BY <1>6, <2>3, Zenon
    <3>2. i - n \in 1 .. m /\ (k + n) + (i - n) = k + i
      BY <2>3
    <3> QED BY <1>2, <2>1, <3>1, <3>2, Zenon
  <2> QED BY <2>2, <2>3
<1>8. s \o t = r
  <2>1. r \in Seq(Nat) /\ Len(r) = Len(s \o t)
    BY <1>3, <1>6
  <2>2. \A i \in 1 .. Len(s \o t) : (s \o t)[i] = r[i]
    BY <1>6, <1>7
  <2> QED BY <1>6, <2>1, <2>2, SeqEqual
<1> QED BY <1>8 DEF s, t, r

\* A sequence that counts on is a run.
LEMMA IsRun ==
  ASSUME NEW s \in Seq(Nat), NEW k \in Nat, \A i \in 1 .. Len(s) : s[i] = k + i
  PROVE  s = Run(k, Len(s))
<1> DEFINE r == Run(k, Len(s))
<1>1. r \in Seq(Nat) /\ Len(r) = Len(s) /\ \A i \in 1 .. Len(s) : r[i] = k + i
  BY DEF Run
<1> HIDE DEF r
<1> QED BY <1>1, SeqEqual DEF r

\* A single number.
LEMMA RunOne ==
  ASSUME NEW k \in Nat
  PROVE  <<k + 1>> = Run(k, 1)
<1> DEFINE s == <<k + 1>>
<1>1. s \in Seq(Nat) /\ Len(s) = 1 /\ s[1] = k + 1
  OBVIOUS
<1> HIDE DEF s
<1>2. \A i \in 1 .. Len(s) : s[i] = k + i
  BY <1>1
<1>3. s = Run(k, Len(s))
  BY <1>1, <1>2, IsRun
<1> QED BY <1>1, <1>3, Zenon DEF s

\* The channels, Proc and the reader hold runs of numbers, one after another.
LEMMA LineMeans ==
  ASSUME NInv, Line
  PROVE  FramesInOrder
<1> DEFINE d == Len(done)
           s1 == IF proc.at = "handle" THEN <<proc.frame>> ELSE <<>>
           s2 == Contents(inputQ2)
           s3 == IF proc.at = "put2" THEN <<mem[proc.buf]>> ELSE <<>>
           s4 == Contents(inputQ)
           s5 == IF reader.at = "put" THEN <<mem[reader.buf]>> ELSE <<>>
           h == IF proc.at = "handle" THEN 1 ELSE 0
           i2 == IF proc.at = "input" THEN 1 ELSE 0
           p == IF proc.at = "put2" THEN 1 ELSE 0
           q == Len(inputQ)
<1>1. /\ d \in Nat /\ q \in Nat /\ h \in Nat /\ i2 \in Nat /\ p \in Nat
      /\ Late \in Nat /\ Turn = (h + i2) + p
      /\ inputQ \in Seq(Nat) /\ inputQ2 \in Seq(Nat) /\ done \in Seq(Nat)
  BY DEF NInv, Slices, Line, Turn, Late
<1>2. nread = d + Turn + q + Late /\ \A b \in 1 .. nread : mem[b] = b
  BY DEF Line
<1>3. <<d + 1>> = Run(d, 1) /\ \A k \in Nat : <<>> = Run(k, 0)
  <2>2. <<d + 1>> = Run(d, 1)
    BY <1>1, RunOne
  <2>3. ASSUME NEW k \in Nat PROVE <<>> = Run(k, 0)
    BY DEF Run
  <2> QED BY <2>2, <2>3
<1>4. s1 = Run(d, h)
  BY <1>1, <1>3 DEF Line
<1>5. s2 = Run(d + h, i2)
  <2>1. CASE proc.at = "input"
    <3>1. Len(inputQ2) = 1 /\ inputQ2[1] = d + 1 /\ h = 0 /\ i2 = 1
      BY <2>1 DEF NInv, TurnConsumesFrame, Line
    <3>2. mem[d + 1] = d + 1
      BY <1>1, <1>2, <3>1
    <3>3. s2 = <<d + 1>>
      BY <3>1, <3>2 DEF Contents
    <3>4. d + 0 = d
      BY <1>1
    <3> QED BY <1>3, <3>1, <3>3, <3>4, Zenon
  <2>2. CASE proc.at # "input"
    <3>1. inputQ2 = <<>> /\ i2 = 0
      BY <2>2 DEF NInv, TurnConsumesFrame, Slices
    <3>2. s2 = <<>>
      BY <3>1 DEF Contents
    <3>3. d + h \in Nat
      BY <1>1
    <3> QED BY <1>3, <3>1, <3>2, <3>3, Zenon
  <2> QED BY <2>1, <2>2
<1>6. s3 = Run(d + (h + i2), p)
  <2>1. CASE proc.at = "put2"
    <3>1. proc.buf = d + 1 /\ d + (h + i2) = d /\ p = 1
      BY <1>1, <2>1 DEF Line
    <3>2. mem[d + 1] = d + 1
      BY <1>1, <1>2, <3>1
    <3>3. s3 = <<d + 1>>
      BY <2>1, <3>1, <3>2
    <3> QED BY <1>3, <3>1, <3>3, Zenon
  <2>2. CASE proc.at # "put2"
    <3>1. d + (h + i2) \in Nat /\ p = 0 /\ s3 = <<>>
      BY <1>1, <2>2
    <3> QED BY <1>3, <3>1, Zenon
  <2> QED BY <2>1, <2>2
<1>7. s4 = Run(d + Turn, q)
  <2>1. \A i \in 1 .. q : inputQ[i] = d + Turn + i
    BY DEF Line
  <2>2. \A i \in 1 .. q : mem[inputQ[i]] = d + Turn + i
    <3> HIDE DEF d, q
    <3> SUFFICES ASSUME NEW i \in 1 .. q
                 PROVE  mem[inputQ[i]] = d + Turn + i
      OBVIOUS
    <3>1. Turn \in Nat
      BY DEF Turn
    <3>2. d + Turn + i \in 1 .. nread
      BY <1>1, <1>2, <3>1
    <3> QED BY <1>2, <2>1, <3>2, Zenon
  <2> QED BY <2>2 DEF Contents, Run
<1>8. s5 = Run(d + Turn + q, Late)
  <2>1. Turn \in Nat
    BY DEF Turn
  <2>2. CASE reader.at = "put"
    <3>1. Late = 1 /\ reader.buf = nread
      BY <2>2 DEF Late, Line
    <3> DEFINE k == d + Turn + q
    <3>2. nread = k + 1 /\ k \in Nat /\ mem[nread] = nread
      BY <1>1, <1>2, <2>1, <3>1
    <3>3. s5 = <<k + 1>>
      BY <2>2, <3>1, <3>2
    <3> HIDE DEF k
    <3>4. <<k + 1>> = Run(k, 1)
      BY <3>2, RunOne
    <3> QED BY <3>1, <3>3, <3>4, Zenon DEF k
  <2>3. CASE reader.at # "put"
    <3>1. Late = 0 /\ s5 = <<>> /\ d + Turn + q \in Nat
      BY <1>1, <2>1, <2>3 DEF Late
    <3> QED BY <1>3, <3>1, Zenon
  <2> QED BY <2>2, <2>3
<1>9. done = Run(0, d)
  <2>1. \A i \in 1 .. Len(done) : done[i] = 0 + i
    BY DEF Line
  <2> QED BY <1>1, <2>1, IsRun
<1>10. InFlight = (((s1 \o s2) \o s3) \o s4) \o s5
  BY DEF InFlight
<1> HIDE DEF s1, s2, s3, s4, s5, d, h, i2, p, q
<1>11. s1 \o s2 = Run(d, h + i2)
  BY <1>1, <1>4, <1>5, RunConcat
<1>12. (s1 \o s2) \o s3 = Run(d, Turn)
  <2>1. d \in Nat /\ h + i2 \in Nat /\ p \in Nat
    BY <1>1
  <2>2. Run(d, h + i2) \o Run(d + (h + i2), p) = Run(d, (h + i2) + p)
    BY <2>1, RunConcat, Zenon
  <2> QED BY <1>1, <1>6, <1>11, <2>2, Zenon
<1>13. ((s1 \o s2) \o s3) \o s4 = Run(d, Turn + q)
  <2>1. d \in Nat /\ Turn \in Nat /\ q \in Nat
    BY <1>1 DEF Turn
  <2>2. Run(d, Turn) \o Run(d + Turn, q) = Run(d, Turn + q)
    BY <2>1, RunConcat, Zenon
  <2> QED BY <1>7, <1>12, <2>2, Zenon
<1>14. InFlight = Run(d, (Turn + q) + Late)
  <2>1. /\ d \in Nat /\ Turn + q \in Nat /\ Late \in Nat
        /\ d + (Turn + q) = d + Turn + q
    BY <1>1 DEF Turn
  <2>2. Run(d, Turn + q) \o Run(d + (Turn + q), Late) = Run(d, (Turn + q) + Late)
    BY <2>1, RunConcat, Zenon
  <2> QED BY <1>8, <1>10, <1>13, <2>1, <2>2, Zenon
<1>15. done \o InFlight = Run(0, nread)
  <2> DEFINE z == (Turn + q) + Late
  <2>1. z \in Nat /\ 0 + d = d /\ d + z = nread
    BY <1>1, <1>2 DEF Turn
  <2> HIDE DEF z
  <2>2. 0 \in Nat /\ d \in Nat
    BY <1>1
  <2>3. Run(0, d) \o Run(0 + d, z) = Run(0, d + z)
    BY <2>1, <2>2, RunConcat, Zenon
  <2> QED BY <1>9, <1>14, <2>1, <2>3, Zenon DEF z
<1>16. Run(0, nread) = [i \in 1 .. nread |-> i]
  BY <1>1, <1>2 DEF Run
<1> QED BY <1>15, <1>16 DEF FramesInOrder

\* Nothing has been read at start-up.
LEMMA InitPath == Init => Line
BY NetifAssumption DEF Init, Line, Turn, Late, Select, Reading, Frames

\* Every step keeps the frames in line.
LEMMA NextLine ==
  ASSUME NInv, Line, [Next]_nvars
  PROVE  Line'
<1>0. /\ nread \in 0 .. MaxFrames /\ mem \in [Frames -> Nat] /\ MaxFrames \in Nat
      /\ done \in Seq(Nat) /\ Len(done) \in Nat
      /\ inputQ \in Seq(Nat) /\ Len(inputQ) \in Nat /\ inputQ2 \in Seq(Nat)
      /\ proc.at \in {"select", "put2", "input", "handle", "serve"}
  BY NetifAssumption DEF NInv, Slices, Line
<1>1. CASE UNCHANGED <<nread, mem, reader, inputQ, inputQ2, proc, done>>
  BY <1>1 DEF Line, Turn, Late
<1>2. CASE ReadFrame
  <2>1. /\ reader.at = "read" /\ nread + 1 \in Frames /\ nread' = nread + 1
        /\ mem' = [mem EXCEPT ![nread + 1] = nread + 1]
        /\ reader' = [at |-> "put", buf |-> nread + 1]
        /\ UNCHANGED <<inputQ, inputQ2, proc, done>>
    BY <1>0, <1>2 DEF ReadFrame, NewBuf, Frames
  <2>2. mem' \in [Frames -> Nat] /\ \A b \in 1 .. nread' : mem'[b] = b
    <3>1. \A b \in 1 .. nread : b \in Frames /\ mem[b] = b
      BY <1>0 DEF Line, Frames
    <3> QED BY <1>0, <2>1, <3>1
  <2>3. Late = 0 /\ Late' = 1 /\ Turn' = Turn /\ reader'.buf = nread'
    BY <2>1 DEF Late, Turn
  <2>4. nread' \in 0 .. MaxFrames
    BY <1>0, <2>1 DEF Frames
  <2>5. nread' = Len(done) + Turn + Len(inputQ) + 1
    <3>1. nread = Len(done) + Turn + Len(inputQ) + 0
      BY <2>3 DEF Line
    <3>2. Turn \in Nat
      BY DEF Turn
    <3> QED BY <1>0, <2>1, <3>1, <3>2
  <2> QED BY <2>1, <2>2, <2>3, <2>4, <2>5 DEF Line
<1>3. CASE ReadFail
  <2>1. Late' = Late /\ Turn' = Turn /\ reader'.at # "put"
    BY <1>3 DEF ReadFail, Late, Turn
  <2> QED BY <1>3, <2>1 DEF ReadFail, Line
<1>4. CASE ReadPut
  <2>1. /\ reader.at = "put" /\ reader'.at = "read"
        /\ inputQ' = Append(inputQ, reader.buf)
        /\ UNCHANGED <<nread, mem, inputQ2, proc, done>>
    BY <1>4 DEF ReadPut, Reading
  <2>2. reader.buf = nread /\ Late = 1 /\ Late' = 0 /\ Turn' = Turn /\ Turn \in Nat
    BY <2>1 DEF Line, Late, Turn
  <2>3. nread = Len(done) + Turn + Len(inputQ) + 1
    BY <2>2 DEF Line
  <2> DEFINE k == Len(done) + Turn
             q == inputQ
  <2>4. \A i \in 1 .. Len(q) : q[i] = k + i
    BY DEF Line
  <2>5. k \in Nat /\ q \in Seq(Nat) /\ Len(q) \in Nat /\ nread \in Nat
        /\ nread = k + (Len(q) + 1) /\ inputQ' = Append(q, nread)
    BY <1>0, <2>1, <2>2, <2>3
  <2> HIDE DEF k, q
  <2>6. /\ Len(inputQ') = Len(q) + 1
        /\ \A i \in 1 .. Len(q) : inputQ'[i] = q[i]
        /\ inputQ'[Len(q) + 1] = nread
    BY <2>5
  <2>7. \A i \in 1 .. Len(inputQ') : inputQ'[i] = k + i
    <3> SUFFICES ASSUME NEW i \in 1 .. Len(q) + 1
                 PROVE  inputQ'[i] = k + i
      BY <2>6
    <3>1. CASE i = Len(q) + 1
      BY <2>5, <2>6, <3>1, Zenon
    <3>2. CASE i # Len(q) + 1
      <4>1. i \in 1 .. Len(q)
        BY <2>5, <3>2
      <4> QED BY <2>4, <2>6, <4>1, Zenon
    <3> QED BY <3>1, <3>2
  <2>8. nread = k + Len(inputQ') + 0
    BY <2>5, <2>6
  <2> QED BY <2>1, <2>2, <2>7, <2>8 DEF Line, k
<1>5. CASE ProcTake
  <2>1. /\ proc.at = "select" /\ inputQ # <<>> /\ inputQ' = Tail(inputQ)
        /\ proc'.at = "put2" /\ proc'.buf = Head(inputQ)
        /\ UNCHANGED <<nread, mem, reader, inputQ2, done>>
    BY <1>5 DEF ProcTake
  <2>2. Turn = 0 /\ Turn' = 1 /\ Late' = Late /\ Late \in Nat
    BY <2>1 DEF Turn, Late
  <2> DEFINE d == Len(done)
             q == inputQ
  <2>3. \A i \in 1 .. Len(q) : q[i] = d + 0 + i
    BY <2>2 DEF Line
  <2>4. nread = d + 0 + Len(q) + Late
    BY <2>2 DEF Line
  <2>5. d \in Nat /\ q \in Seq(Nat) /\ q # <<>> /\ Len(q) \in Nat
    BY <1>0, <2>1
  <2> HIDE DEF d, q
  <2>6. /\ Len(Tail(q)) = Len(q) - 1 /\ 1 \in 1 .. Len(q) /\ Head(q) = q[1]
        /\ \A i \in 1 .. Len(Tail(q)) : i + 1 \in 1 .. Len(q) /\ Tail(q)[i] = q[i + 1]
    BY <2>5
  <2>7. Head(q) = d + 1
    <3>1. Head(q) = d + 0 + 1
      BY <2>3, <2>6, Zenon
    <3> QED BY <2>5, <3>1
  <2>8. \A i \in 1 .. Len(Tail(q)) : Tail(q)[i] = d + 1 + i
    <3> SUFFICES ASSUME NEW i \in 1 .. Len(Tail(q))
                 PROVE  Tail(q)[i] = d + 1 + i
      OBVIOUS
    <3>1. Tail(q)[i] = d + 0 + (i + 1)
      BY <2>3, <2>6, Zenon
    <3> QED BY <2>5, <3>1
  <2>9. nread = d + 1 + Len(Tail(q)) + Late
    BY <2>2, <2>4, <2>5, <2>6
  <2> QED BY <2>1, <2>2, <2>7, <2>8, <2>9 DEF Line, d, q
<1>6. CASE ProcPut2
  <2>1. /\ proc.at = "put2" /\ inputQ2' = Append(inputQ2, proc.buf)
        /\ proc'.at = "input"
        /\ UNCHANGED <<nread, mem, reader, inputQ, done>>
    BY <1>6 DEF ProcPut2
  <2>2. inputQ2 = <<>> /\ proc.buf = Len(done) + 1
    BY <2>1 DEF NInv, TurnConsumesFrame, Line
  <2>3. inputQ2'[1] = Len(done) + 1
    BY <2>1, <2>2
  <2>4. Turn' = Turn /\ Late' = Late
    BY <2>1 DEF Turn, Late
  <2> QED BY <2>1, <2>3, <2>4 DEF Line
<1>7. ASSUME proc.at \in {"input", "handle"}, proc' = Select,
             done' = Append(done, Len(done) + 1),
             UNCHANGED <<nread, mem, reader, inputQ>>
      PROVE  Line'
  <2>1. Turn = 1 /\ Turn' = 0 /\ Late' = Late /\ Late \in Nat /\ proc'.at = "select"
    BY <1>7 DEF Turn, Late, Select
  <2> DEFINE d == Len(done)
             t == done
  <2>2. /\ \A i \in 1 .. Len(inputQ) : inputQ[i] = d + 1 + i
        /\ nread = d + 1 + Len(inputQ) + Late
        /\ \A i \in 1 .. d : t[i] = i
    BY <2>1 DEF Line
  <2>3. t \in Seq(Nat) /\ d = Len(t) /\ d \in Nat /\ d + 1 \in Nat /\ done' = Append(t, d + 1)
    BY <1>0, <1>7
  <2> HIDE DEF d, t
  <2>4. /\ done' \in Seq(Nat) /\ Len(done') = d + 1
        /\ \A i \in 1 .. d : done'[i] = t[i]
        /\ done'[d + 1] = d + 1
    BY <2>3
  <2>5. \A i \in 1 .. Len(done') : done'[i] = i
    <3> SUFFICES ASSUME NEW i \in 1 .. d + 1
                 PROVE  done'[i] = i
      BY <2>4
    <3>1. CASE i = d + 1
      BY <2>4, <3>1, Zenon
    <3>2. CASE i # d + 1
      <4>1. i \in 1 .. d
        BY <2>3, <3>2
      <4> QED BY <2>2, <2>4, <4>1, Zenon
    <3> QED BY <3>1, <3>2
  <2>6. /\ \A i \in 1 .. Len(inputQ) : inputQ[i] = Len(done') + 0 + i
        /\ nread = Len(done') + 0 + Len(inputQ) + Late
    BY <1>0, <2>1, <2>2, <2>3, <2>4
  <2> QED BY <1>7, <2>1, <2>4, <2>5, <2>6 DEF Line
<1>8. CASE GoInput
  <2>1. /\ proc.at = "input" /\ Len(inputQ2) = 1 /\ inputQ2[1] = Len(done) + 1
    BY <1>8 DEF GoInput, NInv, TurnConsumesFrame, Line
  <2>2. inputQ2 # <<>> /\ Head(inputQ2) = Len(done) + 1
    <3>1. inputQ2 # <<>>
      BY <1>0, <2>1, LastTaken
    <3>2. Head(inputQ2) = inputQ2[1]
      BY <1>0, <3>1
    <3> QED BY <2>1, <3>1, <3>2, Zenon
  <2>3. mem[Len(done) + 1] = Len(done) + 1
    <3>1. Len(done) + 1 \in 1 .. nread
      BY <1>0, <2>1 DEF Line, Turn, Late
    <3> QED BY <3>1 DEF Line
  <2>4. PICK ok \in PbufAlloc :
          IF ok
          THEN /\ proc' = [at |-> "handle", buf |-> 0,
                           frame |-> mem[Head(inputQ2)]]
               /\ UNCHANGED done
          ELSE done' = Append(done, mem[Head(inputQ2)]) /\ proc' = Select
    BY <1>8, <2>2 DEF GoInput
  <2>5. UNCHANGED <<nread, mem, reader, inputQ>>
    BY <1>8 DEF GoInput
  <2>6. CASE ok
    <3>1. proc'.at = "handle" /\ proc'.frame = Len(done) + 1 /\ UNCHANGED done
      BY <2>2, <2>3, <2>4, <2>6
    <3>2. Turn' = Turn /\ Late' = Late
      BY <2>1, <2>5, <3>1 DEF Turn, Late
    <3> QED BY <2>5, <3>1, <3>2 DEF Line
  <2>7. CASE ~ok
    BY <1>7, <2>1, <2>2, <2>3, <2>4, <2>5, <2>7
  <2> QED BY <2>6, <2>7
<1>9. CASE NetifInput
  <2>1. proc.at = "handle" /\ proc.frame = Len(done) + 1
    BY <1>9 DEF NetifInput, Line
  <2> QED BY <1>7, <1>9, <2>1 DEF NetifInput
<1>10. CASE ProcServe \/ ServeDone
  <2>1. /\ proc.at \in {"select", "serve"} /\ proc'.at \in {"select", "serve"}
        /\ UNCHANGED <<nread, mem, reader, inputQ, done>>
    BY <1>10 DEF ProcServe, ServeDone, Select
  <2>2. Turn' = Turn /\ Late' = Late
    BY <2>1 DEF Turn, Late
  <2> QED BY <2>1, <2>2 DEF Line
<1>11. CASE Ask \/ UNCHANGED nvars
  BY <1>1, <1>11 DEF Ask, nvars
<1> QED BY <1>2, <1>3, <1>4, <1>5, <1>6, <1>8, <1>9, <1>10, <1>11
        DEF Next, Proc

\* The whole invariant holds always.
LEMMA SpecPath == Spec => []PathInv
<1>1. Init => PathInv
  BY InitNInv, InitPath DEF PathInv
<1>2. PathInv /\ [Next]_nvars => PathInv'
  BY NextNInv, NextLine DEF PathInv
<1> QED BY <1>1, <1>2, PTL DEF Spec

\* Whatever the sizes of the channels and whenever the pool is empty, every
\* frame read from the tap device is at one place between go_netif_read and lwIP with its own
\* bytes, and none overtakes another.
THEOREM FramesKeepOrder == Spec => []FramesInOrder
<1>1. PathInv => FramesInOrder
  BY LineMeans DEF PathInv
<1> QED BY <1>1, SpecPath, PTL
=============================================================================
