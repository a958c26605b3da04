---------------------------- MODULE EchoService ----------------------------
(***************************************************************************)
(* What the echo service promises a client of TCP port 7 (the comment of   *)
(* src/tcp.c and the io.Copy of echo/echo.go), whatever goes on inside:    *)
(* the bytes that come back are the bytes that went in, in order, without  *)
(* gap or repetition, and none comes back once the connection is closed.   *)
(* Whether all of them come back is not part of this promise.              *)
(***************************************************************************)
EXTENDS Integers, Sequences

CONSTANTS Clients,  \* connections
          Pieces    \* segments one chunk of input is echoed in, at least 1

VARIABLES sent,     \* sent[c]: chunks the client has sent
          out,      \* out[c]: the segments echoed to it
          closed    \* closed[c]: either side has closed the connection

svars == <<sent, out, closed>>

\* The i-th segment of the input of a client.
Nth(i) == <<((i - 1) \div Pieces) + 1, ((i - 1) % Pieces) + 1>>

Init == /\ sent = [c \in Clients |-> 0]
        /\ out = [c \in Clients |-> <<>>]
        /\ closed = [c \in Clients |-> FALSE]

\* The client sends a chunk; it may do so before it learns of a close.
Send(c) == /\ sent' = [sent EXCEPT ![c] = @ + 1]
           /\ UNCHANGED <<out, closed>>

\* The service returns the next m segments of what has been sent.
Emit(c, m) ==
  /\ ~closed[c]
  /\ Len(out[c]) + m <= Pieces * sent[c]
  /\ out' = [out EXCEPT ![c] =
               @ \o [i \in 1 .. m |-> Nth(Len(out[c]) + i)]]
  /\ UNCHANGED <<sent, closed>>

Close(c) == /\ ~closed[c]
            /\ closed' = [closed EXCEPT ![c] = TRUE]
            /\ UNCHANGED <<sent, out>>

Next == \E c \in Clients : \/ Send(c)
                           \/ \E m \in 1 .. Pieces : Emit(c, m)
                           \/ Close(c)

Spec == Init /\ [][Next]_svars
=============================================================================
