------------------------------ MODULE Mailbox ------------------------------
(***************************************************************************)
(* What a mailbox of src/sys.c promises: a bounded FIFO.  Posting and      *)
(* fetching are single steps; a message is refused only when the mailbox   *)
(* is full.                                                                *)
(***************************************************************************)
EXTENDS Naturals, Sequences

CONSTANTS Msgs, Capacity

VARIABLES queue, got, refused

mvars == <<queue, got, refused>>

Init == queue = <<>> /\ got = <<>> /\ refused = {}

Post(m) ==
  /\ Len(queue) < Capacity
  /\ queue' = Append(queue, m)
  /\ UNCHANGED <<got, refused>>

Fetch ==
  /\ queue # <<>>
  /\ got' = Append(got, Head(queue))
  /\ queue' = Tail(queue)
  /\ UNCHANGED refused

Refuse(m) ==
  /\ Len(queue) = Capacity
  /\ refused' = refused \cup {m}
  /\ UNCHANGED <<queue, got>>

Next == (\E m \in Msgs : Post(m) \/ Refuse(m)) \/ Fetch

Spec == Init /\ [][Next]_mvars
=============================================================================
