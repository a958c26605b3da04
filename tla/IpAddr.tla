------------------------------- MODULE IpAddr -------------------------------
(***************************************************************************)
(* How the Go side sees an address of lwIP: cs_ip_len and cs_ip_get        *)
(* (src/cs.c), go_cs_ip_len and go_cs_ip_get (lwipcs.c).                   *)
(*                                                                         *)
(* An ip_addr_t is [type, bytes]: "v4" with 4 bytes or "v6" with 16, in    *)
(* the order they have on the wire.                                        *)
(***************************************************************************)
EXTENDS Integers, Sequences

CONSTANT CharSigned   \* char is signed, as on x86; on ARM it is not

\* An ip_addr_t of either kind.
IsAddr(a) ==
  \/ a \in [type : {"v4"}, bytes : [1 .. 4 -> 0 .. 255]]
  \/ a \in [type : {"v6"}, bytes : [1 .. 16 -> 0 .. 255]]

\* cs_ip_len and go_cs_ip_len
IpLen(a) == IF a.type = "v6" THEN 16 ELSE 4

\* (char)x >> n for n = 8, 16, 24: the cast binds first, so that what is
\* shifted is the last byte b of the word, and what is left is its sign.
CastShift(b) == IF CharSigned /\ b >= 128 THEN 255 ELSE 0

\* The last of the four bytes of the word that holds byte i.
WordEnd(i) == 4 * ((i + 3) \div 4)

\* cs_ip_get: the bytes it puts in buf.
IpGet(a) ==
  [i \in 1 .. IpLen(a) |->
     IF a.type = "v6" /\ i # WordEnd(i)
     THEN CastShift(a.bytes[WordEnd(i)])
     ELSE a.bytes[i]]
=============================================================================
