------------------------------- MODULE MCUdp -------------------------------
(* Remote addresses for TLC.                                               *)
EXTENDS UdpBridge

V4(b) == [ip |-> [type |-> "v4", bytes |-> <<192, 168, 100, b>>],
          port |-> 53]
V6(b) == [ip |-> [type |-> "v6",
                  bytes |-> <<254, 128, 0, 0, 0, 0, 0, 0,
                              2, b, 94, 255, 254, 0, 83, 200>>],
          port |-> 53]

\* Two IPv4 hosts that differ in the last byte.
V4Remotes == {V4(1), V4(2)}

\* An IPv4 host and the two IPv6 hosts below.
MixedRemotes == {V4(1), V6(17), V6(18)}

\* Two link-local addresses that differ in a byte that is not the last of a
\* word: cs_ip_get makes the same bytes of them.
V6Remotes == {V6(17), V6(18)}
=============================================================================
