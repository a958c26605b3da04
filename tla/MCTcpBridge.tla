---------------------------- MODULE MCTcpBridge ----------------------------
(* Small instances of TcpBridge for TLC.                                   *)
EXTENDS TcpBridge, TLC

\* Connections and blocks, es addresses and writers are interchangeable.
Symmetry == Permutations(Conns) \cup Permutations(Blocks)
              \cup Permutations(Heap) \cup Permutations(Writers)
=============================================================================
