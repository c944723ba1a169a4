------------------------- MODULE MCNativeBufferPool -------------------------
(* Small instances of NativeBufferPool for TLC. *)
EXTENDS NativeBufferPool, TLC

CONSTANTS r1, r2, r3, r4, main

\* Directory snapshots of one webview, of one size class; r4 is over the limit.
MCOneWebview == [r \in Requests |-> main]
MCSameBytes == [r \in Requests |-> IF r = r4 THEN 16385 ELSE 5000]

\* Two payloads of one size class, at its edges, and the least of the next.
MCBytes == [r \in Requests |->
  CASE r = r1 -> 8192 [] r = r2 -> 4097 [] r = r3 -> 8193]

\* Sound for MCSameBytes, where r1, r2 and r3 are alike.
Symmetry == Permutations({r1, r2, r3}) \cup Permutations(Buffers)
=============================================================================
