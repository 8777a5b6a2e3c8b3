-------------------------- MODULE MCDaemonStreams --------------------------
(* Small instances of DaemonStreams for TLC. *)
EXTENDS DaemonStreams, TLC
CONSTANTS s1, s2, s3, c1, k1, k2
ThreeStreams == {s1, s2, s3}
TwoConns == {k1, k2}
OneCommand == {c1}
\* Nothing tells one stream, or one connection, from another
StreamSymmetry == Permutations(ThreeStreams) \cup Permutations(TwoConns)
=============================================================================
