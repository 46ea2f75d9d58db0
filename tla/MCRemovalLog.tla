---------------------------- MODULE MCRemovalLog ----------------------------
(* Instances of RemovalLog for TLC: the stream is trimmed several times.    *)
EXTENDS RemovalLog
=============================================================================
