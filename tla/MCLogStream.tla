---------------------------- MODULE MCLogStream ----------------------------
(* The build of d1 and the metrics loop write lines.                       *)
EXTENDS LogStream

CONSTANTS build, metrics, d1

MCSays ==
  [w \in Writers |-> IF w = build THEN {[topic |-> d1, type |-> "build"]}
                     ELSE {[topic |-> All, type |-> "metrics"]}]
=============================================================================
