---------------------------- MODULE MCIQRouter ----------------------------
(* Instances of IQRouter for TLC.                                          *)
EXTENDS IQRouter

CONSTANTS c1, c2, q1

(* Every stanza has an id of its own.                                      *)
DistinctIds == [p \in Packets |-> p]

(* The request of the peer carries the id of the call c1.                  *)
SharedId == [p \in Packets |-> IF p = c2 THEN c2 ELSE c1]
===========================================================================
