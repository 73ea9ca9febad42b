------------------------- MODULE MCStreamManagement -------------------------
(* Instances of StreamManagement for TLC: the .cfg files give the bounds.   *)
(* The goroutines that send are interchangeable.                            *)
EXTENDS StreamManagement, TLC

Symmetry == Permutations(Senders)
=============================================================================
