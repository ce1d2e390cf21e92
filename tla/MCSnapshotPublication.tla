------------------------ MODULE MCSnapshotPublication ------------------------
(* The instances of SnapshotPublication that TLC checks: one worker of each *)
(* kind needs no symmetry.                                                  *)
EXTENDS SnapshotPublication
=============================================================================
