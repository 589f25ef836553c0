--------------------------- MODULE MCTimingWheel ----------------------------
(* Small instances of TimingWheel for TLC. *)
EXTENDS TimingWheel, TLC

\* Task objects are interchangeable: sound for runs of a safety property.
TaskSymmetry == Permutations(Tasks)
=============================================================================
