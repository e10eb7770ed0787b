---------------------------- MODULE MCCvParsing ----------------------------
(* Model values and symmetry for checking CvParsing.                        *)
EXTENDS CvParsing, TLC

\* Jobs and contents are interchangeable; sound for the runs without liveness.
JobContentSymmetry == Permutations(Jobs) \cup Permutations(Content)
=============================================================================
