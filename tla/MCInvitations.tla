---------------------------- MODULE MCInvitations ----------------------------
(* Invitations for TLC, with symmetry.                                     *)
EXTENDS Invitations, TLC

MCSymmetry == Permutations(Companies) \cup Permutations(Emails) \cup Permutations(Requests)
=============================================================================
