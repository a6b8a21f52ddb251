-------------------------- MODULE MCMirroredWrites --------------------------
(* MirroredWrites for two transactions. *)
EXTENDS MirroredWrites, TLC

MirrorSymmetry == Permutations(Trxs) \cup Permutations(Saves)
=============================================================================
