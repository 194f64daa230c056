---------------------------- MODULE MCFrameAlloc ----------------------------
(* FrameAlloc for TLC: the callers are interchangeable. *)
EXTENDS FrameAlloc, TLC

ThreadSymmetry == Permutations(Threads)
=============================================================================
