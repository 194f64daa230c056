---------------------------- MODULE MCMastermind1 ----------------------------
(* Mastermind1 for TLC: a guess with a repeated colour. *)
EXTENDS Mastermind1, TLC

MCGuesses == {<<0, 0, 1, 2>>}
ThreadSymmetry == Permutations(Threads)
=============================================================================
