---------------------------- MODULE MCMastermind2 ----------------------------
(***************************************************************************)
(* Mastermind2 for TLC: two processes of user 1 and one of user 2.  The    *)
(* processes of a user are interchangeable.                                *)
(***************************************************************************)
EXTENDS Mastermind2, TLC

CONSTANTS p1, p2, q

MCUidOf == [t \in Threads |-> IF t = q THEN 2 ELSE 1]
Alike   == Permutations({p1, p2})

(* A code with a colour that the smaller palette does not have, which the  *)
(* network brings and the players guess, and one no palette has.           *)
MCGuesses == {<<5, 2, 0, 0>>}
MCPackets == {<<5, 2, 0, 0>>, <<-1, 0, 0, 6>>}

(* A byte below '0' on the stack. *)
MCGarbage == {-1}
=============================================================================
