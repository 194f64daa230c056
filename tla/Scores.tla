------------------------------- MODULE Scores -------------------------------
(***************************************************************************)
(* The scores of every pair of a code and a guess, against the rules of    *)
(* the game: a peg of the guess and a peg of the code pair up once.        *)
(***************************************************************************)
EXTENDS Pegs, FiniteSetsExt

CONSTANT NumColors   (* Bound: colours that codes and guesses are made of. *)

ASSUME ColorsAssumption == NumColors \in Nat

VARIABLES target_code, user_guess

Colors == 0..(NumColors - 1)
Codes  == [Pegs -> Colors]

GuessInit == target_code \in Codes /\ user_guess = target_code
(* The player writes another guess, one peg at a time. *)
GuessNext ==
  /\ \E p \in Pegs, c \in Colors :
       user_guess' = [user_guess EXCEPT ![p] = c]
  /\ UNCHANGED target_code
GuessSpec == GuessInit /\ [][GuessNext]_<<target_code, user_guess>>

-----------------------------------------------------------------------------
black == NumBlack(target_code, user_guess)
white == NumWhite(target_code, user_guess)
whiteProj1 == NumWhiteProj1(target_code, user_guess)

Uses(s, c) == Cardinality({i \in Pegs : s[i] = c})

(* Pegs of the right colour by the rules of the game, black ones included. *)
Common(c) == Min({Uses(target_code, c), Uses(user_guess, c)})
Matches   == MapThenSumSet(Common, Colors)

(* proj2 never shows more pegs than the rules allow, although it marks     *)
(* pegs of the guess and of the code in one array.                         *)
NeverOverscores == black + white <= Matches

(* proj1 never shows fewer pegs than the rules allow, nor more than there  *)
(* are: it counts one peg of the guess several times, but no place of the  *)
(* code twice.  When no colour repeats in the code or in the guess it is   *)
(* exact.                                                                  *)
NoRepeats ==
  \A c \in Colors :
    Uses(target_code, c) <= 1 /\ Uses(user_guess, c) <= 1
OverscoresRepeatsOnlyProj1 ==
  LET shown == black + whiteProj1
  IN  /\ shown \in Matches..NUM_PEGS
      /\ NoRepeats => shown = Matches
=============================================================================
