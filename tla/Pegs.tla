-------------------------------- MODULE Pegs --------------------------------
(***************************************************************************)
(* Scoring a guess: the two loops of mm_write, which differ between        *)
(* proj1/mastermind.c and proj2/mastermind2.c.  Both keep one array        *)
(* peg_color for the pegs of the guess and of the code alike: marked is    *)
(* the set of its indices that hold 1.                                     *)
(***************************************************************************)
EXTENDS Naturals, FiniteSets

NUM_PEGS == 4
Pegs == 1..NUM_PEGS

Black(code, guess) == {i \in Pegs : code[i] = guess[i]}

Places(code, guess, i) == {j \in Pegs : code[j] = guess[i]}

FirstOf(J) == CHOOSE j \in J : \A k \in J : j <= k

(* Fault: the place that counted is not marked. *)
LookUpUnmarked(code, guess, i, s) ==
  LET J == Places(code, guess, i) IN
  IF i \notin s.marked /\ J # {} /\ FirstOf(J) \notin s.marked
  THEN [s EXCEPT !.white = s.white + 1]
  ELSE s

(* proj2: an unmarked peg i of the guess looks at the first place of its   *)
(* colour only, and counts when that place is not marked.                  *)
LookUp(code, guess, i, s) ==
  LET J == Places(code, guess, i) IN
  IF i \notin s.marked /\ J # {} /\ FirstOf(J) \notin s.marked
  THEN [white |-> s.white + 1, marked |-> s.marked \cup {FirstOf(J)}]
  ELSE s

(* Fault: the inner loop ends at the first place of the colour. *)
MarkFirst(code, guess, i, s) ==
  LET J == Places(code, guess, i) IN
  IF J # {} /\ FirstOf(J) \notin s.marked
  THEN [white |-> s.white + 1, marked |-> s.marked \cup {FirstOf(J)}]
  ELSE s

(* proj1: every peg i of the guess counts every unmarked place of its      *)
(* colour.                                                                 *)
MarkAll(code, guess, i, s) ==
  LET J == Places(code, guess, i) \ s.marked IN
  [white |-> s.white + Cardinality(J), marked |-> s.marked \cup J]

Unscored(code, guess) == [white |-> 0, marked |-> Black(code, guess)]

NumBlack(code, guess) == Cardinality(Black(code, guess))

NumWhite(code, guess) ==
  LET L(i, s) == LookUp(code, guess, i, s)
  IN  L(4, L(3, L(2, L(1, Unscored(code, guess))))).white

NumWhiteProj1(code, guess) ==
  LET M(i, s) == MarkAll(code, guess, i, s)
  IN  M(4, M(3, M(2, M(1, Unscored(code, guess))))).white
=============================================================================
