-------------------------------- MODULE Quiz --------------------------------
(***************************************************************************)
(* What the quiz games of midterm/midterm.c and final/final.c promise:     *)
(* the host asks one question after the other, every contestant tries it   *)
(* at most once, the first correct answer ends it, and the next question   *)
(* waits until it was won or everyone has failed.  A question is worth its *)
(* number (times 200), which a contestant wins or loses.                   *)
(***************************************************************************)
EXTENDS Integers

CONSTANTS Contestants, NumQuestions

VARIABLES
  asked,        (* questions asked so far                                    *)
  may,          (* contestants who may still try the last one                *)
  score

vars == <<asked, may, score>>

Init == asked = 0 /\ may = {} /\ score = [c \in Contestants |-> 0]

Ask ==
  /\ may = {} /\ asked < NumQuestions
  /\ asked' = asked + 1
  /\ may' = Contestants
  /\ UNCHANGED score

Try(c, points, others) ==
  /\ c \in may
  /\ may' = others
  /\ score' = [score EXCEPT ![c] = @ + points]
  /\ UNCHANGED asked

Win(c)  == Try(c, asked, {})
Miss(c) == Try(c, -asked, may \ {c})

Next == Ask \/ \E c \in Contestants : Win(c) \/ Miss(c)

Spec == Init /\ [][Next]_vars
=============================================================================
