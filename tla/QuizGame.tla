------------------------------ MODULE QuizGame -------------------------------
(***************************************************************************)
(* The state of a quiz and what host and contestants do to it, the same in *)
(* midterm/midterm.c and final/final.c, which differ in how the threads    *)
(* wait for each other.  Everything here happens under the mutex.          *)
(***************************************************************************)
EXTENDS Integers, FiniteSets

CONSTANTS
  Contestants,
  NumQuestions    (* questions in the game                                   *)

ASSUME ContestantsAssumption == IsFiniteSet(Contestants) /\ Contestants # {}
ASSUME QuestionsAssumption == NumQuestions \in Nat \ {0}

VARIABLES
  ready, num, failed_tries,
  can_buzz_in,    (* the contestants whose flag is set                       *)
  score           (* in units of 200                                         *)

gameVars == <<ready, num, failed_tries, can_buzz_in, score>>

N == Cardinality(Contestants)

GameInit ==
  /\ ready = 0 /\ num = 0 /\ failed_tries = 0 /\ can_buzz_in = {}
  /\ score = [c \in Contestants |-> 0]

GameTypeOK ==
  /\ ready \in 0..N /\ num \in 0..NumQuestions /\ failed_tries \in 0..N
  /\ can_buzz_in \subseteq Contestants
  /\ score \in [Contestants -> Int]

GameOver == num >= NumQuestions
Settled  == can_buzz_in = {}

(* While a question is open, failed_tries counts those who failed it.      *)
TriesCounted ==
  ~Settled => failed_tries = Cardinality(Contestants \ can_buzz_in)

GetReady == ready' = ready + 1 /\ UNCHANGED <<num, failed_tries, can_buzz_in, score>>

(* The answer to a question is random: it is right or wrong. *)
Answer(c, points) ==
  /\ ~GameOver /\ c \in can_buzz_in
  /\ score' = [score EXCEPT ![c] = @ + points]
  /\ UNCHANGED <<ready, num>>

(* Fault: the other contestants keep their buzzers. *)
RightAlone(c) ==
  /\ Answer(c, num + 1)
  /\ can_buzz_in' = can_buzz_in \ {c}
  /\ UNCHANGED failed_tries

Right(c) ==
  /\ Answer(c, num + 1)
  /\ can_buzz_in' = {}
  /\ UNCHANGED failed_tries

(* Fault: a contestant who failed may try again. *)
WrongAgain(c) ==
  /\ Answer(c, -(num + 1))
  /\ failed_tries' = failed_tries + 1
  /\ UNCHANGED can_buzz_in

Wrong(c) ==
  /\ Answer(c, -(num + 1))
  /\ failed_tries' = failed_tries + 1
  /\ can_buzz_in' = can_buzz_in \ {c}

AllFailed == failed_tries' >= N

(* The host asks question n, or ends the game. *)
AskQuestion(n) ==
  /\ n < NumQuestions
  /\ num' = n /\ failed_tries' = 0 /\ can_buzz_in' = Contestants
  /\ UNCHANGED <<ready, score>>

EndGame ==
  /\ num + 1 = NumQuestions
  /\ num' = num + 1 /\ can_buzz_in' = {}
  /\ UNCHANGED <<ready, failed_tries, score>>

(* Questions asked, when the host has asked the first one. *)
Asked == IF GameOver THEN NumQuestions ELSE num + 1
=============================================================================
