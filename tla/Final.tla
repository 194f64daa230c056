------------------------------- MODULE Final --------------------------------
(***************************************************************************)
(* The quiz of final/final.c: kernel threads, one mutex and two            *)
(* completions.  A thread waits for a completion without the mutex and     *)
(* takes the mutex afterwards ("granted" lies between the two); from there *)
(* to its next wait it holds the mutex, asleep or not: one step.  A        *)
(* completion is its count "done".  complete wakes the first waiter, but a *)
(* thread that begins to wait may take the count before it runs, so any    *)
(* waiter may take it.                                                     *)
(***************************************************************************)
EXTENDS QuizGame

VARIABLES
  cont_cv, alex_cv,
  play, alex,     (* where the threads are                                   *)
  loaded          (* jeop_exit has not freed the contestants                 *)

cvVars == <<cont_cv, alex_cv>>
vars == <<gameVars, cvVars, play, alex, loaded>>

TypeOK ==
  /\ GameTypeOK
  /\ cont_cv \in Nat /\ alex_cv \in Nat
  /\ play \in [Contestants -> {"starts", "waits", "granted", "ends", "done"}]
  /\ alex \in {"starts", "waits", "granted", "ends", "done"}
  /\ loaded \in BOOLEAN

Go(c, from, to) ==
  /\ loaded
  /\ play[c] = from
  /\ play' = [play EXCEPT ![c] = to]
  /\ UNCHANGED <<alex, loaded>>

AlexGo(from, to) ==
  /\ loaded
  /\ alex = from
  /\ alex' = to
  /\ UNCHANGED <<play, loaded>>

-----------------------------------------------------------------------------
Start(c) == Go(c, "starts", "waits") /\ GetReady /\ UNCHANGED cvVars

(* wait_for_completion_interruptible(&cont_cv); a kthread gets no signals. *)
Take(c) ==
  /\ Go(c, "waits", "granted")
  /\ cont_cv > 0 /\ cont_cv' = cont_cv - 1
  /\ UNCHANGED <<gameVars, alex_cv>>

(* The mutex is taken and cont_cv reinitialised; then the loop is left,    *)
Leave(c) ==
  /\ Go(c, "granted", "ends")
  /\ GameOver
  /\ cont_cv' = 0
  /\ UNCHANGED <<gameVars, alex_cv>>

(* or goes on without a word, if the contestant may not buzz in,           *)
PassOn(c) ==
  /\ Go(c, "granted", "waits")
  /\ ~GameOver /\ c \notin can_buzz_in
  /\ cont_cv' = 0
  /\ UNCHANGED <<gameVars, alex_cv>>

AnswerRight(c) ==
  /\ Go(c, "granted", "waits")
  /\ Right(c)
  /\ cont_cv' = 0 /\ alex_cv' = alex_cv + 1

(* Fault: cont_cv is completed by the last failure too. *)
AnswerWrongBoth(c) ==
  /\ Go(c, "granted", "waits")
  /\ Wrong(c)
  /\ cont_cv' = 1
  /\ alex_cv' = IF AllFailed THEN alex_cv + 1 ELSE alex_cv

(* Fault: a failure before the last tells nobody. *)
AnswerWrongSilent(c) ==
  /\ Go(c, "granted", "waits")
  /\ Wrong(c)
  /\ cont_cv' = 0
  /\ alex_cv' = IF AllFailed THEN alex_cv + 1 ELSE alex_cv

AnswerWrong(c) ==
  /\ Go(c, "granted", "waits")
  /\ Wrong(c)
  /\ IF AllFailed THEN cont_cv' = 0 /\ alex_cv' = alex_cv + 1
                  ELSE cont_cv' = 1 /\ UNCHANGED alex_cv

(* Fault: the turn ends with the first contestant who leaves. *)
ReturnSilently(c) == Go(c, "ends", "done") /\ UNCHANGED <<gameVars, cvVars>>

(* After the mutex is released, cont_cv is passed to the next contestant.  *)
Return(c) ==
  /\ Go(c, "ends", "done")
  /\ cont_cv' = cont_cv + 1
  /\ UNCHANGED <<gameVars, alex_cv>>

-----------------------------------------------------------------------------
FirstQuestion ==
  /\ AlexGo("starts", "waits")
  /\ ready >= N
  /\ AskQuestion(0)
  /\ cont_cv' = cont_cv + 1 /\ UNCHANGED alex_cv

AlexTake ==
  /\ AlexGo("waits", "granted")
  /\ alex_cv > 0 /\ alex_cv' = alex_cv - 1
  /\ UNCHANGED <<gameVars, cont_cv>>

NextQuestion ==
  /\ AlexGo("granted", "waits")
  /\ AskQuestion(num + 1)
  /\ cont_cv' = cont_cv + 1 /\ alex_cv' = 0

LastQuestionDone ==
  /\ AlexGo("granted", "ends")
  /\ EndGame
  /\ alex_cv' = 0 /\ UNCHANGED cont_cv

AlexReturn ==
  /\ AlexGo("ends", "done")
  /\ cont_cv' = cont_cv + 1
  /\ UNCHANGED <<gameVars, alex_cv>>

(* jeop_exit frees the contestants and the module goes, whatever its       *)
(* threads are doing; nothing is claimed of what they do then.             *)
Exit ==
  /\ loaded /\ loaded' = FALSE
  /\ UNCHANGED <<gameVars, cvVars, play, alex>>

-----------------------------------------------------------------------------
Init ==
  /\ GameInit
  /\ cont_cv = 0 /\ alex_cv = 0
  /\ play = [c \in Contestants |-> "starts"] /\ alex = "starts"
  /\ loaded = TRUE

Play(c) ==
  \/ Start(c) \/ Take(c) \/ Leave(c) \/ PassOn(c)
  \/ AnswerRight(c) \/ AnswerWrong(c) \/ Return(c)
Host == FirstQuestion \/ AlexTake \/ NextQuestion \/ LastQuestionDone \/ AlexReturn

Next == (\E c \in Contestants : Play(c)) \/ Host \/ Exit

(* Every thread that can run does. *)
Spec == Init /\ [][Next]_vars
FairSpec == Spec /\ WF_vars(Host) /\ \A c \in Contestants : WF_vars(Play(c))

-----------------------------------------------------------------------------
(***************************************************************************)
(* The turn is a token that goes round through both completions.           *)
(***************************************************************************)
Holders == {c \in Contestants : play[c] \in {"granted", "ends"}}
Turns == cont_cv + alex_cv + Cardinality(Holders)
           + (IF alex \in {"granted", "ends"} THEN 1 ELSE 0)

(* There is never more than one turn, so no two contestants answer at once *)
(* and no reinit_completion wipes out a signal that somebody waits for.    *)
OneTurn == Turns <= 1

(* The turn is with the host, or on its way to it, only when the question  *)
(* is settled (comment at final.c:95), and with a contestant only when it  *)
(* is open, or the game is over.                                           *)
TurnMatchesQuestion ==
  /\ alex_cv > 0 \/ alex = "granted" => Settled
  /\ cont_cv > 0 \/ (\E c \in Contestants : play[c] = "granted")
       => ~Settled \/ GameOver

(* The two rest on how the phases of the game fit together.                *)
Arrived == {c \in Contestants : play[c] # "starts"}
Phases ==
  /\ ready = Cardinality(Arrived)
  /\ alex = "starts" => num = 0 /\ Settled /\ Turns = 0
  /\ alex \in {"ends", "done"} => GameOver
  /\ \A c \in Contestants : play[c] = "ends" => GameOver
QuizInv == TypeOK /\ TriesCounted /\ Phases /\ OneTurn /\ TurnMatchesQuestion

(* The turn is lost only in the middle of an open question, after a wrong  *)
(* answer: a contestant who may not buzz in any more waits again and takes *)
(* it before the next one has woken up.  It is not lost between questions, *)
(* at the end of the game, or to reinit_completion.                        *)
TurnLostOnlyAfterFailure ==
  [][Turns' < Turns => ~Settled /\ failed_tries \in 1..(N - 1)]_vars

Q == INSTANCE Quiz WITH
       asked <- IF alex = "starts" THEN 0 ELSE Asked, may <- can_buzz_in
IsQuiz == Q!Spec

(* The game ends for all threads, unless the turn is lost or the module is *)
(* removed.                                                                *)
Ended == alex = "done" /\ \A c \in Contestants : play[c] = "done"
Stuck == alex = "waits" /\ Turns = 0
EndsOrSticks == <>(Ended \/ Stuck \/ ~loaded)
=============================================================================
