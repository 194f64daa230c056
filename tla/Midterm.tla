------------------------------- MODULE Midterm -------------------------------
(***************************************************************************)
(* The quiz of midterm/midterm.c: threads, one mutex and two condition     *)
(* variables.  A thread holds the mutex from its return out of             *)
(* pthread_cond_wait to its next call of it (it even sleeps with it), so   *)
(* that stretch is one step.  "woken" is a thread that a signal took out   *)
(* of its wait and that wants the mutex.                                   *)
(***************************************************************************)
EXTENDS QuizGame

CONSTANT Spurious     (* threads that may wake up without a signal           *)

Alex == "Alex"
ASSUME SpuriousAssumption ==
  Alex \notin Contestants /\ Spurious \subseteq Contestants \cup {Alex}

VARIABLES
  play,           (* where each contestant's thread is                       *)
  alex            (* where main is                                           *)

vars == <<gameVars, play, alex>>

TypeOK ==
  /\ GameTypeOK
  /\ play \in [Contestants -> {"starts", "waits", "woken", "done"}]
  /\ alex \in {"starts", "waits", "woken", "joins", "done"}

Go(c, from, to) ==
  /\ play[c] = from
  /\ play' = [play EXCEPT ![c] = to]

Broadcast ==
  play' = [c \in Contestants |-> IF play[c] = "waits" THEN "woken" ELSE play[c]]

SignalAlex == alex' = IF alex = "waits" THEN "woken" ELSE alex

-----------------------------------------------------------------------------
Start(c) == Go(c, "starts", "waits") /\ GetReady /\ UNCHANGED alex

Leave(c) == Go(c, "woken", "done") /\ GameOver /\ UNCHANGED <<gameVars, alex>>

(* The contestant may not buzz in: the loop goes on. *)
PassOn(c) ==
  /\ Go(c, "woken", "waits")
  /\ ~GameOver /\ c \notin can_buzz_in
  /\ UNCHANGED <<gameVars, alex>>

AnswerRight(c) == Go(c, "woken", "waits") /\ Right(c) /\ SignalAlex

(* Fault: the last failure is not signalled. *)
AnswerWrongSilent(c) ==
  /\ Go(c, "woken", "waits")
  /\ Wrong(c)
  /\ IF failed_tries' > N THEN SignalAlex ELSE UNCHANGED alex

AnswerWrong(c) ==
  /\ Go(c, "woken", "waits")
  /\ Wrong(c)
  /\ IF AllFailed THEN SignalAlex ELSE UNCHANGED alex

(* main waits for the contestants, then asks; the mutex is held from its   *)
(* return out of pthread_cond_wait until it waits for the next question.   *)
FirstQuestion ==
  /\ alex = "starts" /\ ready >= N
  /\ AskQuestion(0) /\ Broadcast /\ alex' = "waits"

(* Fault: one contestant is signalled, not all of them. *)
NextQuestionSignal ==
  /\ alex = "woken"
  /\ AskQuestion(num + 1)
  /\ \E c \in Contestants :
       play' = [play EXCEPT ![c] = IF @ = "waits" THEN "woken" ELSE @]
  /\ alex' = "waits"

NextQuestion ==
  /\ alex = "woken"
  /\ AskQuestion(num + 1) /\ Broadcast /\ alex' = "waits"

LastQuestionDone ==
  /\ alex = "woken"
  /\ EndGame /\ Broadcast /\ alex' = "joins"

Join ==
  /\ alex = "joins" /\ \A c \in Contestants : play[c] = "done"
  /\ alex' = "done"
  /\ UNCHANGED <<gameVars, play>>

WakeSpuriously ==
  /\ UNCHANGED gameVars
  /\ \/ \E c \in Spurious \ {Alex} : Go(c, "waits", "woken") /\ UNCHANGED alex
     \/ Alex \in Spurious /\ alex = "waits" /\ SignalAlex /\ UNCHANGED play

-----------------------------------------------------------------------------
Init ==
  /\ GameInit
  /\ play = [c \in Contestants |-> "starts"] /\ alex = "starts"

Play(c) == Start(c) \/ Leave(c) \/ PassOn(c) \/ AnswerRight(c) \/ AnswerWrong(c)
Host    == FirstQuestion \/ NextQuestion \/ LastQuestionDone \/ Join

Next == (\E c \in Contestants : Play(c)) \/ Host \/ WakeSpuriously

(* Every thread that can run does, also when others keep taking the mutex. *)
Spec == Init /\ [][Next]_vars
FairSpec == Spec /\ WF_vars(Host) /\ \A c \in Contestants : WF_vars(Play(c))

-----------------------------------------------------------------------------
(* A contestant who may buzz in is never asleep: the broadcast, the mutex  *)
(* and the flag are taken together, so no question passes anyone by who    *)
(* was busy with the last one when it was asked (midterm.c:91).            *)
NobodyOverlooked ==
  \A c \in can_buzz_in : play[c] = "woken"

(* When main is woken by a signal the question is settled and stays so     *)
(* until main has the mutex, whatever the others do first.                 *)
SignalMeansSettled == alex = "woken" => Settled

(* The two rest on how the phases of the game fit together: the host asks  *)
(* when all contestants wait, and they leave when it has no question left. *)
Arrived == {c \in Contestants : play[c] # "starts"}
Phases ==
  /\ ready = Cardinality(Arrived)
  /\ alex = "starts" => num = 0 /\ Settled
  /\ alex # "starts" => Arrived = Contestants
  /\ GameOver => alex \in {"joins", "done"} /\ Settled
  /\ \A c \in Contestants : play[c] = "done" => GameOver
QuizInv ==
  TypeOK /\ TriesCounted /\ Phases /\ NobodyOverlooked /\ SignalMeansSettled

(* The wait for the contestants works (comment at midterm.c:93): the game  *)
(* is the abstract quiz.                                                   *)
Q == INSTANCE Quiz WITH
       asked <- IF alex = "starts" THEN 0 ELSE Asked, may <- can_buzz_in
IsQuiz == Q!Spec

(* main returns: every question is settled and every thread joined.        *)
GameEnds == <>(alex = "done")
=============================================================================
