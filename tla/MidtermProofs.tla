---------------------------- MODULE MidtermProofs ----------------------------
(***************************************************************************)
(* Theorems about the quiz over condition variables, for any number of     *)
(* contestants and questions, when contestants may wake up at any time but *)
(* main only wakes up for a signal.                                        *)
(***************************************************************************)
EXTENDS Midterm, FiniteSetTheorems, TLAPS

(***************************************************************************)
(* What the answers and questions do to the state of the game.             *)
(***************************************************************************)
LEMMA Counts ==
  ASSUME NEW S \in SUBSET Contestants
  PROVE  /\ IsFiniteSet(S) /\ Cardinality(S) \in 0..N
         /\ Cardinality(S) >= N => S = Contestants
<1>1. IsFiniteSet(S) /\ Cardinality(S) <= N
  BY ContestantsAssumption, FS_Subset DEF N
<1>2. N \in Nat /\ Cardinality(S) \in Nat
  BY <1>1, ContestantsAssumption, FS_CardinalityType DEF N
<1>3. Cardinality(S) = N => S = Contestants
  BY ContestantsAssumption, FS_Subset DEF N
<1> QED
  BY <1>1, <1>2, <1>3

(* A wrong answer is counted, and it is the last one exactly when nobody   *)
(* may try any more.                                                       *)
LEMMA WrongCounted ==
  ASSUME GameTypeOK, TriesCounted, NEW c \in Contestants, Wrong(c)
  PROVE  GameTypeOK' /\ TriesCounted' /\ (AllFailed <=> Settled')
<1> DEFINE F == Contestants \ can_buzz_in
<1>1. /\ c \in can_buzz_in /\ can_buzz_in \subseteq Contestants
      /\ can_buzz_in' = can_buzz_in \ {c}
      /\ failed_tries' = failed_tries + 1
  BY DEF Wrong, Answer, GameTypeOK
<1>2. IsFiniteSet(F) /\ Cardinality(F) \in Nat
  BY Counts
<1>3. failed_tries = Cardinality(F)
  BY <1>1 DEF TriesCounted, Settled
<1>4. Contestants \ can_buzz_in' = F \cup {c} /\ c \notin F
  BY <1>1
<1>5. failed_tries' = Cardinality(Contestants \ can_buzz_in')
  <2>1. Cardinality(F \cup {c}) = Cardinality(F) + 1
    BY <1>2, <1>4, FS_AddElement
  <2> QED
    BY <1>1, <1>3, <1>4, <2>1
<1>6. failed_tries' \in 0..N /\ (failed_tries' >= N <=> can_buzz_in' = {})
  <2>1. /\ Cardinality(Contestants \ can_buzz_in') \in 0..N
        /\ Cardinality(Contestants \ can_buzz_in') >= N
             => Contestants \ can_buzz_in' = Contestants
    BY Counts
  <2>2. can_buzz_in' = {} => Cardinality(Contestants \ can_buzz_in') = N
    BY DEF N
  <2>3. N \in Nat
    BY ContestantsAssumption, FS_CardinalityType DEF N
  <2> QED
    BY <1>1, <1>5, <2>1, <2>2, <2>3
<1>7. GameTypeOK'
  <2>1. UNCHANGED <<ready, num>> /\ score' \in [Contestants -> Int]
    BY QuestionsAssumption DEF Wrong, Answer, GameTypeOK
  <2> QED
    BY <1>1, <1>6, <2>1 DEF GameTypeOK
<1> QED
  BY <1>5, <1>6, <1>7 DEF TriesCounted, AllFailed, Settled

(* A right answer settles the question. *)
LEMMA RightSettles ==
  ASSUME GameTypeOK, NEW c \in Contestants, Right(c)
  PROVE  GameTypeOK' /\ TriesCounted' /\ Settled'
<1>1. can_buzz_in' = {} /\ UNCHANGED <<ready, num, failed_tries>>
  BY DEF Right, Answer
<1>2. score' \in [Contestants -> Int]
  BY QuestionsAssumption DEF Right, Answer, GameTypeOK
<1> QED
  BY <1>1, <1>2 DEF GameTypeOK, TriesCounted, Settled

(* A question is open to all, and nobody has failed it.                    *)
LEMMA QuestionOpen ==
  ASSUME GameTypeOK, NEW n \in Nat, AskQuestion(n)
  PROVE  GameTypeOK' /\ TriesCounted' /\ can_buzz_in' = Contestants /\ ~GameOver'
<1>1. /\ n < NumQuestions /\ num' = n /\ failed_tries' = 0
      /\ can_buzz_in' = Contestants /\ UNCHANGED <<ready, score>>
  BY DEF AskQuestion
<1>2. Contestants \ can_buzz_in' = {} /\ Cardinality({}) = 0
  BY <1>1, FS_EmptySet
<1>3. N \in Nat
  BY ContestantsAssumption, FS_CardinalityType DEF N
<1> QED
  BY <1>1, <1>2, <1>3, QuestionsAssumption DEF GameTypeOK, TriesCounted, GameOver

-----------------------------------------------------------------------------
(***************************************************************************)
(* The threads.                                                            *)
(***************************************************************************)
Places == {"starts", "waits", "woken", "done"}

(* A contestant moves: what the other conjuncts need to know of it.        *)
LEMMA GoMoves ==
  ASSUME TypeOK, NEW c \in Contestants, NEW from \in Places, NEW to \in Places,
         Go(c, from, to)
  PROVE  /\ play' \in [Contestants -> Places]
         /\ play[c] = from /\ play'[c] = to
         /\ \A d \in Contestants \ {c} : play'[d] = play[d]
  BY DEF TypeOK, Go, Places

(* Contestants who wait again, or are woken, keep what was said of the     *)
(* others, as long as no buzzer is set for one who waits.                  *)
LEMMA AwakeMoves ==
  ASSUME QuizInv, NEW c \in Contestants,
         NEW from \in {"waits", "woken"}, NEW to \in {"waits", "woken"},
         Go(c, from, to), can_buzz_in' \subseteq can_buzz_in,
         to = "woken" \/ c \notin can_buzz_in',
         GameTypeOK', TriesCounted', UNCHANGED <<ready, num>>,
         \/ UNCHANGED alex
         \/ alex \in {"waits", "woken"} /\ alex' = "woken" /\ Settled'
  PROVE  QuizInv'
<1> USE DEF QuizInv
<1>1. /\ play' \in [Contestants -> Places]
      /\ play[c] = from /\ play'[c] = to
      /\ \A d \in Contestants \ {c} : play'[d] = play[d]
  BY GoMoves DEF Places
<1>2. Arrived' = Arrived
  BY <1>1 DEF Arrived
<1>3. TypeOK'
  BY <1>1 DEF TypeOK, Places
<1>4. NobodyOverlooked'
  <2>1. can_buzz_in \subseteq Contestants
    BY DEF TypeOK, GameTypeOK
  <2> QED
    BY <1>1, <2>1 DEF NobodyOverlooked
<1>5. can_buzz_in = {} => can_buzz_in' = {}
  OBVIOUS
<1>6. SignalMeansSettled'
  BY <1>5 DEF SignalMeansSettled, Settled
<1>7. GameOver' <=> GameOver
  BY DEF GameOver
<1>8. Phases'
  <2>1. ready' = Cardinality(Arrived')
    BY <1>2 DEF Phases
  <2>2. alex' = "starts" => num' = 0 /\ Settled'
    BY <1>5 DEF Phases, Settled
  <2>3. alex' # "starts" => Arrived' = Contestants
    BY <1>2 DEF Phases
  <2>4. GameOver' => alex' \in {"joins", "done"} /\ Settled'
    BY <1>5, <1>7 DEF Phases, Settled
  <2>5. \A d \in Contestants : play'[d] = "done" => GameOver'
    BY <1>1, <1>7 DEF Phases
  <2> QED
    BY <2>1, <2>2, <2>3, <2>4, <2>5 DEF Phases
<1> QED
  BY <1>3, <1>4, <1>6, <1>8

LEMMA StartKeeps ==
  ASSUME QuizInv, NEW c \in Contestants, Start(c) PROVE QuizInv'
<1> USE DEF QuizInv
<1>1. /\ play' \in [Contestants -> Places]
      /\ play[c] = "starts" /\ play'[c] = "waits"
      /\ \A d \in Contestants \ {c} : play'[d] = play[d]
  BY GoMoves DEF Start, Places
<1>2. /\ ready' = ready + 1
      /\ UNCHANGED <<num, failed_tries, can_buzz_in, score, alex>>
  BY DEF Start, GetReady
<1>3. Arrived' = Arrived \cup {c} /\ c \notin Arrived
  BY <1>1 DEF Arrived
<1>4. ready' = Cardinality(Arrived') /\ ready' \in 0..N
  <2>1. IsFiniteSet(Arrived) /\ Cardinality(Arrived) \in 0..N
    BY Counts DEF Arrived
  <2>2. Cardinality(Arrived') = Cardinality(Arrived) + 1
    BY <1>3, <2>1, FS_AddElement
  <2>3. Cardinality(Arrived') \in 0..N
    BY Counts DEF Arrived
  <2> QED
    BY <1>2, <2>2, <2>3 DEF Phases
<1>5. TypeOK'
  BY <1>1, <1>2, <1>4 DEF TypeOK, GameTypeOK, Places
<1>6. TriesCounted' /\ SignalMeansSettled'
  BY <1>2 DEF TriesCounted, SignalMeansSettled, Settled
<1>7. alex = "starts"
  BY <1>3 DEF Phases
<1>8. NobodyOverlooked'
  BY <1>2, <1>7 DEF Phases, Settled, NobodyOverlooked
<1>9. Phases'
  BY <1>1, <1>2, <1>4, <1>7 DEF Phases, Settled, GameOver
<1> QED
  BY <1>5, <1>6, <1>8, <1>9

LEMMA LeaveKeeps ==
  ASSUME QuizInv, NEW c \in Contestants, Leave(c) PROVE QuizInv'
<1> USE DEF QuizInv
<1>1. /\ play' \in [Contestants -> Places]
      /\ play[c] = "woken" /\ play'[c] = "done"
      /\ \A d \in Contestants \ {c} : play'[d] = play[d]
  BY GoMoves DEF Leave, Places
<1>2. /\ GameOver
      /\ UNCHANGED <<ready, num, failed_tries, can_buzz_in, score, alex>>
  BY DEF Leave, gameVars
<1>3. Arrived' = Arrived
  BY <1>1 DEF Arrived
<1>4. TypeOK' /\ TriesCounted' /\ SignalMeansSettled'
  BY <1>1, <1>2 DEF TypeOK, GameTypeOK, Places, TriesCounted,
                    SignalMeansSettled, Settled
<1>5. NobodyOverlooked'
  BY <1>2 DEF Phases, Settled, NobodyOverlooked
<1>6. Phases'
  BY <1>1, <1>2, <1>3 DEF Phases, Settled, GameOver
<1> QED
  BY <1>4, <1>5, <1>6

LEMMA PlayKeeps ==
  ASSUME QuizInv, NEW c \in Contestants, Play(c) PROVE QuizInv'
<1> USE DEF QuizInv
<1>0. GameTypeOK
  BY DEF TypeOK
<1>1. CASE PassOn(c)
  <2>1. /\ Go(c, "woken", "waits") /\ c \notin can_buzz_in
        /\ UNCHANGED <<ready, num, failed_tries, can_buzz_in, score, alex>>
    BY <1>1 DEF PassOn, gameVars
  <2>2. GameTypeOK' /\ TriesCounted'
    BY <1>0, <2>1 DEF GameTypeOK, TriesCounted, Settled
  <2> QED
    BY <2>1, <2>2, AwakeMoves
<1>2. CASE AnswerRight(c)
  <2>1. /\ Go(c, "woken", "waits") /\ Right(c) /\ SignalAlex
        /\ can_buzz_in' = {} /\ UNCHANGED <<ready, num>>
    BY <1>2 DEF AnswerRight, Right, Answer
  <2>2. GameTypeOK' /\ TriesCounted' /\ Settled'
    BY <1>0, <2>1, RightSettles
  <2>3. \/ UNCHANGED alex
        \/ alex \in {"waits", "woken"} /\ alex' = "woken" /\ Settled'
    BY <2>1, <2>2 DEF SignalAlex
  <2> QED
    BY <2>1, <2>2, <2>3, AwakeMoves
<1>3. CASE AnswerWrong(c)
  <2>1. /\ Go(c, "woken", "waits") /\ Wrong(c)
        /\ can_buzz_in' = can_buzz_in \ {c} /\ UNCHANGED <<ready, num>>
    BY <1>3 DEF AnswerWrong, Wrong, Answer
  <2>2. GameTypeOK' /\ TriesCounted' /\ (AllFailed <=> Settled')
    BY <1>0, <2>1, WrongCounted
  <2>3. \/ UNCHANGED alex
        \/ alex \in {"waits", "woken"} /\ alex' = "woken" /\ Settled'
    <3>1. CASE AllFailed
      BY <1>3, <2>2, <3>1 DEF AnswerWrong, SignalAlex
    <3>2. CASE ~AllFailed
      BY <1>3, <3>2 DEF AnswerWrong
    <3> QED
      BY <3>1, <3>2
  <2> QED
    BY <2>1, <2>2, <2>3, AwakeMoves
<1> QED
  BY <1>1, <1>2, <1>3, StartKeeps, LeaveKeeps DEF Play

(* The host moves on: a question or the end reaches everyone who waits.    *)
LEMMA BroadcastWakes ==
  ASSUME TypeOK, Broadcast
  PROVE  /\ play' \in [Contestants -> Places]
         /\ \A c \in Contestants :
              play'[c] = IF play[c] = "waits" THEN "woken" ELSE play[c]
  BY DEF TypeOK, Broadcast, Places

LEMMA AskKeeps ==
  ASSUME QuizInv, NEW n \in Nat, AskQuestion(n), Broadcast, ~GameOver,
         Arrived = Contestants, alex' = "waits"
  PROVE  QuizInv'
<1> USE DEF QuizInv
<1>1. /\ GameTypeOK' /\ TriesCounted' /\ can_buzz_in' = Contestants
      /\ ~GameOver'
  BY QuestionOpen DEF TypeOK
<1>2. ready' = ready
  BY DEF AskQuestion
<1>3. /\ play' \in [Contestants -> Places]
      /\ \A c \in Contestants :
           play'[c] = IF play[c] = "waits" THEN "woken" ELSE play[c]
  BY BroadcastWakes
<1>4. \A c \in Contestants : play'[c] = "woken"
  <2> SUFFICES ASSUME NEW c \in Contestants PROVE play'[c] = "woken"
    OBVIOUS
  <2>1. play[c] \in Places /\ play[c] # "starts" /\ play[c] # "done"
    BY DEF TypeOK, Places, Phases, Arrived
  <2> QED
    BY <1>3, <2>1 DEF Places
<1>5. Arrived' = Arrived
  BY <1>4 DEF Arrived
<1>6. TypeOK' /\ NobodyOverlooked' /\ SignalMeansSettled'
  BY <1>1, <1>3, <1>4 DEF TypeOK, Places, NobodyOverlooked, SignalMeansSettled
<1>7. Phases'
  BY <1>1, <1>2, <1>4, <1>5 DEF Phases
<1> QED
  BY <1>1, <1>6, <1>7

LEMMA HostKeeps ==
  ASSUME QuizInv, Host PROVE QuizInv'
<1> USE DEF QuizInv
<1>0. GameTypeOK /\ num \in Nat
  BY DEF TypeOK, GameTypeOK
<1>1. CASE FirstQuestion
  <2>1. ready \in 0..N /\ ready = Cardinality(Arrived) /\ ready >= N
    BY <1>0, <1>1 DEF FirstQuestion, GameTypeOK, Phases
  <2>2. Arrived = Contestants
    BY <2>1, Counts DEF Arrived
  <2>3. ~GameOver
    BY <1>1 DEF FirstQuestion, Phases
  <2> QED
    BY <1>1, <2>2, <2>3, AskKeeps DEF FirstQuestion
<1>2. CASE NextQuestion
  <2>1. Arrived = Contestants /\ ~GameOver /\ num + 1 \in Nat
    BY <1>0, <1>2 DEF NextQuestion, Phases
  <2> QED
    BY <1>2, <2>1, AskKeeps DEF NextQuestion
<1>3. CASE LastQuestionDone
  <2>1. /\ num' = num + 1 /\ num' = NumQuestions /\ can_buzz_in' = {}
        /\ UNCHANGED <<ready, failed_tries, score>>
        /\ alex = "woken" /\ alex' = "joins" /\ Broadcast
    BY <1>3 DEF LastQuestionDone, EndGame
  <2>2. /\ play' \in [Contestants -> Places]
        /\ \A c \in Contestants :
             play'[c] = IF play[c] = "waits" THEN "woken" ELSE play[c]
    BY <2>1, BroadcastWakes
  <2>3. Arrived' = Arrived
    BY <2>2 DEF Arrived
  <2>4. GameOver'
    BY <2>1, QuestionsAssumption DEF GameOver
  <2>5. TypeOK'
    BY <1>0, <2>1, <2>2, QuestionsAssumption DEF TypeOK, GameTypeOK, Places
  <2>6. TriesCounted' /\ NobodyOverlooked' /\ SignalMeansSettled'
    BY <2>1 DEF TriesCounted, NobodyOverlooked, SignalMeansSettled, Settled
  <2>7. Phases'
    BY <2>1, <2>3, <2>4 DEF Phases, Settled
  <2> QED
    BY <2>5, <2>6, <2>7
<1>4. CASE Join
  <2>1. /\ alex = "joins" /\ alex' = "done"
        /\ UNCHANGED <<ready, num, failed_tries, can_buzz_in, score, play>>
    BY <1>4 DEF Join, gameVars
  <2> QED
    BY <1>0, <2>1 DEF TypeOK, GameTypeOK, TriesCounted, Phases, GameOver,
                      Arrived, NobodyOverlooked, SignalMeansSettled, Settled
<1> QED
  BY <1>1, <1>2, <1>3, <1>4 DEF Host

LEMMA SpuriousKeeps ==
  ASSUME QuizInv, Alex \notin Spurious, WakeSpuriously PROVE QuizInv'
<1>1. PICK c \in Contestants : Go(c, "waits", "woken") /\ UNCHANGED alex
  BY SpuriousAssumption DEF WakeSpuriously
<1>2. UNCHANGED <<ready, num, failed_tries, can_buzz_in, score>>
  BY DEF WakeSpuriously, gameVars
<1>3. GameTypeOK' /\ TriesCounted'
  BY <1>2 DEF QuizInv, TypeOK, GameTypeOK, TriesCounted, Settled
<1> QED
  BY <1>1, <1>2, <1>3, AwakeMoves

LEMMA InitInv == Init => QuizInv
<1> SUFFICES ASSUME Init PROVE QuizInv
  OBVIOUS
<1>1. N \in Nat
  BY ContestantsAssumption, FS_CardinalityType DEF N
<1>2. /\ ready = 0 /\ num = 0 /\ failed_tries = 0 /\ can_buzz_in = {}
      /\ score = [c \in Contestants |-> 0]
      /\ play = [c \in Contestants |-> "starts"] /\ alex = "starts"
  BY DEF Init, GameInit
<1>3. TypeOK
  BY <1>1, <1>2, QuestionsAssumption DEF TypeOK, GameTypeOK
<1>4. Arrived = {} /\ Cardinality({}) = 0
  BY <1>2, FS_EmptySet DEF Arrived
<1>5. Phases
  BY <1>2, <1>4, QuestionsAssumption DEF Phases, Settled, GameOver
<1> QED
  BY <1>2, <1>3, <1>5 DEF QuizInv, TriesCounted, NobodyOverlooked,
                          SignalMeansSettled, Settled

(* Nobody is overlooked, and a signal to main means that the question is   *)
(* settled, because the failures are counted and the phases fit together.  *)
THEOREM Invariance ==
  ASSUME Alex \notin Spurious PROVE Spec => []QuizInv
<1>1. QuizInv /\ [Next]_vars => QuizInv'
  <2> SUFFICES ASSUME QuizInv, [Next]_vars PROVE QuizInv'
    OBVIOUS
  <2>1. CASE UNCHANGED vars
    BY <2>1 DEF vars, gameVars, QuizInv, TypeOK, GameTypeOK, TriesCounted,
                Phases, Arrived, GameOver, NobodyOverlooked,
                SignalMeansSettled, Settled
  <2> QED
    BY <2>1, PlayKeeps, HostKeeps, SpuriousKeeps DEF Next
<1> QED
  BY InitInv, <1>1, PTL DEF Spec

-----------------------------------------------------------------------------
(***************************************************************************)
(* The refinement.                                                         *)
(***************************************************************************)
LEMMA TryIsTry ==
  ASSUME QuizInv, NEW c \in Contestants, AnswerRight(c) \/ AnswerWrong(c)
  PROVE  Q!Next
<1> DEFINE asked == IF alex = "starts" THEN 0 ELSE Asked
<1>1. /\ c \in can_buzz_in /\ ~GameOver /\ UNCHANGED num
      /\ \/ /\ score' = [score EXCEPT ![c] = @ + (num + 1)]
            /\ can_buzz_in' = {}
         \/ /\ score' = [score EXCEPT ![c] = @ + -(num + 1)]
            /\ can_buzz_in' = can_buzz_in \ {c}
  BY DEF AnswerRight, AnswerWrong, Right, Wrong, Answer
<1>2. alex # "starts"
  BY <1>1 DEF QuizInv, Phases, Settled
<1>3. alex' # "starts"
  BY <1>2 DEF AnswerRight, AnswerWrong, SignalAlex
<1>4. asked = num + 1 /\ asked' = asked
  BY <1>1, <1>2, <1>3 DEF Asked, GameOver
<1>5. Q!Win(c) \/ Q!Miss(c)
  BY <1>1, <1>4 DEF Q!Win, Q!Miss, Q!Try
<1> QED
  BY <1>5 DEF Q!Next

LEMMA AskIsAsk ==
  ASSUME QuizInv, FirstQuestion \/ NextQuestion PROVE Q!Next
<1>1. num \in Nat /\ QuizInv
  BY DEF QuizInv, TypeOK, GameTypeOK
<1>2. CASE FirstQuestion
  BY <1>1, <1>2, QuestionsAssumption
     DEF QuizInv, Phases, FirstQuestion, AskQuestion, Settled, Asked, GameOver,
         Q!Next, Q!Ask
<1>3. CASE NextQuestion
  BY <1>1, <1>3, QuestionsAssumption
     DEF QuizInv, SignalMeansSettled, NextQuestion, AskQuestion, Settled, Asked,
         GameOver, Q!Next, Q!Ask
<1> QED
  BY <1>2, <1>3

LEMMA OthersStutter ==
  ASSUME QuizInv, UNCHANGED <<num, can_buzz_in, score>>,
         alex' = "starts" <=> alex = "starts"
  PROVE  UNCHANGED Q!vars
BY DEF Q!vars, Asked, GameOver

(* Every step of the threads is a step of the abstract quiz or none.       *)
THEOREM Refinement ==
  ASSUME Alex \notin Spurious PROVE Spec => IsQuiz
<1>1. Init => Q!Init
  BY DEF Init, GameInit, Q!Init
<1>2. QuizInv /\ [Next]_vars => [Q!Next]_Q!vars
  <2> SUFFICES ASSUME QuizInv, [Next]_vars PROVE Q!Next \/ UNCHANGED Q!vars
    OBVIOUS
  <2>1. ASSUME NEW c \in Contestants, Play(c)
        PROVE  Q!Next \/ UNCHANGED Q!vars
    <3>1. CASE AnswerRight(c) \/ AnswerWrong(c)
      BY <3>1, TryIsTry
    <3>2. CASE Start(c) \/ Leave(c) \/ PassOn(c)
      BY <3>2, OthersStutter DEF Start, GetReady, Leave, PassOn, gameVars
    <3> QED
      BY <2>1, <3>1, <3>2 DEF Play
  <2>2. CASE Host
    <3>1. CASE LastQuestionDone
      <4>1. /\ can_buzz_in = {} /\ can_buzz_in' = {} /\ score' = score
            /\ num' = num + 1 /\ num + 1 = NumQuestions
            /\ alex = "woken" /\ alex' = "joins"
        BY <3>1 DEF LastQuestionDone, EndGame, QuizInv, SignalMeansSettled,
                    Settled
      <4> QED
        BY <4>1, QuestionsAssumption DEF Q!vars, Asked, GameOver
    <3>2. CASE Join
      BY <3>2, OthersStutter DEF Join, gameVars
    <3> QED
      BY <2>2, <3>1, <3>2, AskIsAsk DEF Host
  <2>3. CASE WakeSpuriously
    BY <2>3, OthersStutter DEF WakeSpuriously, gameVars, Go, SignalAlex
  <2>4. CASE UNCHANGED vars
    BY <2>4, OthersStutter DEF vars, gameVars
  <2> QED
    BY <2>1, <2>2, <2>3, <2>4 DEF Next
<1> QED
  BY <1>1, <1>2, Invariance, PTL DEF Spec, IsQuiz, Q!Spec
=============================================================================
