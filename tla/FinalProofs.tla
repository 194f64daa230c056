----------------------------- MODULE FinalProofs -----------------------------
(***************************************************************************)
(* Theorems about the quiz over completions, for any number of contestants *)
(* and questions.                                                          *)
(***************************************************************************)
EXTENDS Final, FiniteSetTheorems, TLAPS

(***************************************************************************)
(* What the answers and questions do to the state of the game.             *)
(***************************************************************************)
LEMMA Counts ==
  ASSUME NEW S \in SUBSET Contestants
  PROVE  /\ IsFiniteSet(S) /\ Cardinality(S) \in 0..N
         /\ Cardinality(S) >= N => S = Contestants
<1>1. IsFiniteSet(S) /\ Cardinality(S) <= N
  BY ContestantsAssumption, FS_Subset DEF N
<1>2. N \in Nat /\ Cardinality(S) \in Nat
  BY <1>1, ContestantsAssumption, FS_CardinalityType DEF N
<1>3. Cardinality(S) = N => S = Contestants
  BY ContestantsAssumption, FS_Subset DEF N
<1> QED
  BY <1>1, <1>2, <1>3

(* A wrong answer is counted, and it is the last one exactly when nobody   *)
(* may try any more.                                                       *)
LEMMA WrongCounted ==
  ASSUME GameTypeOK, TriesCounted, NEW c \in Contestants, Wrong(c)
  PROVE  GameTypeOK' /\ TriesCounted' /\ (AllFailed <=> Settled')
<1> DEFINE F == Contestants \ can_buzz_in
<1>1. /\ c \in can_buzz_in /\ can_buzz_in \subseteq Contestants
      /\ can_buzz_in' = can_buzz_in \ {c}
      /\ failed_tries' = failed_tries + 1
  BY DEF Wrong, Answer, GameTypeOK
<1>2. IsFiniteSet(F) /\ Cardinality(F) \in Nat
  BY Counts
<1>3. failed_tries = Cardinality(F)
  BY <1>1 DEF TriesCounted, Settled
<1>4. Contestants \ can_buzz_in' = F \cup {c} /\ c \notin F
  BY <1>1
<1>5. failed_tries' = Cardinality(Contestants \ can_buzz_in')
  <2>1. Cardinality(F \cup {c}) = Cardinality(F) + 1
    BY <1>2, <1>4, FS_AddElement
  <2> QED
    BY <1>1, <1>3, <1>4, <2>1
<1>6. failed_tries' \in 0..N /\ (failed_tries' >= N <=> can_buzz_in' = {})
  <2>1. /\ Cardinality(Contestants \ can_buzz_in') \in 0..N
        /\ Cardinality(Contestants \ can_buzz_in') >= N
             => Contestants \ can_buzz_in' = Contestants
    BY Counts
  <2>2. can_buzz_in' = {} => Cardinality(Contestants \ can_buzz_in') = N
    BY DEF N
  <2>3. N \in Nat
    BY ContestantsAssumption, FS_CardinalityType DEF N
  <2> QED
    BY <1>1, <1>5, <2>1, <2>2, <2>3
<1>7. GameTypeOK'
  <2>1. UNCHANGED <<ready, num>> /\ score' \in [Contestants -> Int]
    BY QuestionsAssumption DEF Wrong, Answer, GameTypeOK
  <2> QED
    BY <1>1, <1>6, <2>1 DEF GameTypeOK
<1> QED
  BY <1>5, <1>6, <1>7 DEF TriesCounted, AllFailed, Settled

(* A right answer settles the question. *)
LEMMA RightSettles ==
  ASSUME GameTypeOK, NEW c \in Contestants, Right(c)
  PROVE  GameTypeOK' /\ TriesCounted' /\ Settled'
<1>1. can_buzz_in' = {} /\ UNCHANGED <<ready, num, failed_tries>>
  BY DEF Right, Answer
<1>2. score' \in [Contestants -> Int]
  BY QuestionsAssumption DEF Right, Answer, GameTypeOK
<1> QED
  BY <1>1, <1>2 DEF GameTypeOK, TriesCounted, Settled

(* A question is open to all, and nobody has failed it.                    *)
LEMMA QuestionOpen ==
  ASSUME GameTypeOK, NEW n \in Nat, AskQuestion(n)
  PROVE  GameTypeOK' /\ TriesCounted' /\ can_buzz_in' = Contestants /\ ~GameOver'
<1>1. /\ n < NumQuestions /\ num' = n /\ failed_tries' = 0
      /\ can_buzz_in' = Contestants /\ UNCHANGED <<ready, score>>
  BY DEF AskQuestion
<1>2. Contestants \ can_buzz_in' = {} /\ Cardinality({}) = 0
  BY <1>1, FS_EmptySet
<1>3. N \in Nat
  BY ContestantsAssumption, FS_CardinalityType DEF N
<1> QED
  BY <1>1, <1>2, <1>3, QuestionsAssumption DEF GameTypeOK, TriesCounted, GameOver

-----------------------------------------------------------------------------
(***************************************************************************)
(* The threads.                                                            *)
(***************************************************************************)
Places  == {"starts", "waits", "granted", "ends", "done"}
Holding == {"granted", "ends"}

LEMMA GoMoves ==
  ASSUME TypeOK, NEW c \in Contestants, NEW from \in Places, NEW to \in Places,
         Go(c, from, to)
  PROVE  /\ play' \in [Contestants -> Places]
         /\ play[c] = from /\ play'[c] = to
         /\ \A d \in Contestants \ {c} : play'[d] = play[d]
         /\ alex' = alex /\ loaded' = loaded
  BY DEF TypeOK, Go, Places

LEMMA HoldersCount ==
  /\ IsFiniteSet(Holders) /\ Cardinality(Holders) \in 0..N
  /\ IsFiniteSet(Holders') /\ Cardinality(Holders') \in 0..N
<1>1. Holders \in SUBSET Contestants /\ Holders' \in SUBSET Contestants
  BY DEF Holders
<1> QED
  BY <1>1, Counts

(* How a contestant's move changes the number of those who hold the turn.  *)
LEMMA HolderMoves ==
  ASSUME TypeOK, NEW c \in Contestants, NEW from \in Places, NEW to \in Places,
         Go(c, from, to)
  PROVE  /\ from \in Holding /\ to \in Holding => Holders' = Holders
         /\ from \notin Holding /\ to \notin Holding => Holders' = Holders
         /\ from \notin Holding /\ to \in Holding
              => Cardinality(Holders') = Cardinality(Holders) + 1
         /\ from \in Holding /\ to \notin Holding
              => /\ Cardinality(Holders') = Cardinality(Holders) - 1
                 /\ Holders' = Holders \ {c}
<1>1. /\ play[c] = from /\ play'[c] = to
      /\ \A d \in Contestants \ {c} : play'[d] = play[d]
  BY GoMoves
<1>2. /\ from \in Holding /\ to \in Holding => Holders' = Holders
      /\ from \notin Holding /\ to \notin Holding => Holders' = Holders
  BY <1>1 DEF Holders, Holding
<1>3. ASSUME from \notin Holding, to \in Holding
      PROVE  Cardinality(Holders') = Cardinality(Holders) + 1
  <2>1. Holders' = Holders \cup {c} /\ c \notin Holders
    BY <1>1, <1>3 DEF Holders, Holding
  <2> QED
    BY <2>1, HoldersCount, FS_AddElement
<1>4. ASSUME from \in Holding, to \notin Holding
      PROVE  /\ Cardinality(Holders') = Cardinality(Holders) - 1
             /\ Holders' = Holders \ {c}
  <2>1. Holders' = Holders \ {c} /\ c \in Holders
    BY <1>1, <1>4 DEF Holders, Holding
  <2> QED
    BY <2>1, HoldersCount, FS_RemoveElement
<1> QED
  BY <1>2, <1>3, <1>4

(* The terms of Turns are natural numbers.                                 *)
AlexHolds == IF alex \in Holding THEN 1 ELSE 0

LEMMA TurnsType ==
  ASSUME TypeOK
  PROVE  /\ cont_cv \in Nat /\ alex_cv \in Nat /\ Cardinality(Holders) \in Nat
         /\ Cardinality(Holders') \in Nat
         /\ Turns = cont_cv + alex_cv + Cardinality(Holders) + AlexHolds
         /\ Turns' = cont_cv' + alex_cv' + Cardinality(Holders') + AlexHolds'
  BY HoldersCount DEF TypeOK, Turns, AlexHolds, Holding

(* The only holder: the completions are empty and the host has no turn.    *)
LEMMA OnlyHolder ==
  ASSUME QuizInv, NEW c \in Contestants, play[c] \in Holding
  PROVE  /\ cont_cv = 0 /\ alex_cv = 0 /\ Holders = {c} /\ AlexHolds = 0
         /\ Cardinality(Holders) = 1 /\ Turns = 1
<1> USE DEF QuizInv
<1>1. c \in Holders
  BY DEF Holders, Holding
<1>2. /\ IsFiniteSet(Holders \ {c})
      /\ Cardinality(Holders \ {c}) = Cardinality(Holders) - 1
  BY <1>1, HoldersCount, FS_RemoveElement
<1>3. Cardinality(Holders \ {c}) \in Nat
  BY <1>2, FS_CardinalityType
<1>4. /\ cont_cv = 0 /\ alex_cv = 0 /\ AlexHolds = 0
      /\ Cardinality(Holders) = 1 /\ Turns = 1
  BY <1>2, <1>3, TurnsType DEF OneTurn, AlexHolds
<1>5. Holders \ {c} = {}
  BY <1>2, <1>4, FS_EmptySet
<1> QED
  BY <1>1, <1>4, <1>5

-----------------------------------------------------------------------------
(***************************************************************************)
(* Where the turn goes.                                                    *)
(***************************************************************************)
LEMMA TakeTurn ==
  ASSUME TypeOK, NEW c \in Contestants, Take(c)
  PROVE  cont_cv > 0 /\ cont_cv' \in Nat /\ Turns' = Turns
<1>1. /\ cont_cv > 0 /\ cont_cv' = cont_cv - 1 /\ alex_cv' = alex_cv
      /\ Go(c, "waits", "granted") /\ alex' = alex
  BY DEF Take, Go
<1>2. Cardinality(Holders') = Cardinality(Holders) + 1
  BY <1>1, HolderMoves DEF Places, Holding
<1>3. AlexHolds' = AlexHolds
  BY <1>1 DEF AlexHolds
<1> QED
  BY <1>1, <1>2, <1>3, TurnsType DEF TypeOK

LEMMA ReturnTurn ==
  ASSUME TypeOK, NEW c \in Contestants, Return(c)
  PROVE  cont_cv' \in Nat /\ Turns' = Turns
<1>1. /\ cont_cv' = cont_cv + 1 /\ alex_cv' = alex_cv
      /\ Go(c, "ends", "done") /\ alex' = alex
  BY DEF Return, Go
<1>2. Cardinality(Holders') = Cardinality(Holders) - 1
  BY <1>1, HolderMoves DEF Places, Holding
<1>3. AlexHolds' = AlexHolds
  BY <1>1 DEF AlexHolds
<1> QED
  BY <1>1, <1>2, <1>3, TurnsType DEF TypeOK

LEMMA LeaveTurn ==
  ASSUME QuizInv, NEW c \in Contestants, Leave(c)
  PROVE  cont_cv' = 0 /\ Turns' = Turns
<1>1. /\ cont_cv' = 0 /\ alex_cv' = alex_cv
      /\ Go(c, "granted", "ends") /\ alex' = alex
  BY DEF Leave, Go
<1>2. TypeOK
  BY DEF QuizInv
<1>3. Holders' = Holders
  BY <1>1, <1>2, HolderMoves DEF Places, Holding
<1>4. AlexHolds' = AlexHolds
  BY <1>1 DEF AlexHolds
<1>5. cont_cv = 0
  BY <1>1, OnlyHolder DEF Go, Holding
<1> QED
  BY <1>1, <1>2, <1>3, <1>4, <1>5, TurnsType

(* A contestant who waits again has given the turn to those counted here.  *)
LEMMA WaitsAgain ==
  ASSUME QuizInv, NEW c \in Contestants, Go(c, "granted", "waits"),
         cont_cv' \in Nat, alex_cv' \in Nat
  PROVE  /\ Turns = 1 /\ Turns' = cont_cv' + alex_cv' /\ Holders' = {}
         /\ cont_cv = 0 /\ alex_cv = 0
<1>1. TypeOK /\ alex' = alex /\ play[c] = "granted"
  BY DEF QuizInv, Go
<1>2. /\ cont_cv = 0 /\ alex_cv = 0 /\ Holders = {c} /\ AlexHolds = 0
      /\ Cardinality(Holders) = 1 /\ Turns = 1
  BY <1>1, OnlyHolder DEF Holding
<1>3. Holders' = {}
  BY <1>1, <1>2, HolderMoves DEF Places, Holding
<1>4. Cardinality(Holders') = 0
  BY <1>3, FS_EmptySet
<1>5. AlexHolds' = 0
  BY <1>1, <1>2 DEF AlexHolds
<1> QED
  BY <1>1, <1>2, <1>3, <1>4, <1>5, TurnsType

LEMMA HostTurn ==
  ASSUME QuizInv, Host
  PROVE  /\ cont_cv' \in Nat /\ alex_cv' \in Nat
         /\ Turns' = IF FirstQuestion THEN 1 ELSE Turns
         /\ UNCHANGED <<play, loaded>>
<1>1. TypeOK /\ UNCHANGED <<play, loaded>>
  BY DEF QuizInv, Host, FirstQuestion, AlexTake, NextQuestion,
         LastQuestionDone, AlexReturn, AlexGo
<1>2. Cardinality(Holders') = Cardinality(Holders)
  BY <1>1 DEF Holders
<1>3. CASE FirstQuestion
  <2>1. /\ alex = "starts" /\ alex' = "waits" /\ cont_cv' = cont_cv + 1
        /\ alex_cv' = alex_cv /\ Turns = 0
    BY <1>3 DEF FirstQuestion, AlexGo, QuizInv, Phases
  <2>2. AlexHolds = 0 /\ AlexHolds' = 0
    BY <2>1 DEF AlexHolds, Holding
  <2> QED
    BY <1>1, <1>2, <1>3, <2>1, <2>2, TurnsType
<1>4. CASE AlexTake
  <2>1. /\ alex = "waits" /\ alex' = "granted" /\ cont_cv' = cont_cv
        /\ alex_cv > 0 /\ alex_cv' = alex_cv - 1
    BY <1>4 DEF AlexTake, AlexGo
  <2>2. AlexHolds = 0 /\ AlexHolds' = 1 /\ ~FirstQuestion
    BY <2>1 DEF AlexHolds, Holding, FirstQuestion, AlexGo
  <2> QED
    BY <1>1, <1>2, <2>1, <2>2, TurnsType
<1>5. CASE NextQuestion
  <2>1. /\ alex = "granted" /\ alex' = "waits" /\ cont_cv' = cont_cv + 1
        /\ alex_cv' = 0
    BY <1>5 DEF NextQuestion, AlexGo
  <2>2. AlexHolds = 1 /\ AlexHolds' = 0 /\ ~FirstQuestion
    BY <2>1 DEF AlexHolds, Holding, FirstQuestion, AlexGo
  <2>3. alex_cv = 0
    BY <1>1, <2>2, TurnsType DEF QuizInv, OneTurn
  <2> QED
    BY <1>1, <1>2, <2>1, <2>2, <2>3, TurnsType
<1>6. CASE LastQuestionDone
  <2>1. /\ alex = "granted" /\ alex' = "ends" /\ cont_cv' = cont_cv
        /\ alex_cv' = 0
    BY <1>6 DEF LastQuestionDone, AlexGo
  <2>2. AlexHolds = 1 /\ AlexHolds' = 1 /\ ~FirstQuestion
    BY <2>1 DEF AlexHolds, Holding, FirstQuestion, AlexGo
  <2>3. alex_cv = 0
    BY <1>1, <2>2, TurnsType DEF QuizInv, OneTurn
  <2> QED
    BY <1>1, <1>2, <2>1, <2>2, <2>3, TurnsType
<1>7. CASE AlexReturn
  <2>1. /\ alex = "ends" /\ alex' = "done" /\ cont_cv' = cont_cv + 1
        /\ alex_cv' = alex_cv
    BY <1>7 DEF AlexReturn, AlexGo
  <2>2. AlexHolds = 1 /\ AlexHolds' = 0 /\ ~FirstQuestion
    BY <2>1 DEF AlexHolds, Holding, FirstQuestion, AlexGo
  <2> QED
    BY <1>1, <1>2, <2>1, <2>2, TurnsType
<1> QED
  BY <1>3, <1>4, <1>5, <1>6, <1>7 DEF Host

-----------------------------------------------------------------------------
(***************************************************************************)
(* The invariant, action by action.                                        *)
(***************************************************************************)
LEMMA TypeMoves ==
  ASSUME TypeOK, GameTypeOK', cont_cv' \in Nat, alex_cv' \in Nat,
         play' \in [Contestants -> Places], alex' \in Places,
         loaded' \in BOOLEAN
  PROVE  TypeOK'
  BY DEF TypeOK, Places

LEMMA StartKeeps ==
  ASSUME QuizInv, NEW c \in Contestants, Start(c) PROVE QuizInv'
<1> USE DEF QuizInv
<1>1. /\ play' \in [Contestants -> Places]
      /\ play[c] = "starts" /\ play'[c] = "waits"
      /\ \A d \in Contestants \ {c} : play'[d] = play[d]
      /\ alex' = alex /\ loaded' = loaded
  BY GoMoves DEF Start, Places
<1>2. /\ ready' = ready + 1
      /\ UNCHANGED <<num, failed_tries, can_buzz_in, score, cont_cv, alex_cv>>
  BY DEF Start, GetReady, cvVars
<1>3. Arrived' = Arrived \cup {c} /\ c \notin Arrived
  BY <1>1 DEF Arrived
<1>4. ready' = Cardinality(Arrived') /\ ready' \in 0..N
  <2>1. IsFiniteSet(Arrived) /\ Cardinality(Arrived) \in 0..N
    BY Counts DEF Arrived
  <2>2. Cardinality(Arrived') = Cardinality(Arrived) + 1
    BY <1>3, <2>1, FS_AddElement
  <2>3. Cardinality(Arrived') \in 0..N
    BY Counts DEF Arrived
  <2> QED
    BY <1>2, <2>2, <2>3 DEF Phases
<1>5. GameTypeOK'
  BY <1>2, <1>4 DEF TypeOK, GameTypeOK
<1>6. TypeOK'
  <2>1. alex \in Places /\ loaded \in BOOLEAN /\ cont_cv \in Nat /\ alex_cv \in Nat
    BY DEF TypeOK, Places
  <2> QED
    BY <1>1, <1>2, <1>5, <2>1, TypeMoves
<1>7. Holders' = Holders
  BY <1>1 DEF Holders
<1>8. Turns' = Turns
  BY <1>1, <1>2, <1>7 DEF Turns
<1>9. TriesCounted' /\ OneTurn'
  BY <1>2, <1>8 DEF TriesCounted, Settled, OneTurn
<1>10. TurnMatchesQuestion'
  BY <1>1, <1>2 DEF TurnMatchesQuestion, Settled, GameOver
<1>11. Phases'
  BY <1>1, <1>2, <1>4, <1>8 DEF Phases, Settled, GameOver
<1> QED
  BY <1>6, <1>9, <1>10, <1>11

(* Moves that leave the question as it is.                                 *)
LEMMA SilentKeeps ==
  ASSUME QuizInv, NEW c \in Contestants,
         NEW from \in Places \ {"starts"}, NEW to \in Places \ {"starts"},
         Go(c, from, to), UNCHANGED gameVars, UNCHANGED alex_cv,
         cont_cv' \in Nat, Turns' <= 1, alex = "starts" => Turns' = 0,
         to = "ends" => GameOver,
         cont_cv' > 0 \/ to = "granted" =>
           \/ cont_cv > 0
           \/ from = "granted"
           \/ GameOver
  PROVE  QuizInv'
<1> USE DEF QuizInv
<1>1. /\ play' \in [Contestants -> Places]
      /\ play[c] = from /\ play'[c] = to
      /\ \A d \in Contestants \ {c} : play'[d] = play[d]
      /\ alex' = alex /\ loaded' = loaded
  BY GoMoves
<1>2. UNCHANGED <<ready, num, failed_tries, can_buzz_in, score, alex_cv>>
  BY DEF gameVars
<1>3. TypeOK'
  <2>1. /\ alex \in Places /\ loaded \in BOOLEAN /\ alex_cv \in Nat
        /\ GameTypeOK'
    BY <1>2 DEF TypeOK, Places, GameTypeOK
  <2> QED
    BY <1>1, <1>2, <2>1, TypeMoves
<1>4. Arrived' = Arrived
  BY <1>1 DEF Arrived
<1>5. TriesCounted' /\ OneTurn'
  BY <1>2 DEF TriesCounted, Settled, OneTurn
<1>6. TurnMatchesQuestion'
  <2>1. alex_cv' > 0 \/ alex' = "granted" => Settled'
    BY <1>1, <1>2 DEF TurnMatchesQuestion, Settled
  <2>2. (Settled' <=> Settled) /\ (GameOver' <=> GameOver)
    BY <1>2 DEF Settled, GameOver
  <2>3. (\E d \in Contestants : play'[d] = "granted")
          => (\E d \in Contestants : play[d] = "granted") \/ to = "granted"
    BY <1>1
  <2>4. from = "granted" => \E d \in Contestants : play[d] = "granted"
    BY <1>1
  <2>5. cont_cv' > 0 \/ (\E d \in Contestants : play'[d] = "granted")
           => ~Settled \/ GameOver
    BY <2>3, <2>4 DEF TurnMatchesQuestion
  <2> QED
    BY <2>1, <2>2, <2>5 DEF TurnMatchesQuestion
<1>7. Phases'
  BY <1>1, <1>2, <1>4 DEF Phases, Settled, GameOver
<1> QED
  BY <1>3, <1>5, <1>6, <1>7

(* An answer: the turn goes to the host if the question is settled, and    *)
(* back to the contestants if it is not.                                   *)
LEMMA AnswerKeeps ==
  ASSUME QuizInv, NEW c \in Contestants, Go(c, "granted", "waits"),
         c \in can_buzz_in, GameTypeOK', TriesCounted', UNCHANGED <<ready, num>>,
         \/ Settled' /\ cont_cv' = 0 /\ alex_cv' = alex_cv + 1
         \/ ~Settled' /\ cont_cv' = 1 /\ alex_cv' = alex_cv
  PROVE  QuizInv' /\ Turns' = Turns
<1> USE DEF QuizInv
<1>1. /\ play' \in [Contestants -> Places]
      /\ play[c] = "granted" /\ play'[c] = "waits"
      /\ \A d \in Contestants \ {c} : play'[d] = play[d]
      /\ alex' = alex /\ loaded' = loaded
  BY GoMoves DEF Places
<1>2. cont_cv' \in Nat /\ alex_cv' \in Nat
  BY DEF TypeOK
<1>3. /\ Turns = 1 /\ Turns' = cont_cv' + alex_cv' /\ Holders' = {}
      /\ cont_cv = 0 /\ alex_cv = 0
  BY <1>2, WaitsAgain
<1>4. Turns' = 1
  BY <1>3
<1>5. TypeOK'
  <2>1. alex \in Places /\ loaded \in BOOLEAN
    BY DEF TypeOK, Places
  <2> QED
    BY <1>1, <1>2, <2>1, TypeMoves
<1>6. Arrived' = Arrived
  BY <1>1 DEF Arrived
<1>7. alex # "starts" /\ alex # "granted" /\ ~Settled
  BY DEF Phases, Settled, TurnMatchesQuestion
<1>8. TurnMatchesQuestion'
  BY <1>1, <1>3, <1>7 DEF TurnMatchesQuestion, Holders
<1>9. Phases'
  BY <1>1, <1>6, <1>7 DEF Phases, GameOver
<1>10. OneTurn'
  BY <1>4 DEF OneTurn
<1> QED
  BY <1>3, <1>4, <1>5, <1>8, <1>9, <1>10

LEMMA PlayKeeps ==
  ASSUME QuizInv, NEW c \in Contestants, Play(c)
  PROVE  /\ QuizInv'
         /\ \/ Turns' = Turns
            \/ PassOn(c) /\ Turns = 1 /\ Turns' = 0
<1>0. TypeOK /\ GameTypeOK /\ TriesCounted /\ Turns <= 1 /\ alex_cv \in Nat
  BY DEF QuizInv, OneTurn, TypeOK
<1>00. alex = "starts" => Turns = 0
  BY DEF QuizInv, Phases
<1>1. CASE Start(c)
  <2>1. Holders' = Holders
    <3>1. Go(c, "starts", "waits")
      BY <1>1 DEF Start
    <3> QED
      BY <1>0, <3>1, HolderMoves DEF Places, Holding
  <2>2. Turns' = Turns
    BY <1>1, <2>1 DEF Start, Go, cvVars, Turns
  <2> QED
    BY <1>1, <2>2, StartKeeps
<1>2. CASE Take(c)
  <2>1. /\ Go(c, "waits", "granted") /\ UNCHANGED gameVars /\ UNCHANGED alex_cv
        /\ cont_cv > 0 /\ cont_cv' \in Nat /\ Turns' = Turns
    BY <1>0, <1>2, TakeTurn DEF Take
  <2> QED
    BY <1>0, <1>00, <2>1, SilentKeeps DEF Places
<1>3. CASE Leave(c)
  <2>1. /\ Go(c, "granted", "ends") /\ UNCHANGED gameVars /\ UNCHANGED alex_cv
        /\ GameOver /\ cont_cv' = 0 /\ Turns' = Turns
    BY <1>3, LeaveTurn DEF Leave
  <2> QED
    BY <1>0, <1>00, <2>1, SilentKeeps DEF Places
<1>4. CASE PassOn(c)
  <2>1. /\ Go(c, "granted", "waits") /\ UNCHANGED gameVars /\ UNCHANGED alex_cv
        /\ cont_cv' = 0
    BY <1>4 DEF PassOn
  <2>2. Turns = 1 /\ Turns' = cont_cv' + alex_cv' /\ alex_cv = 0
    BY <1>0, <2>1, WaitsAgain
  <2>3. Turns' = 0
    BY <2>1, <2>2
  <2> QED
    BY <1>4, <2>1, <2>2, <2>3, SilentKeeps DEF Places
<1>5. CASE AnswerRight(c)
  <2>1. /\ Go(c, "granted", "waits") /\ Right(c) /\ c \in can_buzz_in
        /\ UNCHANGED <<ready, num>> /\ cont_cv' = 0 /\ alex_cv' = alex_cv + 1
    BY <1>5 DEF AnswerRight, Right, Answer
  <2>2. GameTypeOK' /\ TriesCounted' /\ Settled'
    BY <1>0, <2>1, RightSettles
  <2> QED
    BY <2>1, <2>2, AnswerKeeps
<1>6. CASE AnswerWrong(c)
  <2>1. /\ Go(c, "granted", "waits") /\ Wrong(c) /\ c \in can_buzz_in
        /\ UNCHANGED <<ready, num>>
    BY <1>6 DEF AnswerWrong, Wrong, Answer
  <2>2. GameTypeOK' /\ TriesCounted' /\ (AllFailed <=> Settled')
    BY <1>0, <2>1, WrongCounted
  <2>3. \/ Settled' /\ cont_cv' = 0 /\ alex_cv' = alex_cv + 1
        \/ ~Settled' /\ cont_cv' = 1 /\ alex_cv' = alex_cv
    <3>1. CASE AllFailed
      BY <1>6, <2>2, <3>1 DEF AnswerWrong
    <3>2. CASE ~AllFailed
      BY <1>6, <2>2, <3>2 DEF AnswerWrong
    <3> QED
      BY <3>1, <3>2
  <2> QED
    BY <2>1, <2>2, <2>3, AnswerKeeps
<1>7. CASE Return(c)
  <2>1. /\ Go(c, "ends", "done") /\ UNCHANGED gameVars /\ UNCHANGED alex_cv
        /\ cont_cv' \in Nat /\ Turns' = Turns
    BY <1>0, <1>7, ReturnTurn DEF Return
  <2>2. GameOver
    BY <2>1 DEF QuizInv, Phases, Go
  <2> QED
    BY <1>0, <1>00, <2>1, <2>2, SilentKeeps DEF Places
<1> QED
  BY <1>1, <1>2, <1>3, <1>4, <1>5, <1>6, <1>7 DEF Play

(* The host's own moves.                                                   *)
LEMMA AlexKeeps ==
  ASSUME QuizInv, Host, GameTypeOK', TriesCounted', ready' = ready,
         alex' \in Places \ {"starts"},
         alex' \in {"ends", "done"} => GameOver',
         GameOver => GameOver',
         TurnMatchesQuestion'
  PROVE  QuizInv'
<1>1. /\ cont_cv' \in Nat /\ alex_cv' \in Nat
      /\ Turns' = IF FirstQuestion THEN 1 ELSE Turns
      /\ UNCHANGED <<play, loaded>>
  BY HostTurn
<1>2. OneTurn'
  BY <1>1 DEF QuizInv, OneTurn
<1>3. TypeOK'
  <2>1. play' \in [Contestants -> Places] /\ loaded' \in BOOLEAN /\ TypeOK
    BY <1>1 DEF QuizInv, TypeOK, Places
  <2> QED
    BY <1>1, <2>1, TypeMoves
<1>4. Phases'
  BY <1>1 DEF QuizInv, Phases, Arrived
<1> QED
  BY <1>2, <1>3, <1>4 DEF QuizInv

LEMMA HostKeeps ==
  ASSUME QuizInv, Host PROVE QuizInv'
<1>0. /\ TypeOK /\ GameTypeOK /\ TriesCounted /\ num \in Nat
      /\ TurnMatchesQuestion /\ cont_cv \in Nat /\ alex_cv \in Nat
  BY DEF QuizInv, TypeOK, GameTypeOK
<1>1. UNCHANGED <<play, loaded>>
  BY HostTurn
<1>2. CASE FirstQuestion
  <2>1. /\ AskQuestion(0) /\ ready' = ready /\ alex' = "waits"
        /\ alex_cv' = alex_cv /\ alex = "starts"
    BY <1>2 DEF FirstQuestion, AlexGo, AskQuestion
  <2>2. GameTypeOK' /\ TriesCounted' /\ can_buzz_in' = Contestants
    BY <1>0, <2>1, QuestionOpen
  <2>3. ~GameOver /\ Turns = 0 /\ alex_cv = 0
    BY <1>0, <2>1, QuestionsAssumption, TurnsType
       DEF QuizInv, Phases, GameOver, AlexHolds
  <2>4. TurnMatchesQuestion'
    BY <2>1, <2>2, <2>3, ContestantsAssumption
       DEF TurnMatchesQuestion, Settled
  <2> QED
    BY <2>1, <2>2, <2>3, <2>4, AlexKeeps DEF Places
<1>3. CASE AlexTake
  <2>1. /\ UNCHANGED <<ready, num, failed_tries, can_buzz_in, score, cont_cv>>
        /\ alex' = "granted" /\ alex_cv > 0
    BY <1>3 DEF AlexTake, AlexGo, gameVars
  <2>2. GameTypeOK' /\ TriesCounted' /\ (GameOver' <=> GameOver)
    BY <1>0, <2>1 DEF GameTypeOK, TriesCounted, Settled, GameOver
  <2>3. TurnMatchesQuestion'
    BY <1>0, <1>1, <2>1, <2>2 DEF TurnMatchesQuestion, Settled
  <2> QED
    BY <2>1, <2>2, <2>3, AlexKeeps DEF Places
<1>4. CASE NextQuestion
  <2>1. /\ AskQuestion(num + 1) /\ ready' = ready /\ alex' = "waits"
        /\ alex_cv' = 0 /\ num + 1 < NumQuestions
    BY <1>4 DEF NextQuestion, AlexGo, AskQuestion
  <2>2. GameTypeOK' /\ TriesCounted' /\ can_buzz_in' = Contestants
    BY <1>0, <2>1, QuestionOpen
  <2>3. ~GameOver
    BY <1>0, <2>1, QuestionsAssumption DEF GameOver
  <2>4. TurnMatchesQuestion'
    BY <2>1, <2>2, ContestantsAssumption DEF TurnMatchesQuestion, Settled
  <2> QED
    BY <2>1, <2>2, <2>3, <2>4, AlexKeeps DEF Places
<1>5. CASE LastQuestionDone
  <2>1. /\ num' = num + 1 /\ num' = NumQuestions /\ can_buzz_in' = {}
        /\ UNCHANGED <<ready, failed_tries, score>>
        /\ alex' = "ends" /\ alex_cv' = 0
    BY <1>5 DEF LastQuestionDone, EndGame, AlexGo
  <2>2. GameTypeOK' /\ TriesCounted' /\ Settled' /\ GameOver'
    BY <1>0, <2>1, QuestionsAssumption
       DEF GameTypeOK, TriesCounted, Settled, GameOver
  <2>3. TurnMatchesQuestion'
    BY <2>1, <2>2 DEF TurnMatchesQuestion
  <2> QED
    BY <2>1, <2>2, <2>3, AlexKeeps DEF Places
<1>6. CASE AlexReturn
  <2>1. /\ UNCHANGED <<ready, num, failed_tries, can_buzz_in, score, alex_cv>>
        /\ alex = "ends" /\ alex' = "done"
    BY <1>6 DEF AlexReturn, AlexGo, gameVars
  <2>2. GameOver
    BY <2>1 DEF QuizInv, Phases
  <2>3. GameTypeOK' /\ TriesCounted' /\ GameOver'
    BY <1>0, <2>1, <2>2 DEF GameTypeOK, TriesCounted, Settled, GameOver
  <2>4. TurnMatchesQuestion'
    BY <1>0, <2>1, <2>3 DEF TurnMatchesQuestion, Settled
  <2> QED
    BY <2>1, <2>3, <2>4, AlexKeeps DEF Places
<1> QED
  BY <1>2, <1>3, <1>4, <1>5, <1>6 DEF Host

LEMMA InitInv == Init => QuizInv
<1> SUFFICES ASSUME Init PROVE QuizInv
  OBVIOUS
<1>1. N \in Nat
  BY ContestantsAssumption, FS_CardinalityType DEF N
<1>2. /\ ready = 0 /\ num = 0 /\ failed_tries = 0 /\ can_buzz_in = {}
      /\ score = [c \in Contestants |-> 0] /\ cont_cv = 0 /\ alex_cv = 0
      /\ play = [c \in Contestants |-> "starts"] /\ alex = "starts"
  BY DEF Init, GameInit
<1>3. GameTypeOK
  BY <1>1, <1>2, QuestionsAssumption DEF GameTypeOK
<1>4. TypeOK
  <2>1. loaded \in BOOLEAN
    BY DEF Init
  <2> QED
    BY <1>2, <1>3, <2>1 DEF TypeOK
<1>5. Arrived = {} /\ Holders = {} /\ Cardinality({}) = 0
  BY <1>2, FS_EmptySet DEF Arrived, Holders
<1>6. Turns = 0
  BY <1>2, <1>5 DEF Turns
<1>7. Phases
  BY <1>2, <1>5, <1>6, QuestionsAssumption DEF Phases, Settled, GameOver
<1> QED
  BY <1>2, <1>4, <1>6, <1>7
     DEF QuizInv, TriesCounted, OneTurn, TurnMatchesQuestion, Settled

LEMMA StillKeeps ==
  ASSUME QuizInv, UNCHANGED <<gameVars, cvVars, play, alex>>, loaded' \in BOOLEAN
  PROVE  QuizInv' /\ Turns' = Turns
<1>1. UNCHANGED <<ready, num, failed_tries, can_buzz_in, score, cont_cv,
                  alex_cv, play, alex>>
  BY DEF gameVars, cvVars
<1>2. Turns' = Turns
  BY <1>1 DEF Turns, Holders
<1>3. TypeOK' /\ TriesCounted'
  BY <1>1 DEF QuizInv, TypeOK, GameTypeOK, TriesCounted, Settled
<1> QED
  BY <1>1, <1>2, <1>3 DEF QuizInv, Phases, Arrived, OneTurn,
     TurnMatchesQuestion, Settled, GameOver

LEMMA NextKeeps ==
  ASSUME QuizInv, [Next]_vars PROVE QuizInv'
<1>1. CASE Exit
  BY <1>1, StillKeeps DEF Exit
<1>2. CASE UNCHANGED vars
  <2>1. loaded' \in BOOLEAN /\ UNCHANGED <<gameVars, cvVars, play, alex>>
    BY <1>2 DEF vars, QuizInv, TypeOK
  <2> QED
    BY <2>1, StillKeeps
<1> QED
  BY <1>1, <1>2, PlayKeeps, HostKeeps DEF Next

(* There is one turn at most, and it is where the question is: the failures *)
(* are counted, and the turn is passed on with each of them.                *)
THEOREM Invariance == Spec => []QuizInv
  BY InitInv, NextKeeps, PTL DEF Spec

(* The only step that loses the turn is that of a contestant who failed    *)
(* the open question and takes the turn again.                             *)
THEOREM TurnLost == Spec => TurnLostOnlyAfterFailure
<1>1. ASSUME QuizInv, NEW c \in Contestants, PassOn(c)
      PROVE  ~Settled /\ failed_tries \in 1..(N - 1)
  <2>1. /\ c \notin can_buzz_in /\ ~GameOver /\ play[c] = "granted"
        /\ can_buzz_in \subseteq Contestants /\ TriesCounted
        /\ TurnMatchesQuestion
    BY <1>1 DEF PassOn, Go, QuizInv, TypeOK, GameTypeOK
  <2>2. ~Settled
    BY <2>1 DEF TurnMatchesQuestion
  <2> DEFINE F == Contestants \ can_buzz_in
  <2>3. /\ F # Contestants /\ F # {} /\ failed_tries = Cardinality(F)
    BY <2>1, <2>2 DEF Settled, TriesCounted
  <2>4. /\ IsFiniteSet(F) /\ Cardinality(F) \in 0..N
        /\ Cardinality(F) >= N => F = Contestants
    BY Counts
  <2>5. Cardinality(F) # 0 /\ N \in Nat
    BY <2>3, <2>4, ContestantsAssumption, FS_EmptySet, FS_CardinalityType DEF N
  <2> HIDE DEF F
  <2>6. failed_tries \in 1..(N - 1)
    BY <2>3, <2>4, <2>5
  <2> QED
    BY <2>2, <2>6
<1>2. ASSUME QuizInv, Next, Turns' < Turns
      PROVE  ~Settled /\ failed_tries \in 1..(N - 1)
  <2>1. Turns \in Nat
    BY <1>2, HoldersCount DEF QuizInv, TypeOK, Turns
  <2>2. ASSUME NEW c \in Contestants, Play(c)
        PROVE  ~Settled /\ failed_tries \in 1..(N - 1)
    BY <1>1, <1>2, <2>1, <2>2, PlayKeeps
  <2>3. CASE Host
    <3>1. Turns' = IF FirstQuestion THEN 1 ELSE Turns
      BY <1>2, <2>3, HostTurn
    <3>2. FirstQuestion => Turns = 0
      BY <1>2 DEF FirstQuestion, AlexGo, QuizInv, Phases
    <3> QED
      BY <1>2, <2>1, <3>1, <3>2
  <2>4. CASE Exit
    <3>1. loaded' \in BOOLEAN /\ UNCHANGED <<gameVars, cvVars, play, alex>>
      BY <2>4 DEF Exit
    <3> QED
      BY <1>2, <2>1, <3>1, StillKeeps
  <2> QED
    BY <1>2, <2>2, <2>3, <2>4 DEF Next
<1>3. QuizInv /\ [Next]_vars
        => [Turns' < Turns => ~Settled /\ failed_tries \in 1..(N - 1)]_vars
  BY <1>2
<1> QED
  BY <1>3, Invariance, PTL DEF Spec, TurnLostOnlyAfterFailure

-----------------------------------------------------------------------------
(***************************************************************************)
(* The refinement.                                                         *)
(***************************************************************************)
LEMMA TryIsTry ==
  ASSUME QuizInv, NEW c \in Contestants, AnswerRight(c) \/ AnswerWrong(c)
  PROVE  Q!Next
<1> DEFINE asked == IF alex = "starts" THEN 0 ELSE Asked
<1>1. /\ c \in can_buzz_in /\ ~GameOver /\ UNCHANGED <<num, alex>>
      /\ \/ /\ score' = [score EXCEPT ![c] = @ + (num + 1)]
            /\ can_buzz_in' = {}
         \/ /\ score' = [score EXCEPT ![c] = @ + -(num + 1)]
            /\ can_buzz_in' = can_buzz_in \ {c}
  BY DEF AnswerRight, AnswerWrong, Right, Wrong, Answer, Go
<1>2. alex # "starts"
  BY <1>1 DEF QuizInv, Phases, Settled
<1>3. asked = num + 1 /\ asked' = asked
  BY <1>1, <1>2 DEF Asked, GameOver
<1>4. Q!Win(c) \/ Q!Miss(c)
  BY <1>1, <1>3 DEF Q!Win, Q!Miss, Q!Try
<1> QED
  BY <1>4 DEF Q!Next

LEMMA AskIsAsk ==
  ASSUME QuizInv, FirstQuestion \/ NextQuestion PROVE Q!Next
<1>1. num \in Nat
  BY DEF QuizInv, TypeOK, GameTypeOK
<1>2. CASE FirstQuestion
  BY <1>1, <1>2, QuestionsAssumption
     DEF QuizInv, Phases, FirstQuestion, AlexGo, AskQuestion, Settled, Asked,
         GameOver, Q!Next, Q!Ask
<1>3. CASE NextQuestion
  BY <1>1, <1>3, QuestionsAssumption
     DEF QuizInv, TurnMatchesQuestion, NextQuestion, AlexGo, AskQuestion,
         Settled, Asked, GameOver, Q!Next, Q!Ask
<1> QED
  BY <1>2, <1>3

LEMMA OthersStutter ==
  ASSUME UNCHANGED <<num, can_buzz_in, score>>,
         alex' = "starts" <=> alex = "starts"
  PROVE  UNCHANGED Q!vars
BY DEF Q!vars, Asked, GameOver

(* Every step of the threads is a step of the abstract quiz or none.       *)
THEOREM Refinement == Spec => IsQuiz
<1>1. Init => Q!Init
  BY DEF Init, GameInit, Q!Init
<1>2. QuizInv /\ [Next]_vars => [Q!Next]_Q!vars
  <2> SUFFICES ASSUME QuizInv, [Next]_vars PROVE Q!Next \/ UNCHANGED Q!vars
    OBVIOUS
  <2>1. ASSUME NEW c \in Contestants, Play(c)
        PROVE  Q!Next \/ UNCHANGED Q!vars
    <3>1. CASE AnswerRight(c) \/ AnswerWrong(c)
      BY <3>1, TryIsTry
    <3>2. CASE Start(c) \/ Take(c) \/ Leave(c) \/ PassOn(c) \/ Return(c)
      BY <3>2, OthersStutter
         DEF Start, GetReady, Take, Leave, PassOn, Return, Go, gameVars
    <3> QED
      BY <2>1, <3>1, <3>2 DEF Play
  <2>2. CASE Host
    <3>1. CASE LastQuestionDone
      <4>1. /\ can_buzz_in = {} /\ can_buzz_in' = {} /\ score' = score
            /\ num' = num + 1 /\ num + 1 = NumQuestions
            /\ alex = "granted" /\ alex' = "ends"
        BY <3>1 DEF LastQuestionDone, AlexGo, EndGame, QuizInv,
                    TurnMatchesQuestion, Settled
      <4> QED
        BY <4>1, QuestionsAssumption DEF Q!vars, Asked, GameOver
    <3>2. CASE AlexTake \/ AlexReturn
      BY <3>2, OthersStutter DEF AlexTake, AlexReturn, AlexGo, gameVars
    <3> QED
      BY <2>2, <3>1, <3>2, AskIsAsk DEF Host
  <2>3. CASE Exit
    BY <2>3, OthersStutter DEF Exit, gameVars
  <2>4. CASE UNCHANGED vars
    BY <2>4, OthersStutter DEF vars, gameVars
  <2> QED
    BY <2>1, <2>2, <2>3, <2>4 DEF Next
<1> QED
  BY <1>1, <1>2, Invariance, PTL DEF Spec, IsQuiz, Q!Spec
=============================================================================
