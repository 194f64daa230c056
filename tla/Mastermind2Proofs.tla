-------------------------- MODULE Mastermind2Proofs --------------------------
(***************************************************************************)
(* Theorems about the game driver, for any number of users and processes   *)
(* and any bytes they and the network send.                                *)
(***************************************************************************)
EXTENDS Mastermind2, FiniteSetTheorems, TLAPS

(* A score is a number of black pegs up to NUM_PEGS and a natural number.  *)
LEMMA BlackType ==
  ASSUME NEW code, NEW guess PROVE NumBlack(code, guess) \in 0..NUM_PEGS
<1>1. IsFiniteSet(Pegs) /\ Cardinality(Pegs) = 4
  <2>1. 1 \in Int /\ 4 \in Int /\ 4 - 1 + 1 = 4 /\ ~(1 > 4)
    OBVIOUS
  <2>2. IsFiniteSet(1..4) /\ Cardinality(1..4) = 4 - 1 + 1
    BY <2>1, FS_Interval
  <2> QED
    BY <2>1, <2>2 DEF Pegs, NUM_PEGS
<1>2. Black(code, guess) \subseteq Pegs
  BY DEF Black
<1>3. /\ IsFiniteSet(Black(code, guess))
      /\ Cardinality(Black(code, guess)) <= 4
  BY <1>1, <1>2, FS_Subset
<1> QED
  BY <1>3, FS_CardinalityType DEF NumBlack, NUM_PEGS

LEMMA LookUpType ==
  ASSUME NEW code, NEW guess, NEW i, NEW s, s.white \in Nat
  PROVE  LookUp(code, guess, i, s).white \in Nat
  BY DEF LookUp

LEMMA WhiteType ==
  ASSUME NEW code, NEW guess PROVE NumWhite(code, guess) \in Nat
<1> DEFINE s0 == Unscored(code, guess)
           s1 == LookUp(code, guess, 1, s0)
           s2 == LookUp(code, guess, 2, s1)
           s3 == LookUp(code, guess, 3, s2)
           s4 == LookUp(code, guess, 4, s3)
<1>0. s0.white \in Nat
  BY DEF Unscored
<1>1. NumWhite(code, guess) = s4.white
  BY DEF NumWhite
<1> HIDE DEF s0
<1>2. s1.white \in Nat
  BY <1>0, LookUpType
<1> HIDE DEF s1
<1>3. s2.white \in Nat
  BY <1>2, LookUpType
<1> HIDE DEF s2
<1>4. s3.white \in Nat
  BY <1>3, LookUpType
<1> HIDE DEF s3
<1>5. s4.white \in Nat
  BY <1>4, LookUpType
<1> QED
  BY <1>1, <1>5

-----------------------------------------------------------------------------
(***************************************************************************)
(* What the handlers make of a game.                                       *)
(***************************************************************************)
LEMMA NewGameGood ==
  ASSUME NEW u \in Uids
  PROVE  NewGame(u) \in Game /\ Consistent(NewGame(u))
<1>1. <<>> \in Seq(Line) /\ Len(<<>>) = 0
  OBVIOUS
<1>2. Says("No game yet") \in Status
  BY DEF Says, Status
<1>3. NewGame(u) \in Game
  BY <1>1, <1>2 DEF NewGame, Game
<1>4. Consistent(NewGame(u))
  <2> DEFINE x == NewGame(u)
  <2>1. x.user_view = <<>> /\ x.num_guesses = 0
    BY DEF NewGame
  <2>2. x.game_status.kind = "No game yet"
    BY DEF NewGame, Says
  <2>3. ~x.game_active
    BY DEF NewGame
  <2>4. 1..Len(x.user_view) = {}
    BY <1>1, <2>1
  <2> HIDE DEF x
  <2>5. Consistent(x)
    BY <1>1, <2>1, <2>2, <2>3, <2>4 DEF Consistent
  <2> QED
    BY <2>5 DEF x
<1> QED
  BY <1>3, <1>4

LEMMA StartedGood ==
  ASSUME NEW g \in Game
  PROVE  /\ Started(g) \in Game /\ Consistent(Started(g))
         /\ Started(g).player_id = g.player_id
<1>1. <<>> \in Seq(Line) /\ Len(<<>>) = 0
  OBVIOUS
<1>2. Says("Starting game") \in Status
  BY DEF Says, Status
<1>3. Started(g) \in Game
  BY <1>1, <1>2 DEF Started, Game
<1>4. Consistent(Started(g))
  <2> DEFINE x == Started(g)
  <2>1. x.user_view = <<>> /\ x.num_guesses = 0
    BY DEF Started
  <2>2. x.game_status.kind = "Starting game"
    BY DEF Started, Says
  <2>3. x.game_active
    BY DEF Started
  <2>4. 1..Len(x.user_view) = {}
    BY <1>1, <2>1
  <2> HIDE DEF x
  <2>5. Consistent(x)
    BY <1>1, <2>1, <2>2, <2>3, <2>4 DEF Consistent
  <2> QED
    BY <2>5 DEF x
<1> QED
  BY <1>3, <1>4 DEF Started

LEMMA StoppedGood ==
  ASSUME NEW g \in Game, Consistent(g), g.game_active
  PROVE  /\ Stopped(g) \in Game /\ Consistent(Stopped(g))
         /\ Stopped(g).player_id = g.player_id
<1>1. g.game_status.kind \notin {"Correct"}
  BY DEF Consistent
<1>2. Stopped(g) \in Game
  BY DEF Stopped, Game, Status, Says
<1> QED
  BY <1>1, <1>2 DEF Stopped, Game, Says, Consistent

LEMMA ScoredGood ==
  ASSUME NEW g \in Game, Consistent(g), g.game_active, NEW guess
  PROVE  /\ Scored(g, guess) \in Game /\ Consistent(Scored(g, guess))
         /\ Scored(g, guess).player_id = g.player_id
<1> DEFINE line == [black |-> NumBlack(target_code, guess),
                    white |-> NumWhite(target_code, guess)]
           won  == line.black = NUM_PEGS
           n    == g.num_guesses + 1
           view == Append(g.user_view, line)
           said == IF won THEN Says("Correct")
                   ELSE [kind |-> "Guess", n |-> n, line |-> line]
           s    == Scored(g, guess)
<1>1. line \in Line
  BY BlackType, WhiteType DEF Line
<1>2. n \in Nat /\ view \in Seq(Line) /\ Len(view) = n /\ n > 0
  <2>1. g.num_guesses \in Nat /\ g.user_view \in Seq(Line)
    BY DEF Game
  <2>2. Len(g.user_view) = g.num_guesses
    BY DEF Consistent
  <2> HIDE DEF line
  <2> QED
    BY <1>1, <2>1, <2>2
<1>3. said \in Status
  BY <1>1, <1>2 DEF Status, Says
<1>4. /\ s.player_id = g.player_id /\ s.num_guesses = n /\ s.user_view = view
      /\ s.game_active = ~won /\ s.game_status = said
  BY DEF Scored, Game
<1>5. s \in Game
  <2> HIDE DEF line, n, view, said
  <2>1. s = [player_id |-> g.player_id, game_active |-> ~won,
             num_guesses |-> n, game_status |-> said, user_view |-> view]
    BY DEF Scored, line, n, view, said
  <2> QED
    BY <1>2, <1>3, <2>1 DEF Game
<1>6. \A k \in 1..Len(g.user_view) : g.user_view[k].black # NUM_PEGS
  BY DEF Consistent
<1>7. /\ view[Len(view)] = line
      /\ \A k \in 1..Len(view) : k = Len(view) \/ view[k].black # NUM_PEGS
  BY <1>1, <1>2, <1>6 DEF Game
<1>8. said.kind = IF won THEN "Correct" ELSE "Guess"
  BY DEF Says
<1>9. ~won => said.n = n /\ said.line = line
  OBVIOUS
<1>10. Consistent(s)
  <2> HIDE DEF n, view, said, s
  <2> QED
    BY <1>2, <1>4, <1>7, <1>8, <1>9 DEF Consistent, LastLine
<1> QED
  BY <1>4, <1>5, <1>10

-----------------------------------------------------------------------------
(***************************************************************************)
(* The inductive invariant.                                                *)
(***************************************************************************)
IInv == TypeOK /\ OneGamePerPlayer /\ OwnGame /\ GameConsistent

(* What a step may do to the list: nothing, or replace the caller's game   *)
(* by a consistent one.                                                    *)
SameOrOwn(t, g) ==
  \/ UNCHANGED games_list
  \/ /\ curr_player[t] \in 1..Len(games_list)
     /\ g \in Game /\ Consistent(g) /\ g.player_id = Mine(t).player_id
     /\ SetGame(t, g)

(* What the handlers may do to the rest. *)
RestTyped ==
  /\ NUM_COLORS' \in Int /\ target_code' \in [Pegs -> Int]
  /\ num_game_started' \in {num_game_started, num_game_started + 1}
  /\ times_target_code_changed' = times_target_code_changed
  /\ num_invalid_change_attempts' = num_invalid_change_attempts

(* Leaving a handler keeps the invariant when the list is kept so.         *)
LEMMA ReturnKeeps ==
  ASSUME IInv, NEW t \in Threads, NEW g, Return(t), SameOrOwn(t, g),
         RestTyped
  PROVE  IInv'
<1> USE DEF IInv
<1>1. /\ games_list' \in Seq(Game) /\ Len(games_list') = Len(games_list)
      /\ \A i \in 1..Len(games_list) :
           /\ games_list'[i].player_id = games_list[i].player_id
           /\ Consistent(games_list'[i])
  <2>1. CASE UNCHANGED games_list
    BY <2>1 DEF TypeOK, GameConsistent
  <2>2. CASE ~UNCHANGED games_list
    <3> DEFINE c == curr_player[t]
    <3>1. /\ c \in 1..Len(games_list) /\ g \in Game /\ Consistent(g)
          /\ g.player_id = games_list[c].player_id
          /\ games_list' = [games_list EXCEPT ![c] = g]
      BY <2>2 DEF SameOrOwn, SetGame, Mine
    <3> HIDE DEF c
    <3>2. games_list' \in Seq(Game) /\ Len(games_list') = Len(games_list)
      BY <3>1 DEF TypeOK
    <3>3. ASSUME NEW i \in 1..Len(games_list)
          PROVE  games_list'[i] = IF i = c THEN g ELSE games_list[i]
      BY <3>1 DEF TypeOK
    <3> QED
      BY <3>1, <3>2, <3>3 DEF GameConsistent
  <2> QED
    BY <2>1, <2>2
<1>2. /\ call' = [call EXCEPT ![t] = [op |-> "none", at |-> "idle"]]
      /\ curr_player' = [curr_player EXCEPT ![t] = NULL]
      /\ highest' = [highest EXCEPT ![t] = 0]
      /\ UNCHANGED <<bottom, bottomHighest>>
  BY DEF Return, bottomVars
<1>3. TypeOK'
  <2>1. call' \in [Threads -> Calls]
    <3>1. [op |-> "none", at |-> "idle"] \in Calls
      BY DEF Calls
    <3> QED
      BY <1>2, <3>1 DEF TypeOK
  <2>2. curr_player' \in [Threads -> Nat] /\ highest' \in [Threads -> Int]
    BY <1>2 DEF TypeOK, NULL
  <2> QED
    BY <1>1, <1>2, <2>1, <2>2 DEF TypeOK, RestTyped
<1>4. OneGamePerPlayer'
  BY <1>1 DEF OneGamePerPlayer
<1>5. OwnGame'
  <2> SUFFICES ASSUME NEW s \in Threads
      PROVE /\ call'[s].at = "body" /\ curr_player'[s] # NULL
                 => /\ curr_player'[s] \in 1..Len(games_list')
                    /\ games_list'[curr_player'[s]].player_id = UidOf[s]
            /\ call'[s].at # "body" => curr_player'[s] = NULL
    BY DEF OwnGame, Mine
  <2>1. CASE s = t
    BY <1>2, <2>1 DEF TypeOK
  <2>2. CASE s # t
    BY <1>1, <1>2, <2>2 DEF TypeOK, OwnGame, Mine
  <2> QED
    BY <2>1, <2>2
<1>6. GameConsistent'
  BY <1>1 DEF GameConsistent
<1> QED
  BY <1>3, <1>4, <1>5, <1>6

(* The same for a call that only reads. *)
LEMMA LeaveKeeps ==
  ASSUME IInv, NEW t \in Threads, Leave(t) PROVE IInv'
<1>1. /\ Return(t) /\ UNCHANGED games_list /\ RestTyped
  BY DEF Leave, RestTyped, IInv, TypeOK, codeVars, statVars
<1>2. SameOrOwn(t, t)
  BY <1>1 DEF SameOrOwn
<1> QED
  BY <1>1, <1>2, ReturnKeeps

LEMMA MineGood ==
  ASSUME IInv, NEW t \in Threads, call[t].at = "body", curr_player[t] # NULL
  PROVE  /\ curr_player[t] \in 1..Len(games_list)
         /\ Mine(t) \in Game /\ Consistent(Mine(t))
  BY DEF IInv, OwnGame, GameConsistent, TypeOK, Mine

LEMMA WriteKeeps ==
  ASSUME IInv, NEW t \in Threads, NEW guess, Write(t, guess) PROVE IInv'
<1> DEFINE g == Scored(Mine(t), guess)
<1>1. /\ Return(t) /\ SetGame(t, g) /\ RestTyped
      /\ call[t].at = "body" /\ curr_player[t] # NULL /\ Mine(t).game_active
  BY DEF Write, CanGuess, InBody, RestTyped, IInv, TypeOK, codeVars, statVars
<1>2. SameOrOwn(t, g)
  BY <1>1, MineGood, ScoredGood DEF SameOrOwn
<1> HIDE DEF g
<1> QED
  BY <1>1, <1>2, ReturnKeeps

LEMMA FixedCodeType == FixedCode \in [Pegs -> Int]
<1>1. <<0, 0, 1, 2>> \in Seq(Int) /\ Len(<<0, 0, 1, 2>>) = 4
  OBVIOUS
<1> QED
  BY <1>1 DEF FixedCode, Pegs, NUM_PEGS

LEMMA LastType ==
  ASSUME NEW admin, NEW request \in Requests(Lasts, admin)
  PROVE  request.last \in Int
<1> SUFFICES ASSUME NEW in \in CtlInputs(Lasts) PROVE in.last \in Int
  BY DEF Requests
<1>1. ASSUME NEW w, NEW C, NEW L, in \in Written(w, C, L) PROVE in.last \in L
  BY <1>1 DEF Written
<1>2. CASE in \in Written("colors", 1..9, Lasts)
  BY <1>1, <1>2, InputAssumption
<1>3. CASE in \notin Written("colors", 1..9, Lasts)
  <2>1. \E w, C : in \in Written(w, C, {0})
    BY <1>3 DEF CtlInputs
  <2>2. in.last \in {0}
    BY <1>1, <2>1
  <2> QED
    BY <2>2
<1> QED
  BY <1>2, <1>3

LEMMA CtlKeeps ==
  ASSUME IInv, NEW t \in Threads, NEW admin,
         NEW request \in Requests(Lasts, admin), Ctl(t, request)
  PROVE  IInv'
<1>1. CASE curr_player[t] = NULL
  BY <1>1, LeaveKeeps DEF Ctl
<1>2. CASE curr_player[t] # NULL
  <2>0. call[t].at = "body"
    BY DEF Ctl, InBody
  <2>1. CASE CtlStart(t)
    <3> DEFINE g == Started(Mine(t))
    <3>1. Return(t) /\ SetGame(t, g)
      BY <2>1 DEF CtlStart
    <3>2. target_code' \in [Pegs -> Int]
      <4>1. NUM_COLORS \in Int
        BY DEF IInv, TypeOK
      <4>2. Remainders(NUM_COLORS) \subseteq Int
        <5>1. CASE NUM_COLORS < 0
          <6>1. Remainders(NUM_COLORS) \subseteq Ints
            BY <5>1 DEF Remainders
          <6> QED
            BY <6>1, ModeAssumption
        <5>2. CASE ~(NUM_COLORS < 0)
          BY <4>1, <5>2 DEF Remainders
        <5> QED
          BY <5>1, <5>2
      <4>3. [Pegs -> Remainders(NUM_COLORS)] \subseteq [Pegs -> Int]
        BY <4>2
      <4>4. target_code' \in NewCodes
        BY <2>1 DEF CtlStart
      <4> QED
        BY <4>3, <4>4, FixedCodeType DEF NewCodes
    <3>3. RestTyped
      BY <2>1, <3>2 DEF CtlStart, RestTyped, IInv, TypeOK
    <3>4. SameOrOwn(t, g)
      BY <1>2, <2>0, <3>1, MineGood, StartedGood DEF SameOrOwn
    <3> HIDE DEF g
    <3> QED
      BY <3>1, <3>3, <3>4, ReturnKeeps
  <2>2. CASE CtlQuit(t)
    <3> DEFINE g == Stopped(Mine(t))
    <3>1. /\ Return(t) /\ RestTyped
          /\ IF Mine(t).game_active THEN SetGame(t, g)
                                    ELSE UNCHANGED games_list
      BY <2>2 DEF CtlQuit, RestTyped, IInv, TypeOK, codeVars, statVars
    <3>2. SameOrOwn(t, g)
      BY <1>2, <2>0, <3>1, MineGood, StoppedGood DEF SameOrOwn
    <3> HIDE DEF g
    <3> QED
      BY <3>1, <3>2, ReturnKeeps
  <2>3. ASSUME NEW values \in SUBSET Int, CtlColors(t, values) PROVE IInv'
    <3>1. Return(t) /\ RestTyped /\ UNCHANGED games_list
      BY <2>3 DEF CtlColors, RestTyped, IInv, TypeOK, statVars
    <3>2. SameOrOwn(t, t)
      BY <3>1 DEF SameOrOwn
    <3> QED
      BY <3>1, <3>2, ReturnKeeps
  <2>4. CASE CtlColors(t, {request.last})
    <3>1. {request.last} \in SUBSET Int /\ CtlColors(t, {request.last})
      BY <2>4, LastType
    <3> QED
      BY <2>3, <3>1
  <2>5. CASE CtlColors(t, Garbage)
    BY <2>3, <2>5, ModeAssumption
  <2>6. CASE Leave(t)
    BY <2>6, LeaveKeeps
  <2> QED
    BY <1>2, <2>1, <2>2, <2>4, <2>5, <2>6 DEF Ctl
<1> QED
  BY <1>1, <1>2

LEMMA EnterKeeps ==
  ASSUME IInv, NEW t \in Threads, NEW op \in Ops, Enter(t, op) PROVE IInv'
<1> USE DEF IInv
<1>1. /\ call' = [call EXCEPT ![t] = [op |-> op, at |-> "find"]]
      /\ UNCHANGED <<NUM_COLORS, target_code, num_game_started,
                     times_target_code_changed, num_invalid_change_attempts,
                     games_list, curr_player, bottom, bottomHighest>>
  BY DEF Enter, codeVars, statVars, bottomVars
<1>2. highest' \in [Threads -> Int]
  BY DEF Enter, TypeOK
<1>3. [op |-> op, at |-> "find"] \in Calls
  BY DEF Calls
<1>4. call' \in [Threads -> Calls]
  BY <1>1, <1>3 DEF TypeOK
<1>5. TypeOK'
  BY <1>1, <1>2, <1>4 DEF TypeOK
<1>6. call[t].at # "body" /\ call'[t].at # "body"
  <2>1. call[t] \in Calls /\ call[t].op = "none"
    BY DEF Enter, TypeOK
  <2>2. call[t].at = "idle"
    BY <2>1 DEF Calls, Ops
  <2> QED
    BY <1>1, <2>2 DEF TypeOK
<1>7. \A s \in Threads : (call'[s].at = "body") <=> (call[s].at = "body")
  BY <1>1, <1>6 DEF TypeOK
<1>8. OwnGame'
  BY <1>1, <1>7 DEF OwnGame, Mine
<1> QED
  BY <1>1, <1>5, <1>8 DEF OneGamePerPlayer, GameConsistent

LEMMA FindKeeps ==
  ASSUME IInv, NEW t \in Threads, Find(t) PROVE IInv'
<1> USE DEF IInv
<1>1. PICK i \in 0..Len(games_list') :
        /\ Found(t, i)
        /\ i # NULL => games_list'[i].player_id = UidOf[t]
        /\ \/ UNCHANGED games_list
           \/ /\ games_list' = Append(games_list, NewGame(UidOf[t]))
              /\ GamesOf(UidOf[t]) = {}
  <2>1. CASE FindOld(t)
    BY <2>1 DEF FindOld, GamesOf, TypeOK
  <2>2. CASE FindNew(t)
    <3>1. games_list'[Len(games_list')] = NewGame(UidOf[t])
      BY <2>2 DEF FindNew, TypeOK
    <3>2. NewGame(UidOf[t]).player_id = UidOf[t]
      BY DEF NewGame
    <3>3. Len(games_list') \in 0..Len(games_list')
      BY <2>2, UidAssumption, NewGameGood DEF FindNew, TypeOK
    <3> QED
      BY <2>2, <3>1, <3>2, <3>3 DEF FindNew
  <2>3. CASE FindFails(t)
    BY <2>3 DEF FindFails, NULL, TypeOK
  <2> QED
    BY <2>1, <2>2, <2>3 DEF Find
<1>2. /\ games_list' \in Seq(Game) /\ Len(games_list') >= Len(games_list)
      /\ \A j \in 1..Len(games_list) : games_list'[j] = games_list[j]
      /\ \A j \in 1..Len(games_list') : j > Len(games_list)
           => /\ j = Len(games_list') /\ Len(games_list') = Len(games_list) + 1
              /\ games_list'[j] = NewGame(UidOf[t])
              /\ GamesOf(UidOf[t]) = {}
  <2>1. CASE UNCHANGED games_list
    BY <2>1 DEF TypeOK
  <2>2. CASE games_list' = Append(games_list, NewGame(UidOf[t]))
             /\ GamesOf(UidOf[t]) = {}
    <3>1. NewGame(UidOf[t]) \in Game
      BY UidAssumption, NewGameGood
    <3> QED
      BY <2>2, <3>1 DEF TypeOK
  <2> QED
    BY <1>1, <2>1, <2>2
<1>3. NewGame(UidOf[t]).player_id = UidOf[t] /\ Consistent(NewGame(UidOf[t]))
  <2>1. Consistent(NewGame(UidOf[t]))
    BY UidAssumption, NewGameGood
  <2> QED
    BY <2>1 DEF NewGame
<1>4. /\ curr_player' = [curr_player EXCEPT ![t] = i]
      /\ call' = [call EXCEPT ![t].at = "body"]
      /\ UNCHANGED <<NUM_COLORS, target_code, num_game_started,
                     times_target_code_changed, num_invalid_change_attempts,
                     highest, bottom, bottomHighest>>
  BY <1>1 DEF Found, codeVars, statVars, bottomVars
<1>5. TypeOK'
  <2>1. call[t].at = "find"
    BY DEF Find, FindOld, FindNew, FindFails
  <2>2. [call[t] EXCEPT !.at = "body"] \in Calls
    <3>1. call[t] \in [op : Ops, at : {"find", "body"}]
      BY <2>1 DEF TypeOK, Calls
    <3> QED
      BY <3>1 DEF Calls
  <2>3. call' \in [Threads -> Calls]
    BY <1>4, <2>2 DEF TypeOK
  <2>4. curr_player' \in [Threads -> Nat]
    BY <1>1, <1>4 DEF TypeOK
  <2> QED
    BY <1>2, <1>4, <2>3, <2>4 DEF TypeOK
<1>6. OneGamePerPlayer'
  BY <1>2, <1>3 DEF OneGamePerPlayer, GamesOf
<1>7. GameConsistent'
  BY <1>2, <1>3 DEF GameConsistent
<1>8. OwnGame'
  <2> SUFFICES ASSUME NEW s \in Threads
      PROVE /\ call'[s].at = "body" /\ curr_player'[s] # NULL
                 => /\ curr_player'[s] \in 1..Len(games_list')
                    /\ games_list'[curr_player'[s]].player_id = UidOf[s]
            /\ call'[s].at # "body" => curr_player'[s] = NULL
    BY DEF OwnGame, Mine
  <2>1. CASE s = t
    <3>1. curr_player'[s] = i /\ call'[s].at = "body"
      BY <1>4, <2>1 DEF TypeOK, Calls
    <3> QED
      BY <1>1, <1>2, <2>1, <3>1 DEF NULL, TypeOK
  <2>2. CASE s # t
    <3>1. curr_player'[s] = curr_player[s] /\ call'[s] = call[s]
      BY <1>4, <2>2 DEF TypeOK
    <3> QED
      BY <1>2, <3>1 DEF OwnGame, Mine, TypeOK
  <2> QED
    BY <2>1, <2>2
<1> QED
  BY <1>5, <1>6, <1>7, <1>8

LEMMA BottomKeeps ==
  ASSUME IInv, Bottom PROVE IInv'
<1> USE DEF IInv
<1>1. UNCHANGED <<games_list, call, highest, curr_player>>
  BY DEF Bottom, BottomEnter, BottomReject, BottomInstall, BottomLeave,
         processVars
<1>2. TypeOK'
  <2>1. CASE BottomEnter
    <3>1. bottom' \in BOOLEAN
      BY <2>1 DEF BottomEnter
    <3>2. bottomHighest' \in Int
      BY <2>1 DEF BottomEnter, TypeOK
    <3>3. UNCHANGED <<NUM_COLORS, target_code, num_game_started,
                      times_target_code_changed, num_invalid_change_attempts>>
      BY <2>1 DEF BottomEnter, codeVars, statVars
    <3> QED
      BY <1>1, <3>1, <3>2, <3>3 DEF TypeOK
  <2>2. ASSUME BottomLeave, target_code' \in [Pegs -> Int],
               times_target_code_changed' \in Nat,
               num_invalid_change_attempts' \in Nat
        PROVE  TypeOK'
    <3>1. bottom' \in BOOLEAN
      BY <2>2 DEF BottomLeave
    <3>2. bottomHighest' \in Int /\ UNCHANGED <<NUM_COLORS, num_game_started>>
      BY <2>2 DEF BottomLeave
    <3> QED
      BY <1>1, <2>2, <3>1, <3>2 DEF TypeOK
  <2>3. CASE BottomReject
    BY <2>2, <2>3 DEF BottomReject, TypeOK
  <2>4. ASSUME NEW checked \in Packets, NEW data \in Packets, BottomInstall(checked, data)
        PROVE  TypeOK'
    BY <2>2, <2>4, InputAssumption DEF BottomInstall, TypeOK
  <2> QED
    BY <2>1, <2>3, <2>4 DEF Bottom, ReadAgain
<1> QED
  BY <1>1, <1>2 DEF OneGamePerPlayer, OwnGame, Mine, GameConsistent

LEMMA InitInv == Init => IInv
<1> SUFFICES ASSUME Init PROVE IInv
  OBVIOUS
<1>1. <<>> \in Seq(Game) /\ Len(<<>>) = 0
  OBVIOUS
<1>2. [op |-> "none", at |-> "idle"] \in Calls
  BY DEF Calls
<1>3. TypeOK
  <2>1. /\ bottom \in BOOLEAN
        /\ call \in [Threads -> Calls]
    BY <1>2 DEF Init
  <2>2. /\ NUM_COLORS \in Int /\ target_code \in [Pegs -> Int]
        /\ num_game_started \in Nat /\ times_target_code_changed \in Nat
        /\ num_invalid_change_attempts \in Nat
    BY DEF Init
  <2>3. /\ highest \in [Threads -> Int] /\ curr_player \in [Threads -> Nat]
        /\ bottomHighest \in Int /\ games_list \in Seq(Game)
    BY <1>1 DEF Init, NULL
  <2> QED
    BY <2>1, <2>2, <2>3 DEF TypeOK
<1>4. OneGamePerPlayer /\ GameConsistent
  BY <1>1 DEF Init, OneGamePerPlayer, GameConsistent
<1>5. OwnGame
  BY DEF Init, OwnGame
<1> QED
  BY <1>3, <1>4, <1>5 DEF IInv

(* Types, one game for a player, the pointer to one's own game, and games  *)
(* that agree with their logs, together: the pointer is safe because games *)
(* are only appended, and a game agrees with its log after a step because  *)
(* it did before.                                                          *)
THEOREM Invariance == Spec => []IInv
<1>1. IInv /\ [Next]_vars => IInv'
  <2> SUFFICES ASSUME IInv, [Next]_vars PROVE IInv'
    OBVIOUS
  <2>1. ASSUME NEW t \in Threads, Body(t) PROVE IInv'
    <3>1. CASE Look(t) \/ WriteRefused(t) \/ CtlFault(t)
      BY <3>1, LeaveKeeps DEF Look, WriteRefused, CtlFault
    <3>2. ASSUME NEW guess \in Guesses,
                 Write(t, guess) \/ WriteInvalid(t, guess)
          PROVE  IInv'
      BY <3>2, LeaveKeeps, WriteKeeps DEF WriteInvalid
    <3>3. ASSUME NEW request \in Requests(Lasts, UidOf[t] \in Admins),
                 Ctl(t, request)
          PROVE  IInv'
      BY <3>3, CtlKeeps
    <3> QED
      BY <2>1, <3>1, <3>2, <3>3 DEF Body
  <2>2. CASE UNCHANGED vars
    BY <2>2 DEF IInv, TypeOK, OneGamePerPlayer, OwnGame, Mine, GameConsistent,
                vars, codeVars, statVars, processVars, bottomVars
  <2> QED
    BY <2>1, <2>2, EnterKeeps, FindKeeps, BottomKeeps DEF Next, SysCall
<1> QED
  BY InitInv, <1>1, PTL DEF Spec

(* Every variable keeps its type. *)
THEOREM TypeCorrect == Spec => []TypeOK
  BY Invariance, PTL DEF IInv

(* No user ever has two games. *)
THEOREM OneGame == Spec => []OneGamePerPlayer
  BY Invariance, PTL DEF IInv

(* A handler's pointer leads to its caller's game. *)
THEOREM PointerToOwnGame == Spec => []OwnGame
  BY Invariance, PTL DEF IInv

(* Status, log and count of guesses of every game agree. *)
THEOREM Consistency == Spec => []GameConsistent
  BY Invariance, PTL DEF IInv

-----------------------------------------------------------------------------
(***************************************************************************)
(* The digits of the code: what was read of NUM_COLORS was a palette, and  *)
(* a code that comes from the network was checked against it.              *)
(***************************************************************************)
InPalettes(code) == \A p \in Pegs : \E c \in Palettes : code[p] \in DigitsOf(c)
BottomKnows == bottom => bottomHighest + 1 \in Palettes
KnownPalettes == NUM_COLORS \in Palettes /\ BottomKnows /\ InPalettes(target_code)

LEMMA DigitsKnown ==
  ASSUME NEW code \in [Pegs -> Int], NEW top \in Int, top + 1 \in Palettes,
         \A p \in Pegs : code[p] \in 0..top
  PROVE  InPalettes(code)
<1>1. top = (top + 1) - 1
  OBVIOUS
<1>2. \A p \in Pegs : code[p] \in DigitsOf(top + 1)
  BY <1>1 DEF DigitsOf
<1> QED
  BY <1>2, Zenon DEF InPalettes

LEMMA FixedCodeKnown == InPalettes(FixedCode)
<1>1. FixedCode \in [Pegs -> Int] /\ \A p \in Pegs : FixedCode[p] \in 0..5
  BY DEF FixedCode, Pegs, NUM_PEGS
<1>2. 5 \in Int /\ 5 + 1 \in Palettes
  BY DEF Palettes
<1> QED
  BY <1>1, <1>2, DigitsKnown

LEMMA SamePalettes ==
  ASSUME KnownPalettes, UNCHANGED <<NUM_COLORS, target_code, bottom, bottomHighest>>
  PROVE  KnownPalettes'
  BY DEF KnownPalettes, BottomKnows, InPalettes

(* The commands: a "colors" that is accepted names a palette.              *)
LEMMA ColorsKnown ==
  ASSUME NEW admin, NEW request \in Requests(Lasts, admin),
         request.command = "colors"
  PROVE  request.last \in Palettes
<1> SUFFICES ASSUME NEW in \in CtlInputs(Lasts), Command(in, admin) = "colors"
             PROVE  in.last \in Palettes
  BY DEF Requests
<1>1. in.word \in {"start", "quit", "colors", "other"}
  BY DEF CtlInputs, Written
<1>2. in.word = "colors" /\ in.last >= 2
  BY <1>1 DEF Command
<1>3. in.last \in Lasts
  BY <1>2 DEF CtlInputs, Written
<1> QED
  BY <1>2, <1>3 DEF Palettes

LEMMA CtlKnows ==
  ASSUME TypeOK, KnownPalettes, NEW t \in Threads, NEW admin,
         NEW request \in Requests(Lasts, admin), Ctl(t, request)
  PROVE  KnownPalettes'
<1>1. CASE Leave(t)
  BY <1>1, SamePalettes DEF Leave, Return, codeVars, bottomVars
<1>2. CASE CtlStart(t)
  <2>1. /\ target_code' \in NewCodes
        /\ UNCHANGED <<NUM_COLORS, bottom, bottomHighest>>
    BY <1>2 DEF CtlStart, Return, bottomVars
  <2>2. InPalettes(target_code')
    <3>1. CASE RandomCode
      <4>1. target_code' \in [Pegs -> Remainders(NUM_COLORS)]
        BY <2>1, <3>1 DEF NewCodes
      <4>2. \A p \in Pegs : target_code'[p] \in DigitsOf(NUM_COLORS)
        BY <3>1, <4>1 DEF DigitsOf
      <4>3. NUM_COLORS \in Palettes
        BY DEF KnownPalettes
      <4> QED
        BY <4>2, <4>3, Zenon DEF InPalettes
    <3>2. CASE ~RandomCode
      BY <2>1, <3>2, FixedCodeKnown DEF NewCodes
    <3> QED
      BY <3>1, <3>2
  <2> QED
    BY <2>1, <2>2 DEF KnownPalettes, BottomKnows, InPalettes
<1>3. CASE CtlQuit(t)
  BY <1>3, SamePalettes DEF CtlQuit, Return, codeVars, bottomVars
<1>4. ASSUME NEW values \in SUBSET Palettes, CtlColors(t, values)
      PROVE  KnownPalettes'
  <2>1. NUM_COLORS' \in Palettes /\ UNCHANGED <<target_code, bottom, bottomHighest>>
    BY <1>4 DEF CtlColors, Return, bottomVars
  <2> QED
    BY <2>1 DEF KnownPalettes, BottomKnows, InPalettes
<1>5. CASE request.command = "colors" /\ CtlColors(t, {request.last})
  <2>1. {request.last} \in SUBSET Palettes
    BY <1>5, ColorsKnown
  <2> QED
    BY <1>4, <1>5, <2>1
<1>6. CASE CtlColors(t, Garbage)
  BY <1>4, <1>6 DEF Palettes
<1> QED
  BY <1>1, <1>2, <1>3, <1>5, <1>6 DEF Ctl

(* The steps of the interrupt thread when the bytes of a packet stay what  *)
(* they are between the check and the assignments.                         *)
BottomOnce ==
  BottomEnter \/ BottomReject \/ \E data \in Packets : BottomInstall(data, data)
NextOnce == (\E t \in Threads : SysCall(t)) \/ BottomOnce

LEMMA BottomKnowsToo ==
  ASSUME TypeOK, KnownPalettes, BottomOnce PROVE KnownPalettes'
<1>1. CASE BottomEnter
  <2>1. /\ UNCHANGED <<NUM_COLORS, target_code>>
        /\ bottomHighest' = NUM_COLORS - 1
    BY <1>1 DEF BottomEnter, codeVars
  <2>2. bottomHighest' + 1 \in Palettes
    BY <2>1 DEF TypeOK, KnownPalettes
  <2> QED
    BY <2>1, <2>2 DEF KnownPalettes, BottomKnows, InPalettes
<1>2. ASSUME BottomLeave, InPalettes(target_code') PROVE KnownPalettes'
  <2>1. ~bottom' /\ NUM_COLORS' = NUM_COLORS
    BY <1>2 DEF BottomLeave
  <2> QED
    BY <1>2, <2>1 DEF KnownPalettes, BottomKnows, InPalettes
<1>3. CASE BottomReject
  BY <1>2, <1>3 DEF BottomReject, KnownPalettes
<1>4. ASSUME NEW data \in Packets, BottomInstall(data, data) PROVE KnownPalettes'
  <2>1. bottomHighest + 1 \in Palettes
    BY <1>4 DEF BottomInstall, KnownPalettes, BottomKnows
  <2>2. bottomHighest \in Int /\ data \in [Pegs -> Int]
    BY InputAssumption DEF TypeOK
  <2>3. /\ \A p \in Pegs : data[p] \in 0..bottomHighest
        /\ target_code' = data /\ BottomLeave
    BY <1>4 DEF BottomInstall, WithinPalette
  <2>4. InPalettes(data)
    BY <2>1, <2>2, <2>3, DigitsKnown
  <2> QED
    BY <1>2, <2>3, <2>4
<1> QED
  BY <1>1, <1>3, <1>4 DEF BottomOnce

(* Every step but that of a packet which changes under the interrupt       *)
(* thread keeps the digits known.                                          *)
LEMMA KnownStep ==
  ASSUME TypeOK, KnownPalettes, [NextOnce]_vars PROVE KnownPalettes'
<1>1. ASSUME NEW t \in Threads, SysCall(t) PROVE KnownPalettes'
  <2>1. CASE \E op \in Ops : Enter(t, op)
    BY <2>1, SamePalettes DEF Enter, codeVars, bottomVars
  <2>2. CASE Find(t)
    BY <2>2, SamePalettes
       DEF Find, FindOld, FindNew, FindFails, Found, codeVars, bottomVars
  <2>3. CASE Look(t) \/ WriteRefused(t) \/ CtlFault(t)
    BY <2>3, SamePalettes DEF Look, WriteRefused, CtlFault, Leave, Return,
                              codeVars, bottomVars
  <2>4. CASE \E guess \in Guesses : Write(t, guess) \/ WriteInvalid(t, guess)
    BY <2>4, SamePalettes DEF Write, WriteInvalid, Leave, Return, codeVars,
                              bottomVars
  <2>5. CASE \E request \in Requests(Lasts, UidOf[t] \in Admins) : Ctl(t, request)
    BY <2>5, CtlKnows
  <2> QED
    BY <1>1, <2>1, <2>2, <2>3, <2>4, <2>5 DEF SysCall, Body
<1>2. CASE UNCHANGED vars
  BY <1>2, SamePalettes DEF vars, codeVars, bottomVars
<1> QED
  BY <1>1, <1>2, BottomKnowsToo DEF NextOnce

(* The code of module load is known.                                       *)
LEMMA InitKnown == ASSUME Init PROVE KnownPalettes
<1>1. NUM_COLORS = 6 /\ 6 \in Palettes /\ BottomKnows
  BY DEF Init, Palettes, BottomKnows
<1>2. /\ target_code \in [Pegs -> Int] /\ 5 \in Int /\ 5 + 1 \in Palettes
      /\ \A p \in Pegs : target_code[p] \in 0..5
  BY DEF Init, Palettes
<1> QED
  BY <1>1, <1>2, DigitsKnown DEF KnownPalettes

(* While the packets stay where they are when they are used: whatever      *)
(* number of colours is set while a packet or a start is under way, also a *)
(* negative one from an uninitialised byte, every digit of the code is of  *)
(* a number that was in force.                                             *)
THEOREM KnownDigits == ASSUME ~Refetch PROVE Spec => []CodeOfKnownDigits
<1>1. Init => KnownPalettes
  BY InitKnown
<1>2. TypeOK /\ KnownPalettes /\ [Next]_vars => KnownPalettes'
  <2>1. Bottom => BottomOnce
    BY DEF Bottom, ReadAgain, BottomOnce
  <2> QED
    BY <2>1, KnownStep DEF Next, NextOnce
<1>3. KnownPalettes => CodeOfKnownDigits
  BY DEF KnownPalettes, InPalettes, CodeOfKnownDigits
<1> QED
  BY <1>1, <1>2, <1>3, TypeCorrect, PTL DEF Spec

-----------------------------------------------------------------------------
(***************************************************************************)
(* Who changes a game.                                                     *)
(***************************************************************************)
Returns(t) ==
  /\ call[t].at = "body" /\ curr_player[t] # NULL
  /\ call' = [call EXCEPT ![t] = [op |-> "none", at |-> "idle"]]

LEMMA WhoChanges ==
  ASSUME Next
  PROVE  \/ UNCHANGED games_list
         \/ \E t \in Threads : games_list' = Append(games_list, NewGame(UidOf[t]))
         \/ \E t \in Threads : \E game : SetGame(t, game) /\ Returns(t)
<1>1. ASSUME NEW t \in Threads, NEW guess, Write(t, guess)
      PROVE  \E game : SetGame(t, game) /\ Returns(t)
  <2>1. SetGame(t, Scored(Mine(t), guess)) /\ Returns(t)
    BY <1>1 DEF Write, CanGuess, InBody, Return, Returns
  <2> HIDE DEF Returns
  <2> QED
    BY <2>1
<1>2. ASSUME NEW t \in Threads, NEW request, Ctl(t, request)
      PROVE  \/ UNCHANGED games_list
             \/ \E game : SetGame(t, game) /\ Returns(t)
  <2>1. CASE Leave(t)
    BY <2>1 DEF Leave
  <2>2. CASE curr_player[t] # NULL /\ CtlStart(t)
    <3>1. SetGame(t, Started(Mine(t))) /\ Returns(t)
      BY <1>2, <2>2 DEF Ctl, InBody, CtlStart, Return, Returns
    <3> QED
      BY <3>1
  <2>3. CASE curr_player[t] # NULL /\ CtlQuit(t)
    <3>1. CASE Mine(t).game_active
      <4>1. SetGame(t, Stopped(Mine(t))) /\ Returns(t)
        BY <1>2, <2>3, <3>1 DEF Ctl, InBody, CtlQuit, Return, Returns
      <4> QED
        BY <4>1
    <3>2. CASE ~Mine(t).game_active
      BY <2>3, <3>2 DEF CtlQuit
    <3> QED
      BY <3>1, <3>2
  <2>4. CASE \E values : CtlColors(t, values)
    BY <2>4 DEF CtlColors
  <2> QED
    BY <1>2, <2>1, <2>2, <2>3, <2>4 DEF Ctl
<1>3. ASSUME NEW t \in Threads, Find(t)
      PROVE  \/ UNCHANGED games_list
             \/ games_list' = Append(games_list, NewGame(UidOf[t]))
  BY <1>3 DEF Find, FindOld, FindNew, FindFails
<1>4. ASSUME NEW t \in Threads,
             \/ \E op \in Ops : Enter(t, op)
             \/ Look(t) \/ WriteRefused(t) \/ CtlFault(t)
             \/ \E guess \in Guesses : WriteInvalid(t, guess)
      PROVE  UNCHANGED games_list
  BY <1>4 DEF Enter, Look, WriteRefused, CtlFault, WriteInvalid, Leave
<1>5. CASE Bottom
  BY <1>5 DEF Bottom, BottomEnter, BottomReject, BottomInstall, BottomLeave
<1>6. CASE \E t \in Threads : SysCall(t)
  BY <1>1, <1>2, <1>3, <1>4, <1>6 DEF SysCall, Body
<1> QED
  BY <1>5, <1>6 DEF Next

(* A game changes only when a call of its own player's process returns, and *)
(* none disappears.                                                         *)
THEOREM OwnChanges == Spec => OnlyOwnGameChanges
<1> DEFINE Kept ==
      /\ Len(games_list') >= Len(games_list)
      /\ \A i \in 1..Len(games_list) :
           games_list'[i] # games_list[i] =>
             \E t \in Threads :
               /\ UidOf[t] = games_list[i].player_id
               /\ call[t].at = "body" /\ call'[t].at = "idle"
<1>1. ASSUME IInv, Next PROVE Kept
  <2>1. games_list \in Seq(Game) /\ call \in [Threads -> Calls] /\ OwnGame
    BY <1>1 DEF IInv, TypeOK
  <2>2. CASE UNCHANGED games_list
    BY <2>1, <2>2
  <2>3. ASSUME NEW t \in Threads,
               games_list' = Append(games_list, NewGame(UidOf[t]))
        PROVE  Kept
    <3>1. NewGame(UidOf[t]) \in Game
      BY UidAssumption, NewGameGood
    <3> QED
      BY <2>1, <2>3, <3>1
  <2>4. ASSUME NEW t \in Threads, NEW game, SetGame(t, game), Returns(t)
        PROVE  Kept
    <3>1. /\ curr_player[t] \in 1..Len(games_list)
          /\ games_list[curr_player[t]].player_id = UidOf[t]
          /\ call[t].at = "body"
      BY <2>1, <2>4 DEF OwnGame, Mine, Returns
    <3>2. call'[t].at = "idle"
      BY <2>1, <2>4 DEF Returns
    <3>3. /\ Len(games_list') = Len(games_list)
          /\ \A i \in 1..Len(games_list) :
               i # curr_player[t] => games_list'[i] = games_list[i]
      BY <2>1, <2>4, <3>1 DEF SetGame
    <3> QED
      BY <2>1, <3>1, <3>2, <3>3
  <2> QED
    BY <1>1, <2>2, <2>3, <2>4, WhoChanges
<1>2. IInv /\ [Next]_vars => [Kept]_vars
  BY <1>1
<1> QED
  BY <1>2, Invariance, PTL DEF Spec, OnlyOwnGameChanges
=============================================================================
