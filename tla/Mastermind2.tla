----------------------------- MODULE Mastermind2 -----------------------------
(***************************************************************************)
(* The game driver of proj2/mastermind2.c: read, write and mmap of /dev/mm,*)
(* write of /dev/mm_ctl, and the interrupt thread that changes the code    *)
(* from the network.                                                       *)
(*                                                                         *)
(* Every system call runs find_game under the spin lock, releases the lock,*)
(* takes it again and does its work with the pointer it was given: two     *)
(* steps here, find and body, that calls of other processes and the        *)
(* interrupt thread interleave with.  mm_write and cs421net_bottom read    *)
(* NUM_COLORS before they take the lock, a step of its own.                *)
(*                                                                         *)
(* A game is an element of games_list, a pointer to it is its index and 0  *)
(* is NULL.  A digit is a byte counted from '0', so bytes below '0' are    *)
(* negative.  Of a line of user_view the model keeps the black and white   *)
(* pegs it shows; the line with NUM_PEGS black pegs is "Correct Guess!".   *)
(***************************************************************************)
EXTENDS Integers, Sequences, FiniteSets, Pegs, MmCtl

CONSTANTS
  Threads,       (* processes that make system calls                         *)
  Uids,          (* users                                                    *)
  UidOf,         (* current_uid() of each process                            *)
  Admins,        (* users with CAP_SYS_ADMIN                                 *)
  RandomCode,    (* the module parameter random_code                         *)
  Guesses,       (* inputs: the first NUM_PEGS bytes written to /dev/mm      *)
  Lasts,         (* inputs: last bytes of a write of "colors "               *)
  Garbage,       (* NUM_COLORS from the uninitialised user_input[7]          *)
  Ints,          (* the values of an int                                     *)
  Packets,       (* inputs: data of length NUM_PEGS from the network         *)
  Refetch,       (* the device may free a packet while it is used: its bytes *)
                 (* may be others when they are read again                   *)
  MaxStarts,     (* Bound: games started                                     *)
  MaxGuesses,    (* Bound: guesses in one game                               *)
  MaxPackets     (* Bound: interrupts handled                                *)

ASSUME UidAssumption == UidOf \in [Threads -> Uids] /\ Admins \subseteq Uids
ASSUME InputAssumption ==
  /\ Guesses \subseteq [Pegs -> Int]
  /\ Packets \subseteq [Pegs -> Int]
  /\ Lasts \subseteq Int
ASSUME ModeAssumption ==
  /\ RandomCode \in BOOLEAN /\ Refetch \in BOOLEAN
  /\ Garbage \subseteq Int /\ Ints \subseteq Int
(* A random code with NUM_COLORS = 0 divides by zero; the game ends there. *)
ASSUME DivisorAssumption == RandomCode => 0 \notin Garbage
ASSUME BoundAssumption ==
  MaxStarts \in Nat /\ MaxGuesses \in Nat /\ MaxPackets \in Nat

VARIABLES
  NUM_COLORS, target_code, num_game_started, times_target_code_changed,
  num_invalid_change_attempts,
  games_list,    (* struct mm_game, in the order they were added             *)
  call,          (* the system call each process is in, and how far          *)
  highest,       (* highest_digit, as mm_write read it                       *)
  curr_player,   (* the pointer each process got from find_game              *)
  bottom,        (* the interrupt thread is inside cs421net_bottom           *)
  bottomHighest  (* highest_digit, as cs421net_bottom read it                *)

codeVars    == <<NUM_COLORS, target_code>>
statVars    == <<num_game_started, times_target_code_changed,
                 num_invalid_change_attempts>>
processVars == <<call, highest, curr_player>>
bottomVars  == <<bottom, bottomHighest>>
vars == <<codeVars, statVars, games_list, processVars, bottomVars>>

NULL  == 0
Ops   == {"look", "write", "ctl"}
Calls == {[op |-> "none", at |-> "idle"]} \cup [op : Ops, at : {"find", "body"}]

Line   == [black : 0..NUM_PEGS, white : Nat]
Status == [kind : {"No game yet", "Starting game", "Correct", "Game over"}]
            \cup [kind : {"Guess"}, n : Nat, line : Line]
Game   == [player_id : Uids, game_active : BOOLEAN, num_guesses : Nat,
           game_status : Status, user_view : Seq(Line)]

Says(kind) == [kind |-> kind]

TypeOK ==
  /\ NUM_COLORS \in Int
  /\ target_code \in [Pegs -> Int]
  /\ num_game_started \in Nat
  /\ times_target_code_changed \in Nat
  /\ num_invalid_change_attempts \in Nat
  /\ games_list \in Seq(Game)
  /\ call \in [Threads -> Calls]
  /\ highest \in [Threads -> Int]
  /\ curr_player \in [Threads -> Nat]
  /\ bottom \in BOOLEAN
  /\ bottomHighest \in Int

-----------------------------------------------------------------------------
(* A process enters a handler; mm_write computes highest_digit here. *)
Enter(t, op) ==
  /\ call[t].op = "none"
  /\ call' = [call EXCEPT ![t] = [op |-> op, at |-> "find"]]
  /\ highest' = [highest EXCEPT ![t] = IF op = "write" THEN NUM_COLORS - 1 ELSE 0]
  /\ UNCHANGED <<codeVars, statVars, games_list, curr_player, bottomVars>>

NewGame(u) ==
  [player_id |-> u, game_active |-> FALSE, num_guesses |-> 0,
   game_status |-> Says("No game yet"), user_view |-> <<>>]

GamesOf(u) == {i \in 1..Len(games_list) : games_list[i].player_id = u}

Found(t, i) ==
  /\ curr_player' = [curr_player EXCEPT ![t] = i]
  /\ call' = [call EXCEPT ![t].at = "body"]
  /\ UNCHANGED <<codeVars, statVars, highest, bottomVars>>

(* Fault: the players are not compared. *)
FindAny(t) ==
  /\ call[t].at = "find"
  /\ \E i \in 1..Len(games_list) : Found(t, i)
  /\ UNCHANGED games_list

FindOld(t) ==
  /\ call[t].at = "find"
  /\ \E i \in GamesOf(UidOf[t]) :
       /\ \A j \in GamesOf(UidOf[t]) : i <= j
       /\ Found(t, i)
  /\ UNCHANGED games_list

(* Fault: a game is added without a search for an old one. *)
AddUnseen(t) ==
  /\ call[t].at = "find"
  /\ games_list' = Append(games_list, NewGame(UidOf[t]))
  /\ Found(t, Len(games_list'))

FindNew(t) ==
  /\ call[t].at = "find"
  /\ GamesOf(UidOf[t]) = {}
  /\ games_list' = Append(games_list, NewGame(UidOf[t]))
  /\ Found(t, Len(games_list'))

(* Fault: an error pointer is returned for NULL. *)
FindErrPtr(t) ==
  /\ call[t].at = "find"
  /\ GamesOf(UidOf[t]) = {}
  /\ Found(t, -1)
  /\ UNCHANGED games_list

(* kzalloc or vmalloc finds no memory. *)
FindFails(t) ==
  /\ call[t].at = "find"
  /\ GamesOf(UidOf[t]) = {}
  /\ Found(t, NULL)
  /\ UNCHANGED games_list

-----------------------------------------------------------------------------
(***************************************************************************)
(* The bodies of the handlers, between the second lock and its unlock.     *)
(***************************************************************************)
InBody(t, op) == call[t] = [op |-> op, at |-> "body"]

Return(t) ==
  /\ call' = [call EXCEPT ![t] = [op |-> "none", at |-> "idle"]]
  /\ highest' = [highest EXCEPT ![t] = 0]
  /\ curr_player' = [curr_player EXCEPT ![t] = NULL]
  /\ UNCHANGED bottomVars

(* A call that returns without touching the game. *)
Leave(t) ==
  /\ Return(t)
  /\ UNCHANGED <<codeVars, statVars, games_list>>

(* mm_read and mm_mmap: what the reader gets is a function of the game. *)
Look(t) == InBody(t, "look") /\ Leave(t)

Mine(t) == games_list[curr_player[t]]

SetGame(t, game) == games_list' = [games_list EXCEPT ![curr_player[t]] = game]

CanGuess(t) == curr_player[t] # NULL /\ Mine(t).game_active

WithinPalette(digits, top) == \A p \in Pegs : digits[p] \in 0..top

(* No game, no active game, or fewer than NUM_PEGS bytes. *)
WriteRefused(t) ==
  /\ InBody(t, "write")
  /\ Leave(t)

(* copy_from_user may leave zero bytes, which are no digits. *)
WriteInvalid(t, guess) ==
  /\ InBody(t, "write") /\ CanGuess(t)
  /\ ~WithinPalette(guess, highest[t])
  /\ Leave(t)

Scored(game, guess) ==
  LET line == [black |-> NumBlack(target_code, guess),
               white |-> NumWhite(target_code, guess)]
      won  == line.black = NUM_PEGS
      n    == game.num_guesses + 1
  IN  [player_id   |-> game.player_id,
       game_active |-> ~won,
       num_guesses |-> n,
       game_status |-> IF won THEN Says("Correct")
                       ELSE [kind |-> "Guess", n |-> n, line |-> line],
       user_view   |-> Append(game.user_view, line)]

Write(t, guess) ==
  /\ InBody(t, "write") /\ CanGuess(t)
  /\ WithinPalette(guess, highest[t])
  /\ Mine(t).num_guesses < MaxGuesses
  /\ SetGame(t, Scored(Mine(t), guess))
  /\ Return(t)
  /\ UNCHANGED <<codeVars, statVars>>

FixedCode == <<0, 0, 1, 2>>

(* The digit is unsigned, so a negative NUM_COLORS counts from 2^32.  Only *)
(* the -NUM_COLORS greatest of the unsigned values are no remainders, and  *)
(* the digit is stored in an int.                                          *)
Remainders(colors) ==
  IF colors < 0 THEN {d \in Ints : d >= 0 \/ d < colors} ELSE 0..(colors - 1)

NewCodes ==
  IF RandomCode THEN [Pegs -> Remainders(NUM_COLORS)] ELSE {FixedCode}

(* The first line of the log is cleared, which makes it the empty string.  *)
(* Fault: it is not. *)
StartedWithOldLog(game) ==
  [player_id   |-> game.player_id,
   game_active |-> TRUE,
   num_guesses |-> 0,
   game_status |-> Says("Starting game"),
   user_view   |-> game.user_view]

Started(game) ==
  [player_id   |-> game.player_id,
   game_active |-> TRUE,
   num_guesses |-> 0,
   game_status |-> Says("Starting game"),
   user_view   |-> <<>>]

Stopped(game) ==
  [game EXCEPT !.game_active = FALSE, !.game_status = Says("Game over")]

CtlStart(t) ==
  /\ num_game_started < MaxStarts
  /\ SetGame(t, Started(Mine(t)))
  /\ num_game_started' = num_game_started + 1
  /\ target_code' \in NewCodes
  /\ UNCHANGED <<NUM_COLORS, times_target_code_changed,
                 num_invalid_change_attempts>>
  /\ Return(t)

(* Fault: all games are stopped. *)
CtlQuitAll(t) ==
  /\ IF Mine(t).game_active
     THEN games_list' = [i \in 1..Len(games_list) |-> Stopped(games_list[i])]
     ELSE UNCHANGED games_list
  /\ UNCHANGED <<codeVars, statVars>>
  /\ Return(t)

CtlQuit(t) ==
  /\ IF Mine(t).game_active
     THEN SetGame(t, Stopped(Mine(t)))
     ELSE UNCHANGED games_list
  /\ UNCHANGED <<codeVars, statVars>>
  /\ Return(t)

CtlColors(t, values) ==
  /\ NUM_COLORS' \in values
  /\ UNCHANGED <<target_code, statVars, games_list>>
  /\ Return(t)

Ctl(t, request) ==
  /\ InBody(t, "ctl")
  /\ IF curr_player[t] = NULL THEN Leave(t) ELSE
     \/ request.command = "start"   /\ CtlStart(t)
     \/ request.command = "quit"    /\ CtlQuit(t)
     \/ request.command = "colors"  /\ CtlColors(t, {request.last})
     \/ request.command = "garbage" /\ CtlColors(t, Garbage)
     \/ request.command \in {"EINVAL", "EACCES"} /\ Leave(t)

(* copy_from_user fails. *)
CtlFault(t) == InBody(t, "ctl") /\ Leave(t)

-----------------------------------------------------------------------------
(***************************************************************************)
(* cs421net_bottom: highest_digit first, then the lock and the packet.     *)
(***************************************************************************)
PacketsHandled == times_target_code_changed + num_invalid_change_attempts

BottomEnter ==
  /\ ~bottom
  /\ PacketsHandled < MaxPackets
  /\ bottom' = TRUE
  /\ bottomHighest' = NUM_COLORS - 1
  /\ UNCHANGED <<codeVars, statVars, games_list, processVars>>

BottomLeave ==
  /\ bottom' = FALSE /\ bottomHighest' = 0
  /\ UNCHANGED <<NUM_COLORS, num_game_started, games_list, processVars>>

(* Fault: the digits of the packet are not checked. *)
BottomInstallAny(checked, data) ==
  /\ bottom
  /\ target_code' = data
  /\ times_target_code_changed' = times_target_code_changed + 1
  /\ UNCHANGED num_invalid_change_attempts
  /\ BottomLeave

(* Fault: the last digit is not copied. *)
BottomInstallShort(checked, data) ==
  /\ bottom
  /\ WithinPalette(checked, bottomHighest)
  /\ target_code' = [data EXCEPT ![NUM_PEGS] = target_code[NUM_PEGS]]
  /\ times_target_code_changed' = times_target_code_changed + 1
  /\ UNCHANGED num_invalid_change_attempts
  /\ BottomLeave

(* One loop checks the bytes, and four assignments read them again. *)
BottomInstall(checked, data) ==
  /\ bottom
  /\ WithinPalette(checked, bottomHighest)
  /\ target_code' = data
  /\ times_target_code_changed' = times_target_code_changed + 1
  /\ UNCHANGED num_invalid_change_attempts
  /\ BottomLeave

(* A packet of another length, no packet, or a byte that is no digit. *)
BottomReject ==
  /\ bottom
  /\ num_invalid_change_attempts' = num_invalid_change_attempts + 1
  /\ UNCHANGED <<target_code, times_target_code_changed>>
  /\ BottomLeave

-----------------------------------------------------------------------------
Init ==
  /\ NUM_COLORS = 6
  /\ target_code = [p \in Pegs |-> 0]
  /\ num_game_started = 0
  /\ times_target_code_changed = 0
  /\ num_invalid_change_attempts = 0
  /\ games_list = <<>>
  /\ call = [t \in Threads |-> [op |-> "none", at |-> "idle"]]
  /\ highest = [t \in Threads |-> 0]
  /\ curr_player = [t \in Threads |-> NULL]
  /\ bottom = FALSE
  /\ bottomHighest = 0

Find(t) == FindOld(t) \/ FindNew(t) \/ FindFails(t)
Body(t) ==
  \/ Look(t) \/ WriteRefused(t) \/ CtlFault(t)
  \/ \E guess \in Guesses : Write(t, guess) \/ WriteInvalid(t, guess)
  \/ \E request \in Requests(Lasts, UidOf[t] \in Admins) : Ctl(t, request)
SysCall(t) == (\E op \in Ops : Enter(t, op)) \/ Find(t) \/ Body(t)
ReadAgain(checked) == IF Refetch THEN Packets ELSE {checked}
Bottom ==
  \/ BottomEnter \/ BottomReject
  \/ \E checked \in Packets : \E data \in ReadAgain(checked) : BottomInstall(checked, data)

Next == (\E t \in Threads : SysCall(t)) \/ Bottom

Spec == Init /\ [][Next]_vars

-----------------------------------------------------------------------------
(***************************************************************************)
(* Properties.                                                             *)
(***************************************************************************)

(* find_game searches and inserts under one hold of the lock, so two       *)
(* processes of a user never add two games.                                *)
OneGamePerPlayer ==
  \A i, j \in 1..Len(games_list) :
    games_list[i].player_id = games_list[j].player_id => i = j

(* The lock is released between find_game and the body of a handler; the   *)
(* pointer still leads to the caller's own game when it is used.           *)
OwnGame ==
  \A t \in Threads :
    /\ call[t].at = "body" /\ curr_player[t] # NULL
         => /\ curr_player[t] \in 1..Len(games_list)
            /\ Mine(t).player_id = UidOf[t]
    /\ call[t].at # "body" => curr_player[t] = NULL

(* What a reader of /dev/mm is told (the status) agrees with the log that  *)
(* it maps and with the count of guesses, whatever the order of starts,    *)
(* guesses and quits of several processes of the user: a game that was won *)
(* ends at its winning guess, and an active one has none.                  *)
LastLine(game) == game.user_view[Len(game.user_view)]

Consistent(g) ==
  /\ g.num_guesses = Len(g.user_view)
  /\ g.game_active <=> g.game_status.kind \in {"Starting game", "Guess"}
  /\ g.game_status.kind \in {"No game yet", "Starting game"}
       => g.num_guesses = 0
  /\ g.game_status.kind = "Guess"
       => /\ g.num_guesses > 0
          /\ g.game_status.n = g.num_guesses
          /\ g.game_status.line = LastLine(g)
  /\ g.game_status.kind = "Correct"
       => g.num_guesses > 0 /\ LastLine(g).black = NUM_PEGS
  /\ \A k \in 1..Len(g.user_view) :
       g.user_view[k].black = NUM_PEGS
         => k = Len(g.user_view) /\ g.game_status.kind = "Correct"

GameConsistent ==
  \A i \in 1..Len(games_list) : Consistent(games_list[i])

(* A step changes at most the game of the user whose process takes it, the *)
(* interrupt thread changes none, and no game disappears.                  *)
OnlyOwnGameChanges ==
  [][/\ Len(games_list') >= Len(games_list)
     /\ \A i \in 1..Len(games_list) :
          games_list'[i] # games_list[i] =>
            \E t \in Threads :
              /\ UidOf[t] = games_list[i].player_id
              /\ call[t].at = "body" /\ call'[t].at = "idle"]_vars

(* While the packets stay where they are when they are used, the code is   *)
(* made of digits of a number of colours that was really set, although the *)
(* digits of a packet are checked against a highest_digit that was read    *)
(* before the lock was taken, and although the number may come from an     *)
(* uninitialised byte.  With a byte below '0' it is negative: no packet    *)
(* passes then, and only a random start leaves the palettes, for the       *)
(* remainders of the converted number.                                     *)
Palettes == {6} \cup {c \in Lasts : c >= 2} \cup Garbage
DigitsOf(colors) ==
  0..(colors - 1) \cup IF RandomCode THEN Remainders(colors) ELSE {}
CodeOfKnownDigits ==
  \A p \in Pegs : \E c \in Palettes : target_code[p] \in DigitsOf(c)
=============================================================================
