----------------------------- MODULE Mastermind1 -----------------------------
(***************************************************************************)
(* The kernel module proj1/mastermind.c: one game for everybody and no     *)
(* lock.  A handler is a chain of steps, one for each access to what the   *)
(* handlers share; a loop over the pegs is a step for each access.  num_   *)
(* guesses++ reads first and writes later.  The status and the log are     *)
(* buffers of cells, one for each part of a text that a property tells     *)
(* from the others: scnprintf, memset and strcat go over them cell by      *)
(* cell, and two writers may mix theirs.  mm_read and mm_mmap change       *)
(* nothing and are left out.                                               *)
(***************************************************************************)
EXTENDS Integers, Sequences, FiniteSets, Pegs

CONSTANTS
  Threads,        (* processes that make system calls                        *)
  Insmod,         (* the process that loads the module                       *)
  RandomCode,     (* the module parameter random_code                        *)
  Digits,         (* inputs: digits that the random generator yields         *)
  Guesses,        (* inputs: bytes written to /dev/mm, counted from '0'      *)
  MaxGuesses,     (* Bound: guesses in one game, and lines of the log        *)
  MaxCalls,       (* Bound: system calls on the two device files             *)
  MaxEarly        (* Bound: those of them before mastermind_init is done     *)

ASSUME ModeAssumption == RandomCode \in BOOLEAN /\ Digits \subseteq 0..5
ASSUME InputAssumption ==
  /\ Insmod \notin Threads /\ Guesses \subseteq [Pegs -> Int]
  /\ MaxGuesses \in Nat /\ MaxCalls \in Nat /\ MaxEarly \in Nat

VARIABLES
  game_active, target_code, num_guesses,
  game_status, user_view,   (* the cells of the status and of the log        *)
  allocated,      (* user_view points to memory                              *)
  devices,        (* registered device files                                 *)
  opened,         (* the device files each process has open                  *)
  module,         (* how far mastermind_init or mastermind_exit is           *)
  call,           (* what each process is doing, and how far it is           *)
  calls,          (* history: how many system calls there were               *)
  overlapped,     (* history: two calls, or a call and init or exit, ran at  *)
                  (* the same time                                           *)
  mixed           (* history: the status was written by one process in the   *)
                  (* middle of what another one writes there                 *)

gameVars   == <<game_active, target_code, num_guesses, game_status, user_view>>
moduleVars == <<allocated, devices, module>>
vars == <<gameVars, moduleVars, opened, call, calls, overlapped, mixed>>

(***************************************************************************)
(* Texts.  A guess takes two cells, in the status as in the log: one up to *)
(* its black pegs and one from there, with the white pegs.  "No game yet"  *)
(* and "Starting game" are shorter than the first cell of the status.      *)
(***************************************************************************)
Cell(kind, n, pegs) == [kind |-> kind, n |-> n, pegs |-> pegs]
NUL  == Cell("NUL", 0, 0)
Junk == Cell("junk", 0, 0)

Processes == Threads \cup {Insmod}
StatusSize == 2
LogSize == 2 * MaxGuesses + 1
Cleared == IF LogSize < 7 THEN LogSize ELSE 7   (* 80 bytes of the log *)

Guess(c) == <<Cell("black", c.n, c.black), Cell("white", 0, c.white)>>
Message(kind, cells) == [i \in 1..cells |-> Cell(kind, 0, 0)]
Blank == Message("NUL", StatusSize)

Idle == [at |-> "idle", guess |-> <<>>, n |-> 0, i |-> 1, j |-> 0, end |-> 0,
         black |-> 0, white |-> 0, marked |-> {}]

WriteSteps == {"check", "count", "counted", "black", "white", "args", "status",
               "logargs", "end", "append"}
CtlSteps   == {"command", "zero", "blank", "clear", "say", "code", "over", "stop"}

Cells == [kind : {"NUL", "junk", "NoGameYet", "StartingGame", "GameOver", "black",
                  "white"},
          n : Nat, pegs : Nat]

TypeOK ==
  /\ game_active \in BOOLEAN /\ num_guesses \in Nat
  /\ target_code \in [Pegs -> 0..5]
  /\ game_status \in [1..StatusSize -> Cells]
  /\ user_view \in [1..LogSize -> Cells]
  /\ allocated \in BOOLEAN /\ overlapped \in BOOLEAN /\ mixed \in BOOLEAN
  /\ devices \subseteq {"mm", "mm_ctl"}
  /\ opened \in [Threads -> SUBSET {"mm", "mm_ctl"}]
  /\ module \in {"alloc", "mm", "ctl", "finish", "noCtl", "noMm", "failed",
                 "setting", "loaded", "freed", "exitCtl", "unloaded"}
  /\ \A p \in Processes :
       /\ call[p].at \in {"idle"} \cup WriteSteps \cup CtlSteps
       /\ call[p].n \in Nat /\ call[p].j \in 0..NUM_PEGS
       /\ call[p].i \in 1..(IF call[p].at \in {"clear", "end"} THEN LogSize ELSE NUM_PEGS)
       /\ call[p].at = "append" => call[p].end + 3 <= LogSize
       /\ call[p].marked \subseteq Pegs

-----------------------------------------------------------------------------
(***************************************************************************)
(* mastermind_init and mastermind_exit.                                    *)
(***************************************************************************)
ModuleGo(from, to) ==
  /\ module = from
  /\ module' = to
  /\ UNCHANGED <<game_active, target_code, num_guesses, game_status, opened,
                 calls, mixed>>

(* Fault: the result of vmalloc is not looked at. *)
InitAllocUnchecked ==
  /\ ModuleGo("alloc", "mm")
  /\ allocated' \in BOOLEAN
  /\ UNCHANGED <<user_view, devices, overlapped, call>>

(* vmalloc leaves what was in the memory. *)
InitAlloc ==
  /\ \/ /\ ModuleGo("alloc", "mm")
        /\ allocated' = TRUE
        /\ \E c \in {NUL, Junk} : user_view' = [k \in 1..LogSize |-> c]
     \/ ModuleGo("alloc", "failed") /\ UNCHANGED <<user_view, allocated>>
  /\ UNCHANGED <<devices, overlapped, call>>

Register(from, dev, to, label) ==
  /\ \/ ModuleGo(from, to) /\ devices' = devices \cup {dev}
     \/ ModuleGo(from, label) /\ UNCHANGED devices
  /\ UNCHANGED <<user_view, allocated, overlapped, call>>

InitMm  == Register("mm", "mm", "ctl", "noMm")
InitCtl == Register("ctl", "mm_ctl", "finish", "noCtl")

(* The status and the log are set when both device files can be used       *)
(* already: the three calls are those of a start, see Ctl.                 *)
InitSet ==
  /\ ModuleGo("finish", "setting")
  /\ call[Insmod].at = "idle"
  /\ call' = [call EXCEPT ![Insmod] = [Idle EXCEPT !.at = "blank"]]
  /\ UNCHANGED <<user_view, allocated, devices, overlapped>>

InitDone ==
  /\ ModuleGo("setting", "loaded")
  /\ call[Insmod].at = "idle"
  /\ UNCHANGED <<user_view, allocated, devices, overlapped, call>>

(* misc_deregister of a device whose registration failed only warns. *)
Deregister(from, dev, to) ==
  /\ ModuleGo(from, to)
  /\ devices' = devices \ {dev}
  /\ UNCHANGED <<user_view, overlapped, call>>

FailCtl == Deregister("noCtl", "mm_ctl", "noMm") /\ UNCHANGED allocated

(* Fault: the label is missing. *)
FailMmNothing ==
  /\ ModuleGo("noMm", "failed")
  /\ UNCHANGED <<user_view, allocated, devices, overlapped, call>>

FailMm == Deregister("noMm", "mm", "failed") /\ allocated' = FALSE

ExitFree ==
  /\ ModuleGo("loaded", "freed")
  /\ allocated' = FALSE
  /\ overlapped' = (overlapped \/ \E t \in Threads : call[t].at # "idle")
  /\ UNCHANGED <<user_view, devices, call>>

ExitMm  == Deregister("freed", "mm", "exitCtl") /\ UNCHANGED allocated
ExitCtl == Deregister("exitCtl", "mm_ctl", "unloaded") /\ UNCHANGED allocated

-----------------------------------------------------------------------------
(***************************************************************************)
(* System calls.  A file that is open stays so when its device goes, as    *)
(* the file_operations have no owner; a call into a module whose code is   *)
(* gone is left out.                                                       *)
(***************************************************************************)
Open(t, dev) ==
  /\ call[t].at = "idle" /\ dev \in devices
  /\ opened' = [opened EXCEPT ![t] = @ \cup {dev}]
  /\ UNCHANGED <<gameVars, moduleVars, call, calls, overlapped, mixed>>

Enter(t, dev, record) ==
  /\ call[t].at = "idle" /\ dev \in opened[t]
  /\ module \notin {"failed", "unloaded"}
  /\ calls < (IF module = "loaded" THEN MaxCalls ELSE MaxEarly)
  /\ calls' = calls + 1
  /\ call' = [call EXCEPT ![t] = record]
  /\ overlapped' = (overlapped \/ module # "loaded"
                      \/ \E u \in Threads \ {t} : call[u].at # "idle")
  /\ UNCHANGED <<gameVars, moduleVars, opened, mixed>>

EnterWrite(t, guess) == Enter(t, "mm", [Idle EXCEPT !.at = "check", !.guess = guess])
EnterCtl(t) == Enter(t, "mm_ctl", [Idle EXCEPT !.at = "command"])

At(c, to) == IF to = "idle" THEN Idle ELSE [c EXCEPT !.at = to, !.i = 1]

(* A loop up to last, and where the call is after it. *)
Advance(c, last, to) ==
  IF c.i < last THEN [c EXCEPT !.i = @ + 1] ELSE At(c, to)

Moves(p, from, record) ==
  /\ call[p].at = from
  /\ call' = [call EXCEPT ![p] = record]
  /\ UNCHANGED <<moduleVars, opened, calls, overlapped>>

Step(p, from, record) == Moves(p, from, record) /\ UNCHANGED mixed
Goto(p, from, to) == Step(p, from, At(call[p], to))

(* One cell of the status. *)
SetCell(p, from, text, to) ==
  LET i == call[p].i IN
  /\ Moves(p, from, Advance(call[p], Len(text), to))
  /\ game_status' = [game_status EXCEPT ![i] = text[i]]
  /\ mixed' = (mixed \/ \E q \in Processes \ {p} :
                           call[q].at \in {"status", "blank", "say", "over"})
  /\ UNCHANGED <<game_active, target_code, num_guesses, user_view>>

-----------------------------------------------------------------------------
(***************************************************************************)
(* mm_write.                                                               *)
(***************************************************************************)
Valid(guess) == \A p \in Pegs : guess[p] \in 0..5

(* No game, too few bytes, or a byte that is no digit. *)
Refuse(t) == Goto(t, "check", "idle") /\ UNCHANGED gameVars

Check(t) ==
  /\ Goto(t, "check", "count")
  /\ game_active /\ Valid(call[t].guess)
  /\ UNCHANGED gameVars

(* num_guesses, into a register or as an argument of scnprintf *)
ReadCount(t, from, to) ==
  /\ Step(t, from, [At(call[t], to) EXCEPT !.n = num_guesses])
  /\ UNCHANGED gameVars

CountRead(t) == num_guesses < MaxGuesses /\ ReadCount(t, "count", "counted")

CountWrite(t) ==
  /\ Goto(t, "counted", "black")
  /\ num_guesses' = call[t].n + 1
  /\ UNCHANGED <<game_active, target_code, game_status, user_view>>

(* The inner loop passes over the places that are marked: what is left of  *)
(* both loops, and the next place that is read.                            *)
Left(c) == {p \in Pegs \X Pegs :
              /\ p[2] \notin c.marked
              /\ p[1] > c.i \/ (p[1] = c.i /\ p[2] > c.j)}
NextPlace(c) ==
  IF Left(c) = {} THEN [At(c, "args") EXCEPT !.j = 0]
  ELSE LET p == CHOOSE p \in Left(c) : \A q \in Left(c) :
                  p[1] < q[1] \/ (p[1] = q[1] /\ p[2] <= q[2])
       IN  [c EXCEPT !.at = "white", !.i = p[1], !.j = p[2]]

BlackPeg(t) ==
  LET c   == call[t]
      hit == target_code[c.i] = c.guess[c.i]
      b   == IF hit THEN [c EXCEPT !.black = @ + 1, !.marked = @ \cup {c.i}] ELSE c
  IN  /\ Step(t, "black", IF c.i < NUM_PEGS THEN [b EXCEPT !.i = @ + 1]
                                            ELSE NextPlace([b EXCEPT !.i = 1]))
      /\ UNCHANGED gameVars

(* Fault: the place that counted is not marked. *)
WhitePegUnmarked(t) ==
  LET c   == call[t]
      hit == target_code[c.j] = c.guess[c.i]
  IN  /\ Step(t, "white", NextPlace(IF hit THEN [c EXCEPT !.white = @ + 1] ELSE c))
      /\ UNCHANGED gameVars

WhitePeg(t) ==
  LET c   == call[t]
      hit == target_code[c.j] = c.guess[c.i]
      w   == IF hit THEN [c EXCEPT !.white = @ + 1, !.marked = @ \cup {c.j}] ELSE c
  IN  /\ Step(t, "white", NextPlace(w))
      /\ UNCHANGED gameVars

StatusArgs(t) == ReadCount(t, "args", "status")
SayGuess(t)   == SetCell(t, "status", Guess(call[t]), "logargs")
LogArgs(t)    == ReadCount(t, "logargs", "end")

(* strcat looks for the end of the log, then copies the line there.        *)
FindEnd(t) ==
  LET c == call[t] IN
  /\ c.i + 2 <= LogSize
  /\ Step(t, "end", IF user_view[c.i] = NUL
                    THEN [At(c, "append") EXCEPT !.end = c.i - 1]
                    ELSE [c EXCEPT !.i = @ + 1])
  /\ UNCHANGED gameVars

AppendLine(t) ==
  LET c    == call[t]
      line == Append(Guess(c), NUL)
  IN  /\ Step(t, "append", Advance(c, Len(line), "idle"))
      /\ user_view' = [user_view EXCEPT ![c.end + c.i] = line[c.i]]
      /\ UNCHANGED <<game_active, target_code, num_guesses, game_status>>

-----------------------------------------------------------------------------
(***************************************************************************)
(* mm_ctl_write.  Any prefix of "start" (or "quit"), even nothing for      *)
(* "start", is the command; anything else is refused.                      *)
(***************************************************************************)
CtlRefuse(t) == Goto(t, "command", "idle") /\ UNCHANGED gameVars

Activate(t) ==
  /\ Goto(t, "command", "zero")
  /\ game_active' = TRUE
  /\ UNCHANGED <<target_code, num_guesses, game_status, user_view>>

ZeroGuesses(t) ==
  /\ Goto(t, "zero", "blank")
  /\ num_guesses' = 0
  /\ UNCHANGED <<game_active, target_code, game_status, user_view>>

(* memset of the status, and of the first 80 bytes of the log *)
BlankStatus(p) == SetCell(p, "blank", Blank, "clear")

(* Fault: the log is kept. *)
KeepView(p) == Goto(p, "clear", "say") /\ UNCHANGED gameVars

ClearView(p) ==
  /\ Step(p, "clear", Advance(call[p], Cleared, "say"))
  /\ user_view' = [user_view EXCEPT ![call[p].i] = NUL]
  /\ UNCHANGED <<game_active, target_code, num_guesses, game_status>>

SayStart(t)  == SetCell(t, "say", Message("StartingGame", 1), "code")
SayNoGameYet == SetCell(Insmod, "say", Message("NoGameYet", 1), "idle")

FixedCode == <<0, 0, 1, 2>>

CodePeg(t) ==
  LET i == call[t].i IN
  /\ Step(t, "code", Advance(call[t], NUM_PEGS, "idle"))
  /\ \E d \in (IF RandomCode THEN Digits ELSE {FixedCode[i]}) :
       target_code' = [target_code EXCEPT ![i] = d]
  /\ UNCHANGED <<game_active, num_guesses, game_status, user_view>>

QuitNothing(t) ==
  /\ ~game_active
  /\ Goto(t, "command", "idle")
  /\ UNCHANGED gameVars

Quit(t) ==
  /\ game_active
  /\ Goto(t, "command", "over")
  /\ UNCHANGED gameVars

SayOver(t) == SetCell(t, "over", Message("GameOver", StatusSize), "stop")

Deactivate(t) ==
  /\ Goto(t, "stop", "idle")
  /\ game_active' = FALSE
  /\ UNCHANGED <<target_code, num_guesses, game_status, user_view>>

-----------------------------------------------------------------------------
Init ==
  /\ game_active = FALSE /\ target_code = [p \in Pegs |-> 0]
  /\ num_guesses = 0 /\ game_status = Blank
  /\ user_view = [k \in 1..LogSize |-> NUL]
  /\ allocated = FALSE /\ devices = {} /\ module = "alloc"
  /\ opened = [t \in Threads |-> {}] /\ call = [p \in Processes |-> Idle]
  /\ calls = 0 /\ overlapped = FALSE /\ mixed = FALSE

Load ==
  \/ InitAlloc \/ InitMm \/ InitCtl \/ InitSet \/ InitDone \/ FailCtl \/ FailMm
  \/ BlankStatus(Insmod) \/ ClearView(Insmod) \/ SayNoGameYet
Unload == ExitFree \/ ExitMm \/ ExitCtl
Write(t) ==
  \/ \E guess \in Guesses : EnterWrite(t, guess)
  \/ Refuse(t) \/ Check(t) \/ CountRead(t) \/ CountWrite(t) \/ BlackPeg(t)
  \/ WhitePeg(t) \/ StatusArgs(t) \/ SayGuess(t) \/ LogArgs(t) \/ FindEnd(t)
  \/ AppendLine(t)
Ctl(t) ==
  \/ EnterCtl(t) \/ CtlRefuse(t)
  \/ Activate(t) \/ ZeroGuesses(t) \/ BlankStatus(t) \/ ClearView(t)
  \/ SayStart(t) \/ CodePeg(t)
  \/ QuitNothing(t) \/ Quit(t) \/ SayOver(t) \/ Deactivate(t)

Next ==
  \/ Load \/ Unload
  \/ \E t \in Threads :
       Write(t) \/ Ctl(t) \/ \E dev \in {"mm", "mm_ctl"} : Open(t, dev)

Spec == Init /\ [][Next]_vars

-----------------------------------------------------------------------------
(* Whatever code a guess is scored against while others change it, peg by  *)
(* peg, no place of the code counts twice: not in the score of any call,   *)
(* nor in the one mm_read shows, but for a status that two processes wrote *)
(* at once or that one is still writing.                                   *)
Shown == game_status[1].pegs + game_status[2].pegs
ScoreWithinPegs ==
  /\ \A t \in Threads : call[t].black + call[t].white <= NUM_PEGS
  /\ ~mixed /\ (\A t \in Threads : call[t].at # "status") => Shown <= NUM_PEGS

(* As long as calls did not overlap, what mm_read shows agrees with what   *)
(* mm_mmap shows, with the count and with whether a game is going on.      *)
Quiet == module = "loaded" /\ \A t \in Threads : call[t].at = "idle"

(* The log has n lines, numbered from 1, and ends there. *)
Lines(n) ==
  /\ n <= MaxGuesses
  /\ \A k \in 1..n : /\ user_view[2 * k - 1].kind = "black" /\ user_view[2 * k - 1].n = k
                     /\ user_view[2 * k].kind = "white"
  /\ user_view[2 * n + 1] = NUL

Agreement ==
  /\ Lines(num_guesses)
  /\ CASE game_status[1].kind = "NoGameYet"    -> ~game_active /\ num_guesses = 0
       [] game_status[1].kind = "StartingGame" -> game_active /\ num_guesses = 0
       [] game_status[1].kind = "GameOver"     -> ~game_active
       [] game_status[1].kind = "black" ->
            /\ game_active /\ num_guesses > 0
            /\ game_status[1] = user_view[2 * num_guesses - 1]
            /\ game_status[2] = user_view[2 * num_guesses]
       [] OTHER -> FALSE
AgreementWithoutOverlap == Quiet /\ ~overlapped => Agreement

(* When mastermind_init fails, at any point, nothing stays behind, although *)
(* the labels deregister the device whose registration failed.              *)
NothingLeftBehind ==
  /\ TypeOK
  /\ module \in {"failed", "unloaded"} => devices = {} /\ ~allocated

(* No call writes to a log that is not there, until mastermind_exit frees  *)
(* it: a process that opened /dev/mm before the other registration failed  *)
(* finds no game active.                                                   *)
WritesLog(p) == call[p].at \in {"clear", "end", "append"}
LogIsThereUntilExit ==
  module \notin {"freed", "exitCtl", "unloaded"}
    => \A p \in Processes : WritesLog(p) => allocated
=============================================================================
