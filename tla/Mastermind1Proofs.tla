-------------------------- MODULE Mastermind1Proofs --------------------------
(***************************************************************************)
(* Theorems about Mastermind1, for every set of processes, every bound and *)
(* every input, and their proofs.                                          *)
(*                                                                         *)
(* Nothing protects this driver, so every invariant speaks of all the      *)
(* calls at once, each at its own step.  CallInv follows the score that    *)
(* each call builds, MixInv the two cells of the status that show one,     *)
(* LoadInv mastermind_init and mastermind_exit, and AloneInv what a call   *)
(* has changed so far as long as none overlapped it.                       *)
(***************************************************************************)
EXTENDS Mastermind1, FiniteSetTheorems, TLAPS

Steps == {"idle"} \cup WriteSteps \cup CtlSteps

Call == [at    : Steps,
         guess : {<<>>} \cup Guesses,
         n     : Nat,
         i     : Nat,
         j     : Nat,
         end   : Nat,
         black : Nat,
         white : Nat,
         marked : SUBSET Pegs]

(* Stages of the module.                                                   *)
Registered == {"finish", "setting", "loaded", "freed", "exitCtl", "unloaded"}
Gone       == {"freed", "exitCtl", "unloaded"}

Stages == {"alloc", "mm", "ctl", "finish", "noCtl", "noMm", "failed", "setting",
           "loaded"} \cup Gone

-----------------------------------------------------------------------------
(* A call that has not begun to score has marked nothing; in the loop for  *)
(* the black pegs it has marked only pegs before the one it is at; in the  *)
(* loop for the white pegs it looks at places that are not marked; and it  *)
(* counts each place it marks once, as black or as white.                  *)
Scoring == {"black", "white", "args", "status", "logargs", "end", "append"}

Last(at) ==
  CASE at \in {"black", "white", "code"}     -> NUM_PEGS
    [] at \in {"status", "blank", "over"}    -> StatusSize
    [] at = "clear"  -> Cleared
    [] at = "end"    -> LogSize
    [] at = "append" -> 3
    [] OTHER         -> 1

ScoreInv(c) ==
  /\ c.black + c.white = Cardinality(c.marked)
  /\ c.i \in 1..Last(c.at) /\ c.j \in 0..NUM_PEGS
  /\ c.at \notin Scoring => c.marked = {}
  /\ c.at = "black" => c.marked \subseteq 1..(c.i - 1)
  /\ c.at = "white" => c.j \in Pegs \ c.marked
  /\ c.at = "append" => c.end + 3 <= LogSize

CallInv == call \in [Processes -> Call] /\ \A p \in Processes : ScoreInv(call[p])

ShownInv ==
  /\ num_guesses \in Nat
  /\ target_code \in [Pegs -> 0..5]
  /\ game_status \in [1..StatusSize -> Cells]
  /\ user_view \in [1..LogSize -> Cells]

ScoredInv == overlapped \in BOOLEAN /\ mixed \in BOOLEAN /\ CallInv /\ ShownInv

-----------------------------------------------------------------------------
(* The score that the status shows.  A process that is alone in writing it *)
(* has its black pegs there before its white ones; otherwise the two cells *)
(* are of one call, or at least one of them shows no pegs.                 *)
Halfway(p) == call[p].at = "status" /\ call[p].i = 2

MixInv ==
  ~mixed => /\ \A p \in Processes : Halfway(p) => game_status[1].pegs = call[p].black
            /\ (\A p \in Processes : ~Halfway(p)) => Shown <= NUM_PEGS

-----------------------------------------------------------------------------
(* The devices and the memory at each stage.  /dev/mm_ctl is open to       *)
(* nobody before both devices are registered, so until then no game is     *)
(* active and no call is past the first test of mm_write.                  *)
ModuleInv ==
  /\ module \in Stages
  /\ devices \subseteq {"mm", "mm_ctl"}
  /\ "mm" \in devices => module \notin {"alloc", "mm", "failed", "exitCtl", "unloaded"}
  /\ "mm_ctl" \in devices => module \in Registered \ {"unloaded"}
  /\ allocated = (module \notin {"alloc", "failed"} \cup Gone)

OpenInv ==
  /\ opened \in [Threads -> SUBSET {"mm", "mm_ctl"}]
  /\ \A t \in Threads : "mm_ctl" \in opened[t] => module \in Registered

ActiveInv ==
  /\ game_active \in BOOLEAN
  /\ game_active => module \in Registered
  /\ \A p \in Processes : call[p].at \notin {"idle", "check"} => module \in Registered

InsmodInv ==
  /\ call[Insmod].at \in {"idle", "blank", "clear", "say"}
  /\ call[Insmod].at # "idle" => module = "setting"

LoadInv == ModuleInv /\ OpenInv /\ ActiveInv /\ InsmodInv

-----------------------------------------------------------------------------
(* Alone: as long as no call overlapped another, or init or exit, what the *)
(* one call under way has changed so far is fixed by the step it is at.    *)
Body(n) ==
  /\ n <= MaxGuesses
  /\ \A k \in 1..n : /\ user_view[2 * k - 1].kind = "black" /\ user_view[2 * k - 1].n = k
                     /\ user_view[2 * k].kind = "white"

(* Counted, and not yet in the log.                                        *)
Counted == num_guesses > 0 /\ num_guesses <= MaxGuesses /\ Lines(num_guesses - 1)

Announced(c) == /\ game_status[1] = Cell("black", num_guesses, c.black)
                /\ game_status[2] = Cell("white", 0, c.white)

(* Each step of start, quit and of a write, and what holds there.          *)
Starting(c) ==
  /\ c.at \in {"zero", "blank", "clear", "say", "code"} => game_active
  /\ c.at \in {"blank", "clear", "say", "code"} => num_guesses = 0
  /\ c.at \in {"say", "code"} \/ (c.at = "clear" /\ c.i > 1) => user_view[1] = NUL
  /\ c.at = "code" => game_status[1].kind = "StartingGame"

Quitting(c) ==
  /\ c.at \in {"over", "stop"} => Lines(num_guesses)
  /\ c.at = "stop" \/ (c.at = "over" /\ c.i = 2) => game_status[1].kind = "GameOver"

Guessing(c) ==
  /\ c.at \in {"count", "counted"} => Agreement /\ game_active
  /\ c.at = "counted" => c.n = num_guesses /\ num_guesses < MaxGuesses
  /\ c.at \in Scoring => game_active /\ num_guesses > 0 /\ num_guesses <= MaxGuesses
  /\ c.at \in Scoring \ {"append"} => Lines(num_guesses - 1)
  /\ c.at \in {"status", "end", "append"} => c.n = num_guesses
  /\ c.at = "status" /\ c.i = 2 => game_status[1] = Cell("black", num_guesses, c.black)
  /\ c.at \in {"logargs", "end", "append"} => Announced(c)
  /\ c.at = "end" => c.i <= 2 * num_guesses - 1
  /\ c.at = "append" => /\ Body(num_guesses - 1) /\ c.end = 2 * num_guesses - 2
                        /\ \A k \in 1..(c.i - 1) : user_view[c.end + k] = Guess(c)[k]

Progress(c) ==
  /\ c.at \in {"check", "command"} => Agreement
  /\ Starting(c) /\ Quitting(c) /\ Guessing(c)

(* What insmod has set, in a module that nobody has called yet.            *)
Setting(c) ==
  /\ c.at \in {"say", "idle"} \/ (c.at = "clear" /\ c.i > 1) => user_view[1] = NUL
  /\ c.at = "idle" => game_status[1].kind = "NoGameYet"

OneCall == \A t, u \in Threads :
             call[t].at # "idle" /\ call[u].at # "idle" => t = u

AloneInv ==
  ~overlapped =>
    /\ OneCall
    /\ \A t \in Threads : call[t].at # "idle" => module = "loaded" /\ Progress(call[t])
    /\ Quiet => Agreement
    /\ module \notin {"loaded"} \cup Gone => ~game_active /\ num_guesses = 0
    /\ module = "setting" => Setting(call[Insmod])
-----------------------------------------------------------------------------
(***************************************************************************)
(* What a step makes of the record of its call.                            *)
(***************************************************************************)
LEMMA Consts ==
  /\ LogSize \in Nat /\ LogSize >= 1 /\ StatusSize = 2 /\ NUM_PEGS = 4 /\ Pegs = 1..4
  /\ Cleared \in Nat /\ Cleared >= 1 /\ Cleared <= LogSize
  BY InputAssumption DEF LogSize, StatusSize, NUM_PEGS, Pegs, Cleared

LEMMA Lasts == \A at : Last(at) \in Nat /\ Last(at) >= 1
  BY Consts DEF Last

SameScore(c, r) ==
  /\ r.black = c.black /\ r.white = c.white /\ r.marked = c.marked
  /\ r.j = c.j /\ r.end = c.end /\ r.guess = c.guess

(* What is marked is some of the four pegs.                                *)
LEMMA Marks ==
  ASSUME NEW M \in SUBSET Pegs
  PROVE  IsFiniteSet(M) /\ Cardinality(M) \in 0..NUM_PEGS
<1>1. IsFiniteSet(Pegs) /\ Cardinality(Pegs) = NUM_PEGS
  <2>1. IsFiniteSet(1..4) /\ Cardinality(1..4) = IF 1 > 4 THEN 0 ELSE 4 - 1 + 1
    <3>1. 1 \in Int /\ 4 \in Int
      OBVIOUS
    <3> QED
      BY ONLY <3>1, FS_Interval, Zenon
  <2> QED
    BY <2>1 DEF Pegs, NUM_PEGS
<1>2. IsFiniteSet(M) /\ Cardinality(M) <= Cardinality(Pegs)
  BY <1>1, FS_Subset
<1>3. Cardinality(M) \in Nat
  BY <1>2, FS_CardinalityType
<1> QED
  BY <1>1, <1>2, <1>3 DEF NUM_PEGS

(* The idle call.                                                          *)
LEMMA IdleCall ==
  /\ Idle \in Call /\ ScoreInv(Idle)
  /\ Idle.at = "idle" /\ Idle.i = 1 /\ Idle.black = 0 /\ Idle.marked = {}
<1>1. Cardinality({}) = 0
  BY FS_EmptySet
<1>2. Idle \in Call
  BY DEF Idle, Call, Steps
<1>3. /\ Idle.at = "idle" /\ Idle.i = 1 /\ Idle.j = 0 /\ Idle.black = 0
      /\ Idle.white = 0 /\ Idle.marked = {}
  BY DEF Idle
<1>4. Last("idle") = 1
  BY DEF Last
<1>5. ScoreInv(Idle)
  BY <1>1, <1>3, <1>4, Consts DEF ScoreInv, Scoring
<1> QED
  BY <1>2, <1>3, <1>5

(* The score stays as it is, and the call goes to the first cell or place  *)
(* of another step.                                                        *)
LEMMA Onward ==
  ASSUME NEW c \in Call, ScoreInv(c), NEW r \in Call, r.i = 1, SameScore(c, r),
         r.at \notin {"white", "append"}, r.at \notin Scoring \ {"black"} => c.marked = {}
  PROVE  ScoreInv(r)
<1>1. 1 \in 1..Last(r.at)
  BY Lasts
<1> QED
  BY <1>1 DEF ScoreInv, SameScore

LEMMA AtIs ==
  ASSUME NEW c \in Call, NEW to \in Steps \ {"idle"}
  PROVE  LET r == At(c, to)
         IN  r \in Call /\ r.at = to /\ r.i = 1 /\ r.n = c.n /\ SameScore(c, r)
<1> DEFINE r == [c EXCEPT !.at = to, !.i = 1]
<1>1. At(c, to) = r
  BY DEF At
<1>2. r \in Call /\ r.at = to /\ r.i = 1 /\ r.n = c.n /\ SameScore(c, r)
  BY DEF Call, SameScore
<1> QED
  BY <1>1, <1>2

LEMMA AtIdle == \A c : At(c, "idle") = Idle
  BY DEF At

(* A loop goes to its next pass, or ends.                                  *)
LEMMA AdvanceIs ==
  ASSUME NEW c \in Call, ScoreInv(c), NEW to
  PROVE  LET r == Advance(c, Last(c.at), to)
         IN  /\ c.i < Last(c.at) => /\ r \in Call /\ r.at = c.at /\ r.i = c.i + 1
                                    /\ r.n = c.n /\ SameScore(c, r)
             /\ ~(c.i < Last(c.at)) => r = At(c, to) /\ c.i = Last(c.at)
<1> DEFINE r == Advance(c, Last(c.at), to)
           d == [c EXCEPT !.i = c.i + 1]
<1>1. c.i \in 1..Last(c.at) /\ Last(c.at) \in Nat /\ c.i \in Nat
  BY Lasts DEF ScoreInv, Call
<1>2. d \in Call /\ d.at = c.at /\ d.i = c.i + 1 /\ d.n = c.n /\ SameScore(c, d)
  BY <1>1 DEF Call, SameScore
<1>3. r = IF c.i < Last(c.at) THEN d ELSE At(c, to)
  BY DEF Advance
<1> HIDE DEF d, r
<1>4. ~(c.i < Last(c.at)) => c.i = Last(c.at)
  BY <1>1
<1> QED
  BY <1>2, <1>3, <1>4 DEF r

(* The next pass of a loop over cells.                                     *)
LEMMA Passes ==
  ASSUME NEW c \in Call, ScoreInv(c), NEW r \in Call, c.i < Last(c.at),
         c.at \notin {"black", "white"}, r.at = c.at, r.i = c.i + 1, SameScore(c, r)
  PROVE  ScoreInv(r)
<1>1. c.i \in Nat /\ Last(c.at) \in Nat /\ r.i \in 1..Last(r.at)
  BY Lasts DEF Call
<1> QED
  BY <1>1 DEF ScoreInv, SameScore

(* The least element of a set of pegs.                                     *)
LEMMA LeastPeg ==
  ASSUME NEW T \in SUBSET (1..4), T # {}
  PROVE  \E m \in T : \A k \in T : m <= k
<1>1. CASE 1 \in T
  BY <1>1
<1>2. CASE 1 \notin T /\ 2 \in T
  <2>1. \A k \in T : 2 <= k
    BY <1>2
  <2> QED
    BY <1>2, <2>1
<1>3. CASE 1 \notin T /\ 2 \notin T /\ 3 \in T
  <2>1. \A k \in T : 3 <= k
    BY <1>3
  <2> QED
    BY <1>3, <2>1
<1>4. CASE 1 \notin T /\ 2 \notin T /\ 3 \notin T
  <2>1. \A k \in T : k = 4
    BY <1>4
  <2>2. PICK m \in T : TRUE
    OBVIOUS
  <2>3. \A k \in T : m <= k
    BY <2>1
  <2> QED
    BY <2>3
<1> QED
  BY <1>1, <1>2, <1>3, <1>4

Before(p, q) == p[1] < q[1] \/ (p[1] = q[1] /\ p[2] <= q[2])

LEMMA FirstLeft ==
  ASSUME NEW S \in SUBSET (Pegs \X Pegs), S # {}
  PROVE  \E p \in S : \A q \in S : Before(p, q)
<1> DEFINE T == {p[1] : p \in S}
<1>1. T \in SUBSET (1..4) /\ T # {}
  BY Consts
<1>2. PICK m \in T : \A k \in T : m <= k
  BY <1>1, LeastPeg
<1> DEFINE U == {p[2] : p \in {q \in S : q[1] = m}}
<1>3. U \in SUBSET (1..4) /\ U # {}
  <2>1. PICK p \in S : p[1] = m
    OBVIOUS
  <2> QED
    BY <2>1, Consts
<1>4. PICK l \in U : \A k \in U : l <= k
  BY <1>3, LeastPeg
<1>5. PICK p \in S : p[1] = m /\ p[2] = l
  OBVIOUS
<1>6. \A q \in S : Before(p, q)
  <2> SUFFICES ASSUME NEW q \in S PROVE Before(p, q)
    OBVIOUS
  <2>1. m <= q[1] /\ m \in 1..4 /\ q[1] \in 1..4
    BY <1>1, <1>2, Consts
  <2>2. q[1] = m => l <= q[2]
    BY <1>4
  <2> QED
    BY <1>5, <2>1, <2>2 DEF Before
<1> QED
  BY <1>6

LEMMA NextPlaceIs ==
  ASSUME NEW c \in Call
  PROVE  LET r == NextPlace(c)
         IN  /\ r \in Call /\ r.n = c.n
             /\ r.black = c.black /\ r.white = c.white /\ r.marked = c.marked
             /\ \/ r.at = "args" /\ r.i = 1 /\ r.j = 0
                \/ r.at = "white" /\ r.i \in Pegs /\ r.j \in Pegs \ c.marked
<1> DEFINE a == [At(c, "args") EXCEPT !.j = 0]
           p == CHOOSE p \in Left(c) : \A q \in Left(c) :
                  p[1] < q[1] \/ (p[1] = q[1] /\ p[2] <= q[2])
           w == [c EXCEPT !.at = "white", !.i = p[1], !.j = p[2]]
<1>1. NextPlace(c) = IF Left(c) = {} THEN a ELSE w
  BY DEF NextPlace
<1>2. CASE Left(c) = {}
  <2>1. "args" \in Steps \ {"idle"}
    BY DEF Steps, WriteSteps
  <2>2. PICK d : d = At(c, "args") /\ d \in Call /\ d.at = "args" /\ d.i = 1
                 /\ d.n = c.n /\ SameScore(c, d)
    BY <2>1, AtIs
  <2>3. a = [d EXCEPT !.j = 0]
    BY <2>2
  <2>4. /\ a \in Call /\ a.at = "args" /\ a.i = 1 /\ a.j = 0 /\ a.n = c.n
        /\ a.black = c.black /\ a.white = c.white /\ a.marked = c.marked
    BY <2>2, <2>3 DEF Call, SameScore
  <2> QED
    BY <1>1, <1>2, <2>4
<1>3. CASE Left(c) # {}
  <2>1. Left(c) \in SUBSET (Pegs \X Pegs)
    BY DEF Left
  <2>2. \E q \in Left(c) : \A s \in Left(c) :
          q[1] < s[1] \/ (q[1] = s[1] /\ q[2] <= s[2])
    BY <1>3, <2>1, FirstLeft DEF Before
  <2>3. p \in Left(c)
    BY <2>2
  <2>4. p[1] \in Pegs /\ p[2] \in Pegs /\ p[2] \notin c.marked
    BY <2>3 DEF Left
  <2> HIDE DEF p
  <2>5. "white" \in Steps /\ p[1] \in Nat /\ p[2] \in Nat
    BY <2>4, Consts DEF Steps, WriteSteps
  <2>6. /\ w \in Call /\ w.at = "white" /\ w.i = p[1] /\ w.j = p[2] /\ w.n = c.n
        /\ w.black = c.black /\ w.white = c.white /\ w.marked = c.marked
    BY <2>5 DEF Call
  <2> QED
    BY <1>1, <1>3, <2>4, <2>6
<1> QED
  BY <1>2, <1>3

LEMMA PlaceScore ==
  ASSUME NEW c \in Call, c.black + c.white = Cardinality(c.marked)
  PROVE  ScoreInv(NextPlace(c))
<1>1. PICK r : r = NextPlace(c)
  OBVIOUS
<1>2. /\ r \in Call /\ r.black = c.black /\ r.white = c.white /\ r.marked = c.marked
      /\ \/ r.at = "args" /\ r.i = 1 /\ r.j = 0
         \/ r.at = "white" /\ r.i \in Pegs /\ r.j \in Pegs \ c.marked
  BY <1>1, NextPlaceIs
<1>3. Last("args") = 1 /\ Last("white") = 4
  BY Consts DEF Last
<1>4. ScoreInv(r)
  BY <1>2, <1>3, Consts DEF ScoreInv, Scoring
<1> QED
  BY <1>1, <1>4
-----------------------------------------------------------------------------
(***************************************************************************)
(* Each action moves one process, and leaves the score of its call sound.  *)
(***************************************************************************)
Fits(p, from, r) ==
  /\ call[p] \in Call /\ ScoreInv(call[p]) /\ call[p].at = from
  /\ call' = [call EXCEPT ![p] = r] /\ r \in Call /\ ScoreInv(r)

LEMMA Fitting ==
  ASSUME CallInv, NEW p \in Processes, NEW from, NEW r, Fits(p, from, r)
  PROVE  CallInv' /\ \A q \in Processes : call'[q] = IF q = p THEN r ELSE call[q]
<1>1. call' \in [Processes -> Call] /\ \A q \in Processes : call'[q] = IF q = p THEN r ELSE call[q]
  BY DEF CallInv, Fits
<1>2. \A q \in Processes : ScoreInv(call'[q])
  BY <1>1 DEF CallInv, Fits
<1> QED
  BY <1>1, <1>2 DEF CallInv

LEMMA Member == CallInv => \A p \in Processes : call[p] \in Call /\ ScoreInv(call[p])
  BY DEF CallInv

LEMMA ThreadIs == Insmod \in Processes /\ \A t \in Threads : t \in Processes /\ t # Insmod
  BY InputAssumption DEF Processes

LEMMA GotoFits ==
  ASSUME CallInv, NEW p \in Processes, NEW from \in Steps, NEW to \in Steps \ {"idle"},
         to \notin {"white", "append"}, to \notin Scoring \ {"black"} => from \notin Scoring,
         Goto(p, from, to)
  PROVE  \E r : /\ Fits(p, from, r) /\ r.at = to /\ r.i = 1 /\ r.n = call[p].n
                /\ SameScore(call[p], r)
<1> DEFINE c == call[p]
<1>1. PICK r : r = At(c, to)
  OBVIOUS
<1>2. c \in Call /\ ScoreInv(c) /\ c.at = from /\ call' = [call EXCEPT ![p] = r]
  BY <1>1, Member DEF Goto, Step, Moves
<1> HIDE DEF c
<1>3. r \in Call /\ r.at = to /\ r.i = 1 /\ r.n = c.n /\ SameScore(c, r)
  BY <1>1, <1>2, AtIs
<1>4. from \notin Scoring => c.marked = {}
  BY <1>2 DEF ScoreInv
<1>5. ScoreInv(r)
  BY <1>2, <1>3, <1>4, Onward
<1> QED
  BY <1>2, <1>3, <1>5 DEF Fits, c

LEMMA ReturnFits ==
  ASSUME CallInv, NEW p \in Processes, NEW from, Goto(p, from, "idle")
  PROVE  Fits(p, from, Idle)
  BY Member, IdleCall, AtIdle DEF Goto, Step, Moves, Fits

(* num_guesses is read, and kept until it is written or shown.             *)
LEMMA ReadFits ==
  ASSUME CallInv, ShownInv, NEW p \in Processes, NEW from \in Steps,
         NEW to \in {"counted", "status", "end"},
         to = "counted" => from \notin Scoring, ReadCount(p, from, to)
  PROVE  \E r : /\ Fits(p, from, r) /\ r.at = to /\ r.i = 1 /\ r.n = num_guesses
                /\ SameScore(call[p], r)
<1> DEFINE c == call[p]
<1>1. PICK d : d = At(c, to)
  OBVIOUS
<1>2. PICK r : r = [d EXCEPT !.n = num_guesses]
  OBVIOUS
<1>3. c \in Call /\ ScoreInv(c) /\ c.at = from /\ call' = [call EXCEPT ![p] = r]
  BY <1>1, <1>2, Member DEF ReadCount, Step, Moves
<1> HIDE DEF c
<1>4. to \in Steps \ {"idle"}
  BY DEF Steps, WriteSteps
<1>5. d \in Call /\ d.at = to /\ d.i = 1 /\ SameScore(c, d)
  BY <1>1, <1>3, <1>4, AtIs
<1>6. num_guesses \in Nat
  BY DEF ShownInv
<1>7. r \in Call /\ r.at = to /\ r.i = 1 /\ r.n = num_guesses /\ SameScore(c, r)
  BY <1>2, <1>5, <1>6 DEF Call, SameScore
<1>8. from \notin Scoring => c.marked = {}
  BY <1>3 DEF ScoreInv
<1>9. to \notin Scoring \ {"black"} => c.marked = {}
  BY <1>8 DEF Scoring
<1>10. ScoreInv(r)
  BY <1>3, <1>7, <1>9, Onward
<1> QED
  BY <1>3, <1>7, <1>10 DEF Fits, c

(* A loop over cells, or over the pegs of the code.                        *)
Looped(c, r, to) ==
  \/ /\ c.i < Last(c.at)
     /\ r.at = c.at /\ r.i = c.i + 1 /\ r.n = c.n /\ SameScore(c, r)
  \/ c.i = Last(c.at) /\ to = "idle" /\ r = Idle
  \/ /\ c.i = Last(c.at) /\ to # "idle"
     /\ r.at = to /\ r.i = 1 /\ r.n = c.n /\ SameScore(c, r)

LEMMA LoopFits ==
  ASSUME CallInv, NEW p \in Processes, NEW from \in Steps \ {"black", "white"},
         NEW to \in Steps \ {"black", "white", "append"},
         to \notin Scoring \cup {"idle"} => from \notin Scoring,
         Moves(p, from, Advance(call[p], Last(from), to))
  PROVE  \E r : Fits(p, from, r) /\ Looped(call[p], r, to)
<1> DEFINE c == call[p]
<1>1. PICK r : r = Advance(c, Last(from), to)
  OBVIOUS
<1>2. c \in Call /\ ScoreInv(c) /\ c.at = from /\ call' = [call EXCEPT ![p] = r]
  BY <1>1, Member DEF Moves
<1> HIDE DEF c
<1>3. /\ c.i < Last(c.at) => /\ r \in Call /\ r.at = c.at /\ r.i = c.i + 1
                             /\ r.n = c.n /\ SameScore(c, r)
      /\ ~(c.i < Last(c.at)) => r = At(c, to) /\ c.i = Last(c.at)
  BY <1>1, <1>2, AdvanceIs
<1>4. CASE c.i < Last(c.at)
  <2>1. ScoreInv(r)
    BY <1>2, <1>3, <1>4, Passes
  <2> QED
    BY <1>2, <1>3, <1>4, <2>1 DEF Fits, Looped, c
<1>5. CASE ~(c.i < Last(c.at)) /\ to = "idle"
  <2>1. r = Idle
    BY <1>3, <1>5, AtIdle
  <2> QED
    BY <1>2, <1>3, <1>5, <2>1, IdleCall DEF Fits, Looped, c
<1>6. CASE ~(c.i < Last(c.at)) /\ to # "idle"
  <2>1. r \in Call /\ r.at = to /\ r.i = 1 /\ r.n = c.n /\ SameScore(c, r)
    BY <1>2, <1>3, <1>6, AtIs
  <2>2. from \notin Scoring => c.marked = {}
    BY <1>2 DEF ScoreInv
  <2>3. ScoreInv(r)
    BY <1>2, <1>6, <2>1, <2>2, Onward
  <2> QED
    BY <1>2, <1>3, <1>6, <2>1, <2>3 DEF Fits, Looped, c
<1> QED
  BY <1>4, <1>5, <1>6

LEMMA EnterFits ==
  ASSUME CallInv, NEW t \in Threads,
         EnterCtl(t) \/ \E guess \in Guesses : EnterWrite(t, guess)
  PROVE  \E r : /\ Fits(t, "idle", r)
                /\ r.at = "check" \/ (r.at = "command" /\ EnterCtl(t))
<1>0. t \in Processes
  BY ThreadIs
<1>1. CASE EnterCtl(t)
  <2>1. PICK r : r = [Idle EXCEPT !.at = "command"]
    OBVIOUS
  <2>2. r \in Call /\ r.at = "command" /\ r.i = 1 /\ SameScore(Idle, r)
    BY <2>1, IdleCall DEF Call, SameScore, Steps, CtlSteps
  <2>3. ScoreInv(r)
    BY <2>2, IdleCall, Onward DEF Scoring
  <2>4. call[t].at = "idle" /\ call' = [call EXCEPT ![t] = r]
    BY <1>1, <2>1 DEF EnterCtl, Enter
  <2> QED
    BY <1>0, <1>1, <2>2, <2>3, <2>4, Member DEF Fits
<1>2. ASSUME NEW guess \in Guesses, EnterWrite(t, guess)
      PROVE  \E r : Fits(t, "idle", r) /\ r.at = "check"
  <2>1. PICK r : r = [Idle EXCEPT !.at = "check", !.guess = guess]
    OBVIOUS
  <2>2. /\ r \in Call /\ r.at = "check" /\ r.i = 1 /\ r.j = Idle.j /\ r.marked = Idle.marked
        /\ r.black = Idle.black /\ r.white = Idle.white
    BY <2>1, IdleCall DEF Call, Steps, WriteSteps
  <2>3. 1 \in 1..Last("check") /\ Last("check") = 1
    BY DEF Last
  <2>4. ScoreInv(r)
    BY <2>2, <2>3, IdleCall DEF ScoreInv, Scoring
  <2>5. call[t].at = "idle" /\ call' = [call EXCEPT ![t] = r]
    BY <1>2, <2>1 DEF EnterWrite, Enter
  <2> QED
    BY <1>0, <2>2, <2>4, <2>5, Member DEF Fits
<1> QED
  BY <1>1, <1>2

(* A black peg was not marked before.                                      *)
LEMMA BlackFits ==
  ASSUME CallInv, NEW t \in Threads, BlackPeg(t)
  PROVE  \E r : Fits(t, "black", r) /\ r.at \in {"black", "white", "args"} /\ r.n = call[t].n
<1> DEFINE c   == call[t]
           hit == target_code[c.i] = c.guess[c.i]
<1>1. PICK b : b = IF hit THEN [c EXCEPT !.black = c.black + 1, !.marked = c.marked \cup {c.i}]
                          ELSE c
  OBVIOUS
<1>2. PICK r : r = IF c.i < NUM_PEGS THEN [b EXCEPT !.i = b.i + 1]
                                     ELSE NextPlace([b EXCEPT !.i = 1])
  OBVIOUS
<1>3. c \in Call /\ ScoreInv(c) /\ c.at = "black" /\ call' = [call EXCEPT ![t] = r]
  BY <1>1, <1>2, Member, ThreadIs DEF BlackPeg, Step, Moves
<1>4. Last("black") = 4
  BY Consts DEF Last
<1> HIDE DEF c, hit
<1>5. /\ c.i \in 1..4 /\ c.marked \subseteq 1..(c.i - 1) /\ c.marked \in SUBSET Pegs
      /\ c.black \in Nat /\ c.white \in Nat /\ c.j \in 0..NUM_PEGS
      /\ c.black + c.white = Cardinality(c.marked)
  BY <1>3, <1>4 DEF ScoreInv, Call
<1>6. b \in Call /\ b.at = "black" /\ b.i = c.i /\ b.j = c.j /\ b.n = c.n
      /\ b.white = c.white /\ b.black = (IF hit THEN c.black + 1 ELSE c.black)
      /\ b.marked = (IF hit THEN c.marked \cup {c.i} ELSE c.marked)
  <2>1. c.black + 1 \in Nat /\ c.marked \cup {c.i} \in SUBSET Pegs
    BY <1>5, Consts
  <2>2. CASE hit
    BY <1>1, <1>3, <2>1, <2>2 DEF Call
  <2>3. CASE ~hit
    BY <1>1, <1>3, <2>3
  <2> QED
    BY <2>2, <2>3
<1>7. b.black + b.white = Cardinality(b.marked)
  <2>1. CASE hit
    <3>1. c.i \notin c.marked
      BY <1>5
    <3>2. Cardinality(b.marked) = Cardinality(c.marked) + 1
      BY <1>5, <1>6, <2>1, <3>1, Marks, FS_AddElement
    <3> QED
      BY <1>5, <1>6, <2>1, <3>2
  <2>2. CASE ~hit
    BY <1>5, <1>6, <2>2
  <2> QED
    BY <2>1, <2>2
<1>8. b.marked \subseteq 1..c.i /\ b.marked \in SUBSET Pegs
  BY <1>5, <1>6, Consts
<1>9. CASE c.i < NUM_PEGS
  <2>1. /\ r \in Call /\ r.at = "black" /\ r.i = c.i + 1 /\ r.n = c.n /\ r.j = c.j
        /\ r.black = b.black /\ r.white = b.white /\ r.marked = b.marked
    BY <1>2, <1>5, <1>6, <1>9 DEF Call
  <2>2. r.i \in 1..Last("black") /\ r.marked \subseteq 1..(r.i - 1)
    BY <1>4, <1>5, <1>8, <1>9, <2>1, Consts
  <2>3. ScoreInv(r)
    BY <1>5, <1>7, <2>1, <2>2 DEF ScoreInv, Scoring
  <2> QED
    BY <1>3, <2>1, <2>3 DEF Fits, c
<1>10. CASE ~(c.i < NUM_PEGS)
  <2>1. PICK d : d = [b EXCEPT !.i = 1]
    OBVIOUS
  <2>2. d \in Call /\ d.n = c.n /\ d.black + d.white = Cardinality(d.marked)
    BY <1>6, <1>7, <2>1 DEF Call
  <2>3. r = NextPlace(d)
    BY <1>2, <1>10, <2>1
  <2>4. ScoreInv(r) /\ r \in Call /\ r.n = d.n /\ r.at \in {"white", "args"}
    BY <2>2, <2>3, PlaceScore, NextPlaceIs
  <2> QED
    BY <1>3, <2>2, <2>4 DEF Fits, c
<1> QED
  BY <1>9, <1>10

(* A white peg marks a place that was not marked.                          *)
LEMMA WhiteFits ==
  ASSUME CallInv, NEW t \in Threads, WhitePeg(t)
  PROVE  \E r : Fits(t, "white", r) /\ r.at \in {"white", "args"} /\ r.n = call[t].n
<1> DEFINE c   == call[t]
           hit == target_code[c.j] = c.guess[c.i]
<1>1. PICK w : w = IF hit THEN [c EXCEPT !.white = c.white + 1, !.marked = c.marked \cup {c.j}]
                          ELSE c
  OBVIOUS
<1>2. PICK r : r = NextPlace(w)
  OBVIOUS
<1>3. c \in Call /\ ScoreInv(c) /\ c.at = "white" /\ call' = [call EXCEPT ![t] = r]
  BY <1>1, <1>2, Member, ThreadIs DEF WhitePeg, Step, Moves
<1> HIDE DEF c, hit
<1>4. /\ c.j \in Pegs /\ c.j \notin c.marked /\ c.marked \in SUBSET Pegs
      /\ c.black \in Nat /\ c.white \in Nat
      /\ c.black + c.white = Cardinality(c.marked)
  BY <1>3 DEF ScoreInv, Call
<1>5. w \in Call /\ w.n = c.n /\ w.black + w.white = Cardinality(w.marked)
  <2>1. CASE hit
    <3>1. Cardinality(c.marked \cup {c.j}) = Cardinality(c.marked) + 1
      BY <1>4, Marks, FS_AddElement
    <3>2. c.white + 1 \in Nat /\ c.marked \cup {c.j} \in SUBSET Pegs
      BY <1>4
    <3>3. /\ w \in Call /\ w.n = c.n /\ w.black = c.black /\ w.white = c.white + 1
          /\ w.marked = c.marked \cup {c.j}
      BY <1>1, <1>3, <2>1, <3>2 DEF Call
    <3> QED
      BY <1>4, <3>1, <3>3
  <2>2. CASE ~hit
    BY <1>1, <1>3, <1>4, <2>2
  <2> QED
    BY <2>1, <2>2
<1>6. ScoreInv(r) /\ r \in Call /\ r.n = w.n /\ r.at \in {"white", "args"}
  BY <1>2, <1>5, PlaceScore, NextPlaceIs
<1> QED
  BY <1>3, <1>5, <1>6 DEF Fits, c

(* Where the log ends is kept until the line is copied there.              *)
LEMMA EndFits ==
  ASSUME CallInv, NEW t \in Threads, FindEnd(t)
  PROVE  \E r : /\ Fits(t, "end", r) /\ SameScore([call[t] EXCEPT !.end = r.end], r)
                /\ r.n = call[t].n
                /\ IF user_view[call[t].i] = NUL
                   THEN r.at = "append" /\ r.i = 1 /\ r.end = call[t].i - 1
                   ELSE r.at = "end" /\ r.i = call[t].i + 1
<1> DEFINE c == call[t]
<1>1. PICK d : d = At(c, "append")
  OBVIOUS
<1>2. PICK r : r = IF user_view[c.i] = NUL THEN [d EXCEPT !.end = c.i - 1]
                                           ELSE [c EXCEPT !.i = c.i + 1]
  OBVIOUS
<1>3. /\ c \in Call /\ ScoreInv(c) /\ c.at = "end" /\ call' = [call EXCEPT ![t] = r]
      /\ c.i + 2 <= LogSize
  BY <1>1, <1>2, Member, ThreadIs DEF FindEnd, Step, Moves
<1> HIDE DEF c
<1>4. /\ c.i \in 1..LogSize /\ c.black + c.white = Cardinality(c.marked)
      /\ c.j \in 0..NUM_PEGS
  BY <1>3 DEF ScoreInv, Last
<1>5. CASE user_view[c.i] = NUL
  <2>1. "append" \in Steps \ {"idle"}
    BY DEF Steps, WriteSteps
  <2>2. d \in Call /\ d.at = "append" /\ d.i = 1 /\ d.n = c.n /\ SameScore(c, d)
    BY <1>1, <1>3, <2>1, AtIs
  <2>3. c.i - 1 \in Nat
    BY <1>4, Consts
  <2>4. /\ r \in Call /\ r.at = "append" /\ r.i = 1 /\ r.n = c.n /\ r.end = c.i - 1
        /\ r.black = c.black /\ r.white = c.white /\ r.marked = c.marked /\ r.j = c.j
        /\ r.guess = c.guess
    BY <1>2, <1>5, <2>2, <2>3 DEF Call, SameScore
  <2>5. r.i \in 1..Last("append") /\ r.end + 3 <= LogSize
    BY <1>3, <1>4, <2>4, Consts DEF Last
  <2>6. ScoreInv(r)
    BY <1>4, <2>4, <2>5 DEF ScoreInv, Scoring
  <2>7. SameScore([c EXCEPT !.end = r.end], r)
    BY <1>3, <2>4 DEF SameScore, Call
  <2> QED
    BY <1>3, <1>5, <2>4, <2>6, <2>7 DEF Fits, c
<1>6. CASE user_view[c.i] # NUL
  <2>1. c.i + 1 \in Nat
    BY <1>4, Consts
  <2>2. /\ r \in Call /\ r.at = "end" /\ r.i = c.i + 1 /\ r.n = c.n /\ r.end = c.end
        /\ r.black = c.black /\ r.white = c.white /\ r.marked = c.marked /\ r.j = c.j
        /\ r.guess = c.guess
    BY <1>2, <1>3, <1>6, <2>1 DEF Call
  <2>3. r.i \in 1..Last("end")
    BY <1>3, <1>4, <2>2, Consts DEF Last
  <2>4. ScoreInv(r)
    BY <1>4, <2>2, <2>3 DEF ScoreInv, Scoring
  <2>5. SameScore([c EXCEPT !.end = r.end], r)
    BY <1>3, <2>2 DEF SameScore, Call
  <2> QED
    BY <1>3, <1>6, <2>2, <2>4, <2>5 DEF Fits, c
<1> QED
  BY <1>5, <1>6

LEMMA Appended ==
  ASSUME NEW x, NEW y, NEW z
  PROVE  /\ Len(Append(<<x, y>>, z)) = 3 /\ Append(<<x, y>>, z)[3] = z
         /\ \A i \in 1..2 : Append(<<x, y>>, z)[i] = <<x, y>>[i]
<1> DEFINE s == <<x, y>>
           S == {x, y, z}
<1>1. s \in Seq(S) /\ z \in S /\ Len(s) = 2
  OBVIOUS
<1> HIDE DEF s, S
<1>2. Len(Append(s, z)) = Len(s) + 1
  BY <1>1 DEF s, S
<1>3. Append(s, z)[Len(s) + 1] = z
  BY <1>1 DEF s, S
<1>4. \A i \in 1..Len(s) : Append(s, z)[i] = s[i]
  BY <1>1 DEF s, S
<1> QED
  BY <1>1, <1>2, <1>3, <1>4 DEF s

LEMMA Texts ==
  /\ Len(Blank) = 2 /\ \A i \in 1..2 : Blank[i] = NUL
  /\ \A kind, n : n \in Nat => Len(Message(kind, n)) = n
                               /\ \A i \in 1..n : Message(kind, n)[i] = Cell(kind, 0, 0)
  /\ \A c : /\ Len(Guess(c)) = 2
            /\ Guess(c)[1] = Cell("black", c.n, c.black)
            /\ Guess(c)[2] = Cell("white", 0, c.white)
            /\ Len(Append(Guess(c), NUL)) = 3 /\ Append(Guess(c), NUL)[3] = NUL
            /\ \A i \in 1..2 : Append(Guess(c), NUL)[i] = Guess(c)[i]
<1>1. \A kind, n : n \in Nat => Len(Message(kind, n)) = n
                               /\ \A i \in 1..n : Message(kind, n)[i] = Cell(kind, 0, 0)
  BY DEF Message
<1>2. ASSUME NEW c
      PROVE  /\ Len(Guess(c)) = 2
             /\ Guess(c)[1] = Cell("black", c.n, c.black)
             /\ Guess(c)[2] = Cell("white", 0, c.white)
             /\ Len(Append(Guess(c), NUL)) = 3 /\ Append(Guess(c), NUL)[3] = NUL
             /\ \A i \in 1..2 : Append(Guess(c), NUL)[i] = Guess(c)[i]
  <2>1. PICK x, y : x = Cell("black", c.n, c.black) /\ y = Cell("white", 0, c.white)
    OBVIOUS
  <2>2. Guess(c) = <<x, y>>
    BY <2>1 DEF Guess
  <2>3. /\ Len(Append(<<x, y>>, NUL)) = 3 /\ Append(<<x, y>>, NUL)[3] = NUL
        /\ \A i \in 1..2 : Append(<<x, y>>, NUL)[i] = <<x, y>>[i]
    BY Appended
  <2> QED
    BY <2>1, <2>2, <2>3
<1>3. Len(Blank) = 2 /\ \A i \in 1..2 : Blank[i] = NUL
  BY <1>1 DEF Blank, StatusSize, NUL
<1> QED
  BY <1>1, <1>2, <1>3

LEMMA CellIs ==
  /\ \A kind, n, pegs : /\ Cell(kind, n, pegs).kind = kind /\ Cell(kind, n, pegs).n = n
                        /\ Cell(kind, n, pegs).pegs = pegs
  /\ NUL \in Cells /\ Junk \in Cells
  /\ \A kind \in {"StartingGame", "NoGameYet", "GameOver"} : Cell(kind, 0, 0) \in Cells
  /\ \A n, m \in Nat : Cell("black", n, m) \in Cells /\ Cell("white", n, m) \in Cells
  BY DEF Cell, NUL, Junk, Cells

LEMMA BlankIs == Len(Blank) = 2 /\ Blank[1] = NUL /\ Blank[2] = NUL
  BY Texts

LEMMA NulIs == NUL \in Cells /\ NUL.pegs = 0 /\ NUL.kind = "NUL"
  BY DEF NUL, Cell, Cells

LEMMA MessageIs ==
  ASSUME NEW kind
  PROVE  /\ Len(Message(kind, 1)) = 1 /\ Message(kind, 1)[1] = Cell(kind, 0, 0)
         /\ Len(Message(kind, 2)) = 2 /\ Message(kind, 2)[1] = Cell(kind, 0, 0)
         /\ Message(kind, 2)[2] = Cell(kind, 0, 0)
<1>1. /\ Message(kind, 1) = [i \in 1..1 |-> Cell(kind, 0, 0)]
      /\ Message(kind, 2) = [i \in 1..2 |-> Cell(kind, 0, 0)]
  BY DEF Message
<1>2. \A n \in Nat : Len([i \in 1..n |-> Cell(kind, 0, 0)]) = n
  OBVIOUS
<1> QED
  BY <1>1, <1>2

(* A step that writes a cell of the status.                                *)
LEMMA SetFits ==
  ASSUME CallInv, NEW p \in Processes, NEW from \in {"status", "blank", "say", "over"},
         NEW to \in Steps \ {"black", "white", "append"},
         to \notin Scoring \cup {"idle"} => from \notin Scoring,
         NEW text, Len(text) = Last(from), SetCell(p, from, text, to)
  PROVE  \E r : Fits(p, from, r) /\ Looped(call[p], r, to)
<1>1. from \in Steps \ {"black", "white"}
  BY DEF Steps, WriteSteps, CtlSteps
<1>2. Moves(p, from, Advance(call[p], Last(from), to))
  BY DEF SetCell
<1> QED
  BY <1>1, <1>2, LoopFits

(* What a call shows is the score it has built, which is of four pegs.     *)
LEMMA ScoreShown ==
  ASSUME NEW c \in Call, ScoreInv(c)
  PROVE  c.black \in 0..NUM_PEGS /\ c.white \in 0..NUM_PEGS /\ c.black + c.white <= NUM_PEGS
<1>1. c.black \in Nat /\ c.white \in Nat /\ c.marked \in SUBSET Pegs
  BY DEF Call
<1>2. c.black + c.white = Cardinality(c.marked)
  BY DEF ScoreInv
<1>3. Cardinality(c.marked) \in 0..NUM_PEGS
  BY <1>1, Marks
<1> QED
  BY <1>1, <1>2, <1>3 DEF NUM_PEGS
-----------------------------------------------------------------------------
(***************************************************************************)
(* The score, in the calls and in the status.                              *)
(***************************************************************************)
StatusSteps == {"status", "blank", "say", "over"}

(* Pegs that a cell of a text shows.                                       *)
PegsOf(c, i) == IF c.at # "status" THEN 0 ELSE IF i = 1 THEN c.black ELSE c.white

LEMMA HalfwayMoves ==
  ASSUME CallInv, NEW p \in Processes, NEW from, NEW r, Fits(p, from, r)
  PROVE  \A q \in Processes : /\ q # p => (Halfway(q)' <=> Halfway(q)) /\ call'[q] = call[q]
                              /\ q = p => (Halfway(q)' <=> (r.at = "status" /\ r.i = 2))
                                          /\ call'[q] = r
  BY Fitting DEF Halfway

(* A step that leaves the status alone.                                    *)
LEMMA MixKeeps ==
  ASSUME CallInv, MixInv, NEW p \in Processes, NEW from, NEW r, Fits(p, from, r),
         from # "status", r.at # "status" \/ r.i = 1, UNCHANGED <<game_status, mixed>>
  PROVE  MixInv'
<1> SUFFICES ASSUME ~mixed PROVE MixInv'
  BY DEF MixInv
<1>1. \A q \in Processes : /\ Halfway(q)' <=> Halfway(q)
                           /\ Halfway(q) => call'[q] = call[q]
  <2>1. ~(r.at = "status" /\ r.i = 2) /\ ~Halfway(p)
    BY DEF Fits, Halfway
  <2> QED
    BY <2>1, HalfwayMoves
<1>2. \A q \in Processes : Halfway(q) => game_status[1].pegs = call[q].black
  BY DEF MixInv
<1>3. \A q \in Processes : Halfway(q)' => game_status'[1].pegs = call'[q].black
  BY <1>1, <1>2
<1>4. (\A q \in Processes : ~Halfway(q)) => Shown <= NUM_PEGS
  BY DEF MixInv
<1>5. (\A q \in Processes : ~Halfway(q)') => Shown' <= NUM_PEGS
  BY <1>1, <1>4 DEF Shown
<1> QED
  BY <1>3, <1>5 DEF MixInv

LEMMA SetScore ==
  ASSUME CallInv, ShownInv, MixInv, NEW p \in Processes, NEW from \in StatusSteps,
         NEW to \in Steps \ {"black", "white", "append", "status"},
         to \notin Scoring \cup {"idle"} => from \notin Scoring,
         NEW text, Len(text) = Last(from),
         \A i \in 1..Last(from) : text[i] \in Cells /\ text[i].pegs = PegsOf(call[p], i),
         SetCell(p, from, text, to)
  PROVE  CallInv' /\ ShownInv' /\ MixInv'
<1> DEFINE c == call[p]
           i == c.i
<1>1. PICK r : Fits(p, from, r) /\ Looped(c, r, to)
  BY SetFits DEF StatusSteps
<1>2. CallInv'
  BY <1>1, Fitting
<1>3. /\ game_status' = [game_status EXCEPT ![i] = text[i]]
      /\ mixed' = (mixed \/ \E q \in Processes \ {p} : call[q].at \in StatusSteps)
      /\ UNCHANGED <<num_guesses, target_code, user_view>>
  BY DEF SetCell, StatusSteps
<1>4. c \in Call /\ ScoreInv(c) /\ c.at = from /\ Last(from) \in 1..2 /\ i \in 1..Last(from)
  <2>1. Last(from) \in 1..2
    BY Consts DEF Last, StatusSteps
  <2> QED
    BY <1>1, <2>1 DEF Fits, ScoreInv
<1>5. i \in 1..2 /\ text[i] \in Cells /\ text[i].pegs = PegsOf(c, i)
  BY <1>4
<1>6. /\ game_status \in [1..2 -> Cells] /\ game_status' \in [1..2 -> Cells]
      /\ game_status'[i] = text[i]
      /\ \A k \in 1..2 : k # i => game_status'[k] = game_status[k]
  BY <1>3, <1>5 DEF ShownInv, StatusSize
<1>7. ShownInv'
  BY <1>3, <1>6 DEF ShownInv, StatusSize
<1>8. c.black \in 0..NUM_PEGS /\ c.white \in 0..NUM_PEGS /\ c.black + c.white <= NUM_PEGS
  BY <1>4, ScoreShown
<1>9. \A k \in 1..2 : game_status[k].pegs \in Nat
  BY <1>6 DEF Cells
<1>10. ASSUME ~mixed' PROVE MixInv'
  <2>1. ~mixed /\ \A q \in Processes \ {p} : call[q].at \notin StatusSteps
    BY <1>3, <1>10
  <2>2. \A q \in Processes \ {p} : ~Halfway(q) /\ ~Halfway(q)'
    <3>1. \A q \in Processes \ {p} : ~Halfway(q)
      BY <2>1 DEF Halfway, StatusSteps
    <3> QED
      BY <1>1, <3>1, HalfwayMoves
  <2>3. (Halfway(p)' <=> (r.at = "status" /\ r.i = 2)) /\ call'[p] = r
    BY <1>1, HalfwayMoves
  <2>4. CASE from = "status" /\ i = 1
    <3>1. Last(from) = 2
      BY <2>4, Consts DEF Last
    <3>2. r.at = "status" /\ r.i = 2 /\ r.black = c.black
      BY <1>1, <1>4, <2>4, <3>1 DEF Looped, SameScore
    <3>3. Halfway(p)'
      BY <2>3, <3>2
    <3>4. game_status'[1].pegs = call'[p].black
      BY <1>4, <1>5, <1>6, <2>3, <2>4, <3>2 DEF PegsOf
    <3> QED
      BY <2>2, <3>3, <3>4 DEF MixInv
  <2>5. CASE from = "status" /\ i = 2
    <3>1. Last(from) = 2
      BY <2>5, Consts DEF Last
    <3>2. r.at # "status"
      BY <1>1, <1>4, <2>5, <3>1, IdleCall DEF Looped
    <3>3. ~Halfway(p)'
      BY <2>3, <3>2
    <3>4. game_status[1].pegs = c.black
      BY <1>4, <2>1, <2>5 DEF MixInv, Halfway
    <3>5. game_status'[1].pegs = c.black /\ game_status'[2].pegs = c.white
      BY <1>4, <1>5, <1>6, <2>5, <3>4 DEF PegsOf
    <3>6. Shown' <= NUM_PEGS
      BY <1>8, <3>5 DEF Shown
    <3> QED
      BY <2>2, <3>3, <3>6 DEF MixInv
  <2>6. CASE from # "status"
    <3>1. ~Halfway(p)
      BY <1>4, <2>6 DEF Halfway
    <3>2. r.at # "status"
      BY <1>1, <1>4, <2>6, IdleCall DEF Looped
    <3>3. ~Halfway(p)'
      BY <2>3, <3>2
    <3>4. game_status[1].pegs + game_status[2].pegs <= NUM_PEGS
      BY <2>1, <2>2, <3>1 DEF MixInv, Shown
    <3>5. game_status'[i].pegs = 0
      BY <1>4, <1>5, <1>6, <2>6 DEF PegsOf
    <3>6. game_status'[1].pegs + game_status'[2].pegs <= NUM_PEGS
      <4>1. CASE i = 1
        <5>1. game_status'[1].pegs = 0 /\ game_status'[2].pegs = game_status[2].pegs
          BY <1>6, <3>5, <4>1
        <5> QED
          BY <1>9, <3>4, <5>1, Consts
      <4>2. CASE i = 2
        <5>1. game_status'[2].pegs = 0 /\ game_status'[1].pegs = game_status[1].pegs
          BY <1>6, <3>5, <4>2
        <5> QED
          BY <1>9, <3>4, <5>1, Consts
      <4> QED
        BY <1>5, <4>1, <4>2
    <3> QED
      BY <2>2, <3>3, <3>6 DEF MixInv, Shown
  <2> QED
    BY <1>5, <2>4, <2>5, <2>6
<1> QED
  BY <1>2, <1>7, <1>10 DEF MixInv

LEMMA LogShown ==
  ASSUME ShownInv, NEW k \in 1..LogSize, NEW v \in Cells,
         user_view' = [user_view EXCEPT ![k] = v],
         UNCHANGED <<num_guesses, target_code, game_status>>
  PROVE  ShownInv'
  BY DEF ShownInv

LEMMA CodeShown ==
  ASSUME CallInv, ShownInv, NEW t \in Threads, CodePeg(t)
  PROVE  ShownInv'
<1> DEFINE i == call[t].i
<1>1. call[t] \in Call /\ ScoreInv(call[t]) /\ call[t].at = "code"
  BY Member, ThreadIs DEF CodePeg, Step, Moves
<1>2. i \in Pegs
  BY <1>1 DEF ScoreInv, Last, Pegs
<1>3. PICK d \in (IF RandomCode THEN Digits ELSE {FixedCode[i]}) :
        target_code' = [target_code EXCEPT ![i] = d]
  BY DEF CodePeg
<1>4. \A p \in Pegs : FixedCode[p] \in 0..5
  BY DEF FixedCode, Pegs, NUM_PEGS
<1>5. d \in 0..5
  BY <1>2, <1>3, <1>4, ModeAssumption
<1>6. target_code' \in [Pegs -> 0..5]
  BY <1>2, <1>3, <1>5 DEF ShownInv
<1> QED
  BY <1>6 DEF CodePeg, ShownInv

LEMMA ScoredInit == Init => ScoredInv /\ MixInv
<1> SUFFICES ASSUME Init PROVE ScoredInv /\ MixInv
  OBVIOUS
<1>1. CallInv /\ \A p \in Processes : ~Halfway(p)
  <2>1. call = [p \in Processes |-> Idle]
    BY DEF Init
  <2> QED
    BY <2>1, IdleCall DEF CallInv, Halfway
<1>2. /\ game_status = Blank /\ user_view = [k \in 1..LogSize |-> NUL] /\ num_guesses = 0
      /\ target_code = [p \in Pegs |-> 0] /\ overlapped = FALSE /\ mixed = FALSE
  BY DEF Init
<1>3. Blank = [k \in 1..StatusSize |-> NUL]
  BY DEF Blank, Message, NUL
<1>4. ShownInv
  BY <1>2, <1>3, CellIs DEF ShownInv
<1>5. Shown <= NUM_PEGS
  <2>1. game_status[1] = NUL /\ game_status[2] = NUL
    BY <1>2, BlankIs
  <2>2. game_status[1].pegs = 0 /\ game_status[2].pegs = 0
    BY <2>1, NulIs
  <2> QED
    BY <2>2, Consts DEF Shown
<1> QED
  BY <1>1, <1>2, <1>4, <1>5 DEF ScoredInv, MixInv

(* What insmod does, in the order of a start.                              *)
InsmodSets == BlankStatus(Insmod) \/ ClearView(Insmod) \/ SayNoGameYet

LEMMA BlankScore ==
  ASSUME CallInv, ShownInv, MixInv, NEW p \in Processes, BlankStatus(p)
  PROVE  CallInv' /\ ShownInv' /\ MixInv'
<1>1. Last("blank") = 2 /\ "blank" \in StatusSteps /\ "clear" \in Steps /\ call[p].at = "blank"
  BY Consts DEF Last, StatusSteps, Steps, CtlSteps, BlankStatus, SetCell, Moves
<1>2. \A i \in 1..2 : Blank[i] \in Cells /\ Blank[i].pegs = PegsOf(call[p], i)
  BY <1>1, BlankIs, NulIs DEF PegsOf
<1>3. SetCell(p, "blank", Blank, "clear") /\ "blank" \notin Scoring
  BY DEF BlankStatus, Scoring
<1>4. "clear" \in Steps \ {"black", "white", "append", "status"}
  BY <1>1
<1> QED
  BY <1>1, <1>2, <1>3, <1>4, BlankIs, SetScore

LEMMA ClearScore ==
  ASSUME CallInv, ShownInv, MixInv, NEW p \in Processes, ClearView(p)
  PROVE  CallInv' /\ ShownInv' /\ MixInv'
<1>1. /\ Moves(p, "clear", Advance(call[p], Last("clear"), "say")) /\ call[p].at = "clear"
      /\ user_view' = [user_view EXCEPT ![call[p].i] = NUL]
      /\ UNCHANGED <<num_guesses, target_code, game_status, mixed>>
  BY DEF ClearView, Step, Moves, Last
<1>2. PICK r : Fits(p, "clear", r) /\ Looped(call[p], r, "say")
  BY <1>1, LoopFits DEF Scoring, Steps, CtlSteps
<1>3. call[p].i \in 1..LogSize
  BY <1>1, <1>2, Consts DEF Fits, ScoreInv, Last
<1>4. ShownInv'
  BY <1>1, <1>3, CellIs, LogShown
<1>5. r.at # "status"
  BY <1>1, <1>2 DEF Looped
<1>6. CallInv' /\ MixInv'
  BY <1>1, <1>2, <1>5, Fitting, MixKeeps
<1> QED
  BY <1>4, <1>6

LEMMA SayScore ==
  ASSUME CallInv, ShownInv, MixInv, NEW p \in Processes,
         NEW kind \in {"StartingGame", "NoGameYet"}, NEW to \in {"code", "idle"},
         SetCell(p, "say", Message(kind, 1), to)
  PROVE  CallInv' /\ ShownInv' /\ MixInv'
<1>1. /\ Last("say") = 1 /\ "say" \in StatusSteps /\ call[p].at = "say"
      /\ to \in Steps \ {"black", "white", "append", "status"}
  BY DEF Last, StatusSteps, Steps, CtlSteps, SetCell, Moves
<1>2. Len(Message(kind, 1)) = 1 /\ Message(kind, 1)[1] = Cell(kind, 0, 0)
  BY MessageIs
<1>3. \A i \in 1..1 : Message(kind, 1)[i] \in Cells /\ Message(kind, 1)[i].pegs = PegsOf(call[p], i)
  BY <1>1, <1>2, CellIs DEF PegsOf
<1> QED
  BY <1>1, <1>2, <1>3, SetScore DEF Scoring

LEMMA InsmodScore ==
  ASSUME CallInv, ShownInv, MixInv, InsmodSets
  PROVE  CallInv' /\ ShownInv' /\ MixInv'
  BY BlankScore, ClearScore, SayScore, ThreadIs DEF InsmodSets, SayNoGameYet

(* The steps of init and exit.                                             *)
LEMMA LoadScore ==
  ASSUME CallInv, ShownInv, MixInv, Load \/ Unload
  PROVE  CallInv' /\ ShownInv' /\ MixInv'
<1>1. CASE InsmodSets
  BY <1>1, InsmodScore
<1>2. CASE InitSet
  <2>1. PICK r : r = [Idle EXCEPT !.at = "blank"]
    OBVIOUS
  <2>2. /\ call' = [call EXCEPT ![Insmod] = r]
        /\ UNCHANGED <<num_guesses, target_code, game_status, user_view, mixed>>
        /\ call[Insmod].at = "idle"
    BY <1>2, <2>1 DEF InitSet, ModuleGo
  <2>3. r \in Call /\ r.at = "blank" /\ r.i = 1 /\ SameScore(Idle, r)
    BY <2>1, IdleCall DEF Call, Steps, CtlSteps, SameScore
  <2>4. ScoreInv(r)
    BY <2>3, IdleCall, Onward DEF Scoring
  <2>5. Fits(Insmod, "idle", r)
    BY <2>2, <2>3, <2>4, Member, ThreadIs DEF Fits
  <2>6. CallInv' /\ MixInv'
    BY <2>2, <2>3, <2>5, ThreadIs, Fitting, MixKeeps
  <2> QED
    BY <2>2, <2>6 DEF ShownInv
<1>3. CASE InitAlloc
  <2>1. UNCHANGED <<num_guesses, target_code, game_status, mixed, call>>
    BY <1>3 DEF InitAlloc, ModuleGo
  <2>2. user_view' \in [1..LogSize -> Cells]
    BY <1>3, CellIs DEF InitAlloc, ShownInv
  <2> QED
    BY <2>1, <2>2 DEF CallInv, ShownInv, MixInv, Halfway, Shown
<1>4. CASE ~InsmodSets /\ ~InitSet /\ ~InitAlloc
  <2>1. UNCHANGED <<num_guesses, target_code, game_status, user_view, mixed, call>>
    BY <1>4 DEF Load, Unload, InitMm, InitCtl, InitDone, FailCtl, FailMm, InsmodSets,
                ExitFree, ExitMm, ExitCtl, Register, Deregister, ModuleGo
  <2> QED
    BY <2>1 DEF CallInv, ShownInv, MixInv, Halfway, Shown
<1> QED
  BY <1>1, <1>2, <1>3, <1>4

(* A step that leaves the status alone keeps all three.                    *)
LEMMA CalmScore ==
  ASSUME CallInv, MixInv, NEW p \in Processes, NEW from, NEW r, Fits(p, from, r),
         from # "status", r.at # "status" \/ r.i = 1, UNCHANGED <<game_status, mixed>>, ShownInv'
  PROVE  CallInv' /\ ShownInv' /\ MixInv'
  BY Fitting, MixKeeps

LEMMA ReturnScore ==
  ASSUME CallInv, MixInv, NEW p \in Processes, NEW from, Goto(p, from, "idle"),
         from # "status", UNCHANGED game_status, ShownInv'
  PROVE  CallInv' /\ ShownInv' /\ MixInv'
<1>1. Fits(p, from, Idle) /\ UNCHANGED mixed /\ Idle.at # "status"
  BY ReturnFits, IdleCall DEF Goto, Step
<1> QED
  BY <1>1, CalmScore

LEMMA GotoScore ==
  ASSUME CallInv, MixInv, NEW p \in Processes, NEW from \in Steps, NEW to \in Steps \ {"idle"},
         to \notin {"white", "append"}, to \notin Scoring \ {"black"} => from \notin Scoring,
         Goto(p, from, to), from # "status", UNCHANGED game_status, ShownInv'
  PROVE  CallInv' /\ ShownInv' /\ MixInv'
<1>1. PICK r : Fits(p, from, r) /\ r.i = 1
  BY GotoFits
<1>2. UNCHANGED mixed
  BY DEF Goto, Step
<1> QED
  BY <1>1, <1>2, CalmScore

LEMMA ReadScore ==
  ASSUME CallInv, ShownInv, MixInv, NEW p \in Processes, NEW from \in Steps \ {"status"},
         NEW to \in {"counted", "status", "end"},
         to = "counted" => from \notin Scoring, ReadCount(p, from, to)
  PROVE  CallInv' /\ ShownInv' /\ MixInv'
<1>1. PICK r : Fits(p, from, r) /\ r.i = 1
  BY ReadFits
<1>2. UNCHANGED <<game_status, mixed>> /\ ShownInv'
  BY DEF ReadCount, Step, gameVars, ShownInv
<1> QED
  BY <1>1, <1>2, CalmScore

LEMMA EnterScore ==
  ASSUME CallInv, ShownInv, MixInv, NEW t \in Threads,
         EnterCtl(t) \/ \E guess \in Guesses : EnterWrite(t, guess)
  PROVE  CallInv' /\ ShownInv' /\ MixInv'
<1>1. PICK r : Fits(t, "idle", r) /\ r.at # "status"
  BY EnterFits
<1>2. UNCHANGED <<game_status, mixed>> /\ ShownInv'
  BY DEF EnterCtl, EnterWrite, Enter, gameVars, ShownInv
<1> QED
  BY <1>1, <1>2, CalmScore, ThreadIs

LEMMA PegScore ==
  ASSUME CallInv, ShownInv, MixInv, NEW t \in Threads, BlackPeg(t) \/ WhitePeg(t)
  PROVE  CallInv' /\ ShownInv' /\ MixInv'
<1>1. PICK r, from : Fits(t, from, r) /\ from \in {"black", "white"}
                     /\ r.at \in {"black", "white", "args"}
  BY BlackFits, WhiteFits
<1>2. UNCHANGED <<game_status, mixed>> /\ ShownInv'
  BY DEF BlackPeg, WhitePeg, Step, gameVars, ShownInv
<1> QED
  BY <1>1, <1>2, CalmScore, ThreadIs

LEMMA GuessScore ==
  ASSUME CallInv, ShownInv, MixInv, NEW t \in Threads, SayGuess(t)
  PROVE  CallInv' /\ ShownInv' /\ MixInv'
<1>1. PICK g : g = Guess(call[t])
  OBVIOUS
<1>2. call[t] \in Call /\ ScoreInv(call[t]) /\ call[t].at = "status"
  BY Member, ThreadIs DEF SayGuess, SetCell, Moves
<1>3. /\ Len(g) = 2 /\ g[1] = Cell("black", call[t].n, call[t].black)
      /\ g[2] = Cell("white", 0, call[t].white)
  BY <1>1, Texts
<1>4. call[t].n \in Nat /\ call[t].black \in Nat /\ call[t].white \in Nat
  BY <1>2 DEF Call
<1>5. \A i \in 1..2 : g[i] \in Cells /\ g[i].pegs = PegsOf(call[t], i)
  <2>1. g[1] \in Cells /\ g[1].pegs = call[t].black
    BY <1>3, <1>4, CellIs
  <2>2. g[2] \in Cells /\ g[2].pegs = call[t].white
    BY <1>3, <1>4, CellIs
  <2> QED
    BY <1>2, <2>1, <2>2 DEF PegsOf
<1>6. /\ Last("status") = 2 /\ "status" \in StatusSteps
      /\ "logargs" \in Steps \ {"black", "white", "append", "status"}
      /\ "logargs" \in Scoring
  BY Consts DEF Last, StatusSteps, Steps, WriteSteps, Scoring
<1>7. SetCell(t, "status", g, "logargs")
  BY <1>1 DEF SayGuess
<1> QED
  BY <1>3, <1>5, <1>6, <1>7, SetScore, ThreadIs

LEMMA LineIs ==
  ASSUME NEW c
  PROVE  /\ Len(Append(Guess(c), NUL)) = 3 /\ Append(Guess(c), NUL)[3] = NUL
         /\ Append(Guess(c), NUL)[1] = Cell("black", c.n, c.black)
         /\ Append(Guess(c), NUL)[2] = Cell("white", 0, c.white)
<1>1. /\ \A i \in 1..2 : Append(Guess(c), NUL)[i] = Guess(c)[i]
      /\ Guess(c)[1] = Cell("black", c.n, c.black) /\ Guess(c)[2] = Cell("white", 0, c.white)
      /\ Len(Append(Guess(c), NUL)) = 3 /\ Append(Guess(c), NUL)[3] = NUL
  BY ONLY Texts
<1> QED
  BY <1>1

LEMMA AppendIs ==
  ASSUME CallInv, NEW t \in Threads, AppendLine(t)
  PROVE  /\ call[t] \in Call /\ ScoreInv(call[t]) /\ call[t].at = "append"
         /\ call[t].i \in 1..3 /\ call[t].end + call[t].i \in 1..LogSize
         /\ user_view' = [user_view EXCEPT ![call[t].end + call[t].i] =
                            Append(Guess(call[t]), NUL)[call[t].i]]
         /\ Append(Guess(call[t]), NUL)[call[t].i] \in Cells
         /\ \E r : Fits(t, "append", r) /\ Looped(call[t], r, "idle")
<1>1. call[t] \in Call /\ ScoreInv(call[t]) /\ call[t].at = "append" /\ Last("append") = 3
  BY Member, ThreadIs DEF AppendLine, Step, Moves, Last
<1>2. call[t].i \in 1..3 /\ call[t].end + 3 <= LogSize /\ call[t].end \in Nat
  BY <1>1 DEF ScoreInv, Call
<1>3. call[t].end + call[t].i \in 1..LogSize
  BY <1>2, Consts
<1>4. user_view' = [user_view EXCEPT ![call[t].end + call[t].i] =
                            Append(Guess(call[t]), NUL)[call[t].i]]
  BY DEF AppendLine
<1>5. PICK g : g = Append(Guess(call[t]), NUL)
  OBVIOUS
<1>6. /\ Len(g) = 3 /\ g[3] = NUL /\ g[1] = Cell("black", call[t].n, call[t].black)
      /\ g[2] = Cell("white", 0, call[t].white)
  BY <1>5, LineIs
<1>7. call[t].n \in Nat /\ call[t].black \in Nat /\ call[t].white \in Nat
  BY <1>1 DEF Call
<1>8. g[1] \in Cells /\ g[2] \in Cells /\ g[3] \in Cells
  BY <1>6, <1>7, CellIs
<1>9. Moves(t, "append", Advance(call[t], Last("append"), "idle"))
  BY <1>1, <1>5, <1>6 DEF AppendLine, Step
<1>10. \E r : Fits(t, "append", r) /\ Looped(call[t], r, "idle")
  BY <1>9, LoopFits, ThreadIs DEF Steps, WriteSteps
<1>11. Append(Guess(call[t]), NUL)[call[t].i] \in Cells
  <2>1. g[call[t].i] \in Cells
    BY <1>2, <1>8
  <2> QED
    BY <1>5, <2>1
<1> QED
  BY <1>1, <1>2, <1>3, <1>4, <1>10, <1>11

LEMMA AppendScore ==
  ASSUME CallInv, ShownInv, MixInv, NEW t \in Threads, AppendLine(t)
  PROVE  CallInv' /\ ShownInv' /\ MixInv'
<1>1. PICK r : Fits(t, "append", r) /\ Looped(call[t], r, "idle")
  BY AppendIs
<1>2. UNCHANGED <<num_guesses, target_code, game_status, mixed>>
  BY DEF AppendLine, Step
<1>3. ShownInv'
  BY <1>2, AppendIs, LogShown
<1>4. r.at # "status"
  BY <1>1, IdleCall, AppendIs DEF Looped
<1> QED
  BY <1>1, <1>2, <1>3, <1>4, CalmScore, ThreadIs

LEMMA WriteScore ==
  ASSUME CallInv, ShownInv, MixInv, NEW t \in Threads, Write(t)
  PROVE  CallInv' /\ ShownInv' /\ MixInv'
<1> USE ThreadIs
<1>1. CASE \E guess \in Guesses : EnterWrite(t, guess)
  BY <1>1, EnterScore
<1>2. CASE Refuse(t)
  <2>1. ShownInv' /\ UNCHANGED game_status
    BY <1>2 DEF Refuse, gameVars, ShownInv
  <2> QED
    BY <1>2, <2>1, ReturnScore DEF Refuse
<1>3. CASE Check(t)
  <2>1. ShownInv' /\ UNCHANGED game_status
    BY <1>3 DEF Check, gameVars, ShownInv
  <2> QED
    BY <1>3, <2>1, GotoScore DEF Check, Steps, WriteSteps, Scoring
<1>4. CASE CountRead(t)
  BY <1>4, ReadScore DEF CountRead, Steps, WriteSteps, Scoring
<1>5. CASE CountWrite(t)
  <2>1. call[t].n \in Nat
    BY Member DEF Call
  <2>2. ShownInv' /\ UNCHANGED game_status
    BY <1>5, <2>1 DEF CountWrite, ShownInv
  <2> QED
    BY <1>5, <2>2, GotoScore DEF CountWrite, Steps, WriteSteps, Scoring
<1>6. CASE BlackPeg(t) \/ WhitePeg(t)
  BY <1>6, PegScore
<1>7. CASE StatusArgs(t) \/ LogArgs(t)
  BY <1>7, ReadScore DEF StatusArgs, LogArgs, Steps, WriteSteps
<1>8. CASE SayGuess(t)
  BY <1>8, GuessScore
<1>9. CASE FindEnd(t)
  <2>1. PICK r : Fits(t, "end", r) /\ r.at \in {"append", "end"}
    BY <1>9, EndFits
  <2>2. ShownInv' /\ UNCHANGED <<game_status, mixed>>
    BY <1>9 DEF FindEnd, Step, gameVars, ShownInv
  <2> QED
    BY <2>1, <2>2, CalmScore
<1>10. CASE AppendLine(t)
  BY <1>10, AppendScore
<1> QED
  BY <1>1, <1>2, <1>3, <1>4, <1>5, <1>6, <1>7, <1>8, <1>9, <1>10 DEF Write

LEMMA CtlScore ==
  ASSUME CallInv, ShownInv, MixInv, NEW t \in Threads, Ctl(t)
  PROVE  CallInv' /\ ShownInv' /\ MixInv'
<1> USE ThreadIs
<1>1. CASE EnterCtl(t)
  BY <1>1, EnterScore
<1>2. CASE CtlRefuse(t) \/ QuitNothing(t)
  <2>1. ShownInv' /\ UNCHANGED game_status
    BY <1>2 DEF CtlRefuse, QuitNothing, gameVars, ShownInv
  <2> QED
    BY <1>2, <2>1, ReturnScore DEF CtlRefuse, QuitNothing
<1>3. CASE Activate(t)
  <2>1. ShownInv' /\ UNCHANGED game_status
    BY <1>3 DEF Activate, ShownInv
  <2> QED
    BY <1>3, <2>1, GotoScore DEF Activate, Steps, CtlSteps, Scoring
<1>4. CASE ZeroGuesses(t)
  <2>1. ShownInv' /\ UNCHANGED game_status
    BY <1>4 DEF ZeroGuesses, ShownInv
  <2> QED
    BY <1>4, <2>1, GotoScore DEF ZeroGuesses, Steps, CtlSteps, Scoring
<1>5. CASE BlankStatus(t)
  BY <1>5, BlankScore
<1>6. CASE ClearView(t)
  BY <1>6, ClearScore
<1>7. CASE SayStart(t)
  BY <1>7, SayScore DEF SayStart
<1>8. CASE CodePeg(t)
  <2>1. /\ Moves(t, "code", Advance(call[t], Last("code"), "idle"))
        /\ UNCHANGED <<game_status, mixed>>
    BY <1>8 DEF CodePeg, Step, Last
  <2>2. PICK r : Fits(t, "code", r) /\ Looped(call[t], r, "idle")
    BY <2>1, LoopFits DEF Steps, CtlSteps
  <2>3. r.at # "status"
    BY <2>1, <2>2, IdleCall DEF Looped, Moves
  <2> QED
    BY <1>8, <2>1, <2>2, <2>3, CodeShown, CalmScore
<1>9. CASE Quit(t)
  <2>1. ShownInv' /\ UNCHANGED game_status
    BY <1>9 DEF Quit, gameVars, ShownInv
  <2> QED
    BY <1>9, <2>1, GotoScore DEF Quit, Steps, CtlSteps, Scoring
<1>10. CASE SayOver(t)
  <2>1. /\ Last("over") = 2 /\ "over" \in StatusSteps /\ call[t].at = "over"
        /\ "stop" \in Steps \ {"black", "white", "append", "status"} /\ "over" \notin Scoring
    BY <1>10, Consts DEF Last, StatusSteps, Steps, CtlSteps, Scoring, SayOver, SetCell, Moves
  <2>2. PICK text : text = Message("GameOver", 2)
    OBVIOUS
  <2>3. Len(text) = 2 /\ \A i \in 1..2 : text[i] = Cell("GameOver", 0, 0)
    <3>1. Len(text) = 2 /\ text[1] = Cell("GameOver", 0, 0) /\ text[2] = Cell("GameOver", 0, 0)
      BY <2>2, MessageIs
    <3> QED
      BY <3>1
  <2>4. \A i \in 1..2 : text[i] \in Cells /\ text[i].pegs = PegsOf(call[t], i)
    BY <2>1, <2>3, CellIs DEF PegsOf
  <2>5. SetCell(t, "over", text, "stop")
    BY <1>10, <2>2, Consts DEF SayOver
  <2> QED
    BY <2>1, <2>3, <2>4, <2>5, SetScore
<1>11. CASE Deactivate(t)
  <2>1. ShownInv' /\ UNCHANGED game_status
    BY <1>11 DEF Deactivate, ShownInv
  <2> QED
    BY <1>11, <2>1, ReturnScore DEF Deactivate
<1> QED
  BY <1>1, <1>2, <1>3, <1>4, <1>5, <1>6, <1>7, <1>8, <1>9, <1>10, <1>11 DEF Ctl

(* The two histories are Booleans.                                         *)
Histories == overlapped \in BOOLEAN /\ mixed \in BOOLEAN

LEMMA CellHistory ==
  ASSUME Histories, NEW p, NEW from, NEW text, NEW to, SetCell(p, from, text, to)
  PROVE  Histories'
  BY DEF Histories, SetCell, Moves

LEMMA StepHistory ==
  ASSUME Histories, NEW p, NEW from, NEW r, Step(p, from, r)
  PROVE  Histories'
  BY DEF Histories, Step, Moves

LEMMA HistoryStep ==
  ASSUME Histories, Next
  PROVE  Histories'
<1>1. CASE InsmodSets
  BY <1>1, CellHistory, StepHistory DEF InsmodSets, BlankStatus, ClearView, SayNoGameYet
<1>2. CASE (Load \/ Unload) /\ ~InsmodSets
  BY <1>2 DEF Load, Unload, InsmodSets, InitAlloc, InitMm, InitCtl, InitSet, InitDone, FailCtl,
              FailMm, ExitFree, ExitMm, ExitCtl, Register, Deregister, ModuleGo, Histories
<1>3. ASSUME NEW t \in Threads, Write(t) PROVE Histories'
  <2>1. CASE \E guess \in Guesses : EnterWrite(t, guess)
    BY <2>1 DEF EnterWrite, Enter, Histories
  <2>2. CASE SayGuess(t)
    BY <2>2, CellHistory DEF SayGuess
  <2>3. CASE BlackPeg(t) \/ WhitePeg(t) \/ FindEnd(t) \/ AppendLine(t)
    BY <2>3, StepHistory DEF BlackPeg, WhitePeg, FindEnd, AppendLine
  <2>4. CASE Refuse(t) \/ Check(t) \/ CountRead(t) \/ CountWrite(t) \/ StatusArgs(t) \/ LogArgs(t)
    BY <2>4, StepHistory DEF Refuse, Check, CountRead, CountWrite, StatusArgs, LogArgs,
                             ReadCount, Goto
  <2> QED
    BY <1>3, <2>1, <2>2, <2>3, <2>4 DEF Write
<1>4. ASSUME NEW t \in Threads, Ctl(t) PROVE Histories'
  <2>1. CASE EnterCtl(t)
    BY <2>1 DEF EnterCtl, Enter, Histories
  <2>2. CASE BlankStatus(t) \/ SayStart(t) \/ SayOver(t)
    BY <2>2, CellHistory DEF BlankStatus, SayStart, SayOver
  <2>3. CASE ClearView(t) \/ CodePeg(t)
    BY <2>3, StepHistory DEF ClearView, CodePeg
  <2>4. CASE CtlRefuse(t) \/ Activate(t) \/ ZeroGuesses(t) \/ QuitNothing(t) \/ Quit(t)
             \/ Deactivate(t)
    BY <2>4, StepHistory DEF CtlRefuse, Activate, ZeroGuesses, QuitNothing, Quit, Deactivate, Goto
  <2> QED
    BY <1>4, <2>1, <2>2, <2>3, <2>4 DEF Ctl
<1>5. ASSUME NEW t \in Threads, NEW dev, Open(t, dev) PROVE Histories'
  BY <1>5 DEF Open, Histories
<1> QED
  BY <1>1, <1>2, <1>3, <1>4, <1>5 DEF Next

LEMMA ScoredStep == ScoredInv /\ MixInv /\ [Next]_vars => (ScoredInv /\ MixInv)'
<1> SUFFICES ASSUME ScoredInv, MixInv, [Next]_vars PROVE (ScoredInv /\ MixInv)'
  OBVIOUS
<1>0. CallInv /\ ShownInv /\ Histories
  BY DEF ScoredInv, Histories
<1>1. CASE UNCHANGED vars
  <2>1. Histories' /\ CallInv' /\ ShownInv'
    BY <1>0, <1>1 DEF vars, gameVars, Histories, CallInv, ShownInv
  <2>2. MixInv'
    BY <1>1 DEF vars, gameVars, MixInv, Halfway, Shown
  <2> QED
    BY <2>1, <2>2 DEF ScoredInv, Histories
<1>2. CASE Next
  <2>1. Histories'
    BY <1>0, <1>2, HistoryStep
  <2>2. ASSUME NEW t \in Threads, NEW dev, Open(t, dev)
        PROVE  CallInv' /\ ShownInv' /\ MixInv'
    BY <1>0, <2>2 DEF Open, gameVars, CallInv, ShownInv, MixInv, Halfway, Shown
  <2>3. CallInv' /\ ShownInv' /\ MixInv'
    BY <1>0, <1>2, <2>2, LoadScore, WriteScore, CtlScore DEF Next
  <2> QED
    BY <2>1, <2>3 DEF ScoredInv, Histories
<1> QED
  BY <1>1, <1>2

(* The invariant: every call has counted as many pegs as it has marked,    *)
(* and a status that one process wrote alone shows the score of one call.  *)
THEOREM Scored == Spec => [](ScoredInv /\ MixInv)
<1> QED
  BY ScoredInit, ScoredStep, PTL DEF Spec

LEMMA InsmodShown == LoadInv => ~Halfway(Insmod) /\ call[Insmod].at # "status"
  BY DEF LoadInv, InsmodInv, Halfway

-----------------------------------------------------------------------------
(***************************************************************************)
(* Loading and unloading.                                                  *)
(***************************************************************************)
LEMMA LoadInit == Init => LoadInv
  BY IdleCall, ThreadIs DEF Init, LoadInv, ModuleInv, Stages, Gone, OpenInv, ActiveInv, InsmodInv

(* Each stage of init and exit leaves what the next one relies on.         *)
LEMMA ModuleStep ==
  ASSUME LoadInv, Load \/ Unload, ~InsmodSets
  PROVE  /\ ModuleInv' /\ (module \in Registered => module' \in Registered)
         /\ module' = "setting" => module = "finish" /\ InitSet
         /\ module = "setting" => InitDone
         /\ UNCHANGED <<game_active, opened>>
<1> USE DEF LoadInv, ModuleInv, Stages, Registered, Gone, ModuleGo
<1>1. CASE InitAlloc
  BY <1>1 DEF InitAlloc
<1>2. CASE InitMm
  BY <1>2 DEF InitMm, Register
<1>3. CASE InitCtl
  BY <1>3 DEF InitCtl, Register
<1>4. CASE InitSet
  BY <1>4 DEF InitSet
<1>5. CASE InitDone
  BY <1>5 DEF InitDone
<1>6. CASE FailCtl
  BY <1>6 DEF FailCtl, Deregister
<1>7. CASE FailMm
  BY <1>7 DEF FailMm, Deregister
<1>8. CASE ExitFree
  BY <1>8 DEF ExitFree
<1>9. CASE ExitMm
  BY <1>9 DEF ExitMm, Deregister
<1>10. CASE ExitCtl
  BY <1>10 DEF ExitCtl, Deregister
<1> QED
  BY <1>1, <1>2, <1>3, <1>4, <1>5, <1>6, <1>7, <1>8, <1>9, <1>10 DEF Load, Unload, InsmodSets

LEMMA LoadLoad ==
  ASSUME CallInv, LoadInv, Load \/ Unload, ~InsmodSets
  PROVE  LoadInv'
<1>1. /\ ModuleInv' /\ (module \in Registered => module' \in Registered)
      /\ UNCHANGED <<game_active, opened>>
      /\ module' = "setting" => module = "finish" /\ InitSet
      /\ module = "setting" => InitDone
  BY ModuleStep
<1>2. OpenInv'
  BY <1>1 DEF LoadInv, OpenInv
<1>3. CASE InitSet
  <2>1. PICK r : r = [Idle EXCEPT !.at = "blank"]
    OBVIOUS
  <2>2. r.at = "blank"
    BY <2>1, IdleCall DEF Call
  <2>3. call' = [call EXCEPT ![Insmod] = r] /\ module' = "setting" /\ module = "finish"
    BY <1>3, <2>1 DEF InitSet, ModuleGo
  <2>4. \A q \in Processes : call'[q] = IF q = Insmod THEN r ELSE call[q]
    BY <2>3 DEF CallInv
  <2>5. InsmodInv'
    BY <2>2, <2>3, <2>4, ThreadIs DEF InsmodInv
  <2>6. ActiveInv'
    BY <1>1, <2>3, <2>4 DEF LoadInv, ActiveInv, Registered
  <2> QED
    BY <1>1, <1>2, <2>5, <2>6 DEF LoadInv
<1>4. CASE ~InitSet
  <2>1. UNCHANGED call
    BY <1>4 DEF Load, Unload, InitAlloc, InitMm, InitCtl, InitDone, FailCtl, FailMm,
           ExitFree, ExitMm, ExitCtl, Register, Deregister, InsmodSets
  <2>2. ActiveInv'
    BY <1>1, <2>1 DEF LoadInv, ActiveInv
  <2>3. InsmodInv'
    <3>1. CASE InitDone
      <4>1. call[Insmod].at = "idle"
        BY <3>1 DEF InitDone
      <4> QED
        BY <2>1, <4>1 DEF InsmodInv
    <3>2. CASE ~InitDone
      BY <1>1, <2>1, <3>2 DEF LoadInv, InsmodInv
    <3> QED
      BY <3>1, <3>2
  <2> QED
    BY <1>1, <1>2, <2>2, <2>3 DEF LoadInv
<1> QED
  BY <1>3, <1>4

LEMMA OpenLoad ==
  ASSUME LoadInv, NEW t \in Threads, NEW dev \in {"mm", "mm_ctl"}, Open(t, dev)
  PROVE  LoadInv'
<1>1. dev = "mm_ctl" => module \in Registered
  BY DEF Open, LoadInv, ModuleInv
<1>2. opened' = [opened EXCEPT ![t] = opened[t] \cup {dev}]
      /\ UNCHANGED <<game_active, call, devices, allocated, module>>
  BY DEF Open, gameVars, moduleVars
<1>3. OpenInv'
  BY <1>1, <1>2 DEF LoadInv, OpenInv
<1> QED
  BY <1>2, <1>3 DEF LoadInv, ModuleInv, ActiveInv, InsmodInv

(* A call that does not enter: only one that is past the first test makes  *)
(* a game active, and only an active game lets it get there.               *)
LEMMA CallLoad ==
  ASSUME CallInv, LoadInv, NEW p \in Processes, NEW r,
         call' = [call EXCEPT ![p] = r],
         UNCHANGED moduleVars, UNCHANGED opened,
         game_active' \in BOOLEAN,
         game_active' => module \in Registered,
         r.at \notin {"idle", "check"} => module \in Registered,
         p = Insmod => r.at \in {"idle", "clear", "blank", "say"} /\ module = "setting"
  PROVE  LoadInv'
<1>1. \A q \in Processes : call'[q] = IF q = p THEN r ELSE call[q]
  BY DEF CallInv
<1>2. \A u \in Processes : call'[u].at \notin {"idle", "check"} => module \in Registered
  BY <1>1 DEF LoadInv, ActiveInv
<1>3. ActiveInv'
  BY <1>2 DEF ActiveInv, moduleVars
<1>4. InsmodInv'
  BY <1>1, ThreadIs DEF LoadInv, InsmodInv, moduleVars
<1> QED
  BY <1>3, <1>4 DEF LoadInv, ModuleInv, OpenInv, moduleVars

LEMMA EnterLoad ==
  ASSUME CallInv, LoadInv, NEW t \in Threads,
         EnterCtl(t) \/ \E guess \in Guesses : EnterWrite(t, guess)
  PROVE  LoadInv'
<1>1. PICK r : Fits(t, "idle", r) /\ (r.at = "check" \/ (r.at = "command" /\ EnterCtl(t)))
  BY EnterFits
<1>2. UNCHANGED moduleVars /\ UNCHANGED opened /\ UNCHANGED game_active
  BY DEF EnterCtl, EnterWrite, Enter, gameVars
<1>3. r.at = "command" => module \in Registered
  BY <1>1 DEF EnterCtl, Enter, LoadInv, OpenInv
<1>4. call' = [call EXCEPT ![t] = r]
  BY <1>1 DEF Fits
<1> QED
  BY <1>1, <1>2, <1>3, <1>4, ThreadIs, CallLoad DEF LoadInv, ActiveInv

(* Any other step of a call.                                               *)
LEMMA StepLoad ==
  ASSUME CallInv, LoadInv, NEW t \in Threads, NEW from, NEW r, Moves(t, from, r),
         \/ from \notin {"idle", "check"}
         \/ r.at = "idle"
         \/ game_active,
         game_active' \in BOOLEAN,
         game_active' => game_active \/ from \notin {"idle", "check"}
  PROVE  LoadInv'
<1>1. call' = [call EXCEPT ![t] = r] /\ UNCHANGED moduleVars /\ UNCHANGED opened
  BY DEF Moves
<1>2. from \notin {"idle", "check"} => module \in Registered
  BY ThreadIs DEF Moves, LoadInv, ActiveInv
<1>3. game_active => module \in Registered
  BY DEF LoadInv, ActiveInv
<1>4. game_active' => module \in Registered
  BY <1>2, <1>3
<1>5. r.at \notin {"idle", "check"} => module \in Registered
  BY <1>2, <1>3
<1> QED
  BY <1>1, <1>4, <1>5, ThreadIs, CallLoad

LEMMA ReturnLoad ==
  ASSUME CallInv, LoadInv, NEW t \in Threads, NEW from, Goto(t, from, "idle"),
         game_active' \in BOOLEAN, game_active' => game_active
  PROVE  LoadInv'
<1>1. Moves(t, from, Idle)
  BY AtIdle DEF Goto, Step
<1> QED
  BY <1>1, StepLoad, IdleCall

LEMMA WriteLoad ==
  ASSUME CallInv, LoadInv, NEW t \in Threads, Write(t)
  PROVE  LoadInv'
<1>1. CASE \E guess \in Guesses : EnterWrite(t, guess)
  BY <1>1, EnterLoad
<1>2. game_active \in BOOLEAN
  BY DEF LoadInv, ActiveInv
<1>3. CASE Refuse(t)
  BY <1>2, <1>3, ReturnLoad DEF Refuse, gameVars
<1>4. CASE Check(t)
  BY <1>2, <1>4, StepLoad DEF Check, Goto, Step, gameVars
<1>5. CASE CountRead(t) \/ StatusArgs(t) \/ LogArgs(t)
  BY <1>2, <1>5, StepLoad DEF CountRead, StatusArgs, LogArgs, ReadCount, Step, gameVars
<1>6. CASE CountWrite(t)
  BY <1>2, <1>6, StepLoad DEF CountWrite, Goto, Step
<1>7. CASE BlackPeg(t)
  BY <1>2, <1>7, StepLoad DEF BlackPeg, Step, gameVars
<1>8. CASE WhitePeg(t)
  BY <1>2, <1>8, StepLoad DEF WhitePeg, Step, gameVars
<1>9. CASE SayGuess(t)
  BY <1>2, <1>9, StepLoad DEF SayGuess, SetCell
<1>10. CASE FindEnd(t)
  BY <1>2, <1>10, StepLoad DEF FindEnd, Step, gameVars
<1>11. CASE AppendLine(t)
  BY <1>2, <1>11, StepLoad DEF AppendLine, Step
<1> QED
  BY <1>1, <1>3, <1>4, <1>5, <1>6, <1>7, <1>8, <1>9, <1>10, <1>11 DEF Write

LEMMA CtlLoad ==
  ASSUME CallInv, LoadInv, NEW t \in Threads, Ctl(t)
  PROVE  LoadInv'
<1>1. CASE EnterCtl(t)
  BY <1>1, EnterLoad
<1>2. game_active \in BOOLEAN
  BY DEF LoadInv, ActiveInv
<1>3. CASE CtlRefuse(t) \/ QuitNothing(t)
  BY <1>2, <1>3, ReturnLoad DEF CtlRefuse, QuitNothing, gameVars
<1>4. CASE Activate(t)
  BY <1>4, StepLoad DEF Activate, Goto, Step
<1>5. CASE ZeroGuesses(t)
  BY <1>2, <1>5, StepLoad DEF ZeroGuesses, Goto, Step
<1>6. CASE BlankStatus(t) \/ SayStart(t) \/ SayOver(t)
  BY <1>2, <1>6, StepLoad DEF BlankStatus, SayStart, SayOver, SetCell
<1>7. CASE ClearView(t)
  BY <1>2, <1>7, StepLoad DEF ClearView, Step
<1>8. CASE CodePeg(t)
  BY <1>2, <1>8, StepLoad DEF CodePeg, Step
<1>9. CASE Quit(t)
  BY <1>2, <1>9, StepLoad DEF Quit, Goto, Step, gameVars
<1>10. CASE Deactivate(t)
  BY <1>10, ReturnLoad DEF Deactivate
<1> QED
  BY <1>1, <1>3, <1>4, <1>5, <1>6, <1>7, <1>8, <1>9, <1>10 DEF Ctl

(* mastermind_init writes the status and the log.                          *)
LEMMA InsmodLoad ==
  ASSUME CallInv, LoadInv, InsmodSets
  PROVE  LoadInv'
<1>1. \E from \in {"blank", "clear", "say"}, to \in {"clear", "say", "idle"} : \E n :
        Moves(Insmod, from, Advance(call[Insmod], n, to)) /\ UNCHANGED game_active
  BY DEF InsmodSets, BlankStatus, ClearView, SayNoGameYet, SetCell, Step
<1>0. PICK from \in {"blank", "clear", "say"}, to \in {"clear", "say", "idle"} : \E n :
        Moves(Insmod, from, Advance(call[Insmod], n, to)) /\ UNCHANGED game_active
  BY <1>1
<1>2. PICK n : Moves(Insmod, from, Advance(call[Insmod], n, to)) /\ UNCHANGED game_active
  BY <1>0
<1>3. PICK r : r = Advance(call[Insmod], n, to)
  OBVIOUS
<1>4. /\ call[Insmod].at = from /\ call' = [call EXCEPT ![Insmod] = r]
      /\ UNCHANGED moduleVars /\ UNCHANGED opened
  BY <1>2, <1>3 DEF Moves
<1>5. module = "setting"
  BY <1>4 DEF LoadInv, InsmodInv
<1>6. r.at \in {"idle", "clear", "blank", "say"}
  <2>1. call[Insmod] \in Call
    BY Member, ThreadIs
  <2>2. CASE call[Insmod].i < n
    BY <1>3, <1>4, <2>1, <2>2 DEF Advance, Call
  <2>3. CASE ~(call[Insmod].i < n)
    BY <1>3, <2>1, <2>3, IdleCall DEF Advance, At, Call
  <2> QED
    BY <2>2, <2>3
<1> QED
  BY <1>2, <1>4, <1>5, <1>6, ThreadIs, CallLoad DEF Registered, LoadInv, ActiveInv

LEMMA LoadStep == ScoredInv /\ LoadInv /\ [Next]_vars => LoadInv'
<1> SUFFICES ASSUME CallInv, LoadInv, [Next]_vars PROVE LoadInv'
  BY DEF ScoredInv
<1>1. CASE UNCHANGED vars
  BY <1>1 DEF vars, gameVars, moduleVars, LoadInv, ModuleInv, OpenInv, ActiveInv, InsmodInv
<1> QED
  BY <1>1, LoadLoad, InsmodLoad, OpenLoad, WriteLoad, CtlLoad DEF Next

(* The invariant: before both devices are there nobody can start a game.   *)
THEOREM Loading == Spec => []LoadInv
<1> QED
  BY LoadInit, LoadStep, Scored, PTL DEF Spec

(* Whatever code a guess is scored against while others change it, peg by  *)
(* peg, and however many calls are under way, no place of it counts twice  *)
(* in the score of a call, nor in the one that the status shows, but for a *)
(* status that two processes wrote at once or that one is still writing.   *)
THEOREM Score == Spec => []ScoreWithinPegs
<1>1. ScoredInv /\ MixInv /\ LoadInv => ScoreWithinPegs
  <2> SUFFICES ASSUME ScoredInv, MixInv, LoadInv PROVE ScoreWithinPegs
    OBVIOUS
  <2>1. \A t \in Threads : call[t].black + call[t].white <= NUM_PEGS
    BY Member, ThreadIs, ScoreShown DEF ScoredInv
  <2>2. ASSUME ~mixed, \A t \in Threads : call[t].at # "status"
        PROVE  Shown <= NUM_PEGS
    <3>1. \A p \in Processes : ~Halfway(p)
      BY <2>2, InsmodShown DEF Halfway, Processes
    <3> QED
      BY <2>2, <3>1 DEF MixInv
  <2> QED
    BY <2>1, <2>2 DEF ScoreWithinPegs
<1> QED
  BY <1>1, Scored, Loading, PTL

LEMMA TypesHold == ScoredInv /\ LoadInv => TypeOK
<1> SUFFICES ASSUME ScoredInv, LoadInv PROVE TypeOK
  OBVIOUS
<1>1. /\ num_guesses \in Nat /\ target_code \in [Pegs -> 0..5]
      /\ game_status \in [1..StatusSize -> Cells]
      /\ user_view \in [1..LogSize -> Cells]
  BY DEF ScoredInv, ShownInv
<1>2. game_active \in BOOLEAN /\ overlapped \in BOOLEAN /\ mixed \in BOOLEAN
  BY DEF ScoredInv, LoadInv, ActiveInv
<1>3. /\ allocated \in BOOLEAN /\ devices \subseteq {"mm", "mm_ctl"}
      /\ opened \in [Threads -> SUBSET {"mm", "mm_ctl"}]
  BY DEF LoadInv, ModuleInv, OpenInv
<1>4. module \in {"alloc", "mm", "ctl", "finish", "noCtl", "noMm", "failed", "setting",
                  "loaded", "freed", "exitCtl", "unloaded"}
  BY DEF LoadInv, ModuleInv, Stages, Gone
<1>5. ASSUME NEW p \in Processes
      PROVE  /\ call[p].at \in {"idle"} \cup WriteSteps \cup CtlSteps
             /\ call[p].n \in Nat /\ call[p].j \in 0..NUM_PEGS
             /\ call[p].i \in 1..(IF call[p].at \in {"clear", "end"} THEN LogSize ELSE NUM_PEGS)
             /\ call[p].at = "append" => call[p].end + 3 <= LogSize
             /\ call[p].marked \subseteq Pegs
  <2> DEFINE c == call[p]
  <2>1. c \in Call /\ ScoreInv(c)
    BY Member DEF ScoredInv
  <2> HIDE DEF c
  <2>2. /\ c.at \in {"idle"} \cup WriteSteps \cup CtlSteps /\ c.n \in Nat
        /\ c.marked \subseteq Pegs /\ c.i \in Nat
    BY <2>1 DEF Call, Steps
  <2>3. c.i \in 1..(IF c.at \in {"clear", "end"} THEN LogSize ELSE NUM_PEGS)
    <3>1. c.i \in 1..Last(c.at)
      BY <2>1 DEF ScoreInv
    <3>2. CASE c.at = "clear"
      BY <3>1, <3>2, Consts DEF Last
    <3>3. CASE c.at = "end"
      BY <3>1, <3>3, Consts DEF Last
    <3>4. CASE c.at \notin {"clear", "end"}
      <4>1. Last(c.at) \in 1..4
        BY <3>4, Consts DEF Last
      <4> QED
        BY <2>2, <3>1, <3>4, <4>1, Consts
    <3> QED
      BY <3>2, <3>3, <3>4
  <2> QED
    BY <2>1, <2>2, <2>3 DEF c, ScoreInv
<1> QED
  BY <1>1, <1>2, <1>3, <1>4, <1>5 DEF TypeOK

(* The variables keep their types, and mastermind_init that fails, and     *)
(* mastermind_exit, leave no device and no log behind, whichever step of   *)
(* init it was that failed.                                                *)
THEOREM CleanFailure == Spec => []NothingLeftBehind
<1>1. LoadInv => (module \in {"failed", "unloaded"} => devices = {} /\ ~allocated)
  BY DEF LoadInv, ModuleInv, Registered, Gone
<1>2. ScoredInv /\ LoadInv => NothingLeftBehind
  BY <1>1, TypesHold DEF NothingLeftBehind
<1> QED
  BY <1>2, Scored, Loading, PTL

(* No call writes to a log that is not there, until mastermind_exit frees  *)
(* it, although /dev/mm can be opened before init is done.                 *)
THEOREM LogThere == Spec => []LogIsThereUntilExit
<1>1. LoadInv => LogIsThereUntilExit
  <2> SUFFICES ASSUME LoadInv, module \notin {"freed", "exitCtl", "unloaded"},
                      NEW p \in Processes, WritesLog(p)
               PROVE  allocated
    BY DEF LogIsThereUntilExit
  <2>1. module \in Registered
    BY DEF LoadInv, ActiveInv, WritesLog
  <2> QED
    BY <2>1 DEF LoadInv, ModuleInv, Registered, Gone
<1> QED
  BY <1>1, Loading, PTL

-----------------------------------------------------------------------------
(***************************************************************************)
(* Agreement without overlap.                                              *)
(***************************************************************************)
LEMMA AloneInit == Init => AloneInv
<1> SUFFICES ASSUME Init PROVE AloneInv
  OBVIOUS
<1>1. \A t \in Threads : call[t].at = "idle"
  BY IdleCall, ThreadIs DEF Init
<1> QED
  BY <1>1 DEF Init, AloneInv, OneCall, Quiet, Gone

(* A cell of the log before the end is no NUL.                             *)
LEMMA BodyIs ==
  ASSUME NEW m \in Nat, Body(m), NEW i \in 1..(2 * m)
  PROVE  user_view[i] # NUL
<1>1. PICK k \in 1..m : i = 2 * k - 1 \/ i = 2 * k
  <2>1. (i + 1) \div 2 \in 1..m
    OBVIOUS
  <2>2. i = 2 * ((i + 1) \div 2) - 1 \/ i = 2 * ((i + 1) \div 2)
    OBVIOUS
  <2> QED
    BY <2>1, <2>2
<1>2. user_view[2 * k - 1].kind = "black" /\ user_view[2 * k].kind = "white"
  BY DEF Body
<1> QED
  BY <1>1, <1>2, NulIs

LEMMA LinesAre == \A n : Lines(n) <=> Body(n) /\ user_view[2 * n + 1] = NUL
  BY DEF Lines, Body

(* The one call under way makes a step.                                    *)
LEMMA AloneMoves ==
  ASSUME CallInv, AloneInv, NEW t \in Threads, NEW r,
         call[t].at # "idle", call' = [call EXCEPT ![t] = r],
         UNCHANGED moduleVars, UNCHANGED overlapped,
         ~overlapped => (r.at # "idle" => Progress(r))' /\ (r.at = "idle" => Agreement')
  PROVE  AloneInv'
<1> SUFFICES ASSUME ~overlapped PROVE AloneInv'
  BY DEF AloneInv
<1>1. \A u \in Threads : call'[u] = IF u = t THEN r ELSE call[u]
  BY ThreadIs DEF CallInv
<1>2. \A u \in Threads : u # t => call[u].at = "idle"
  BY DEF AloneInv, OneCall
<1>3. module = "loaded" /\ module' = "loaded"
  BY DEF AloneInv, moduleVars
<1>4. OneCall'
  BY <1>1, <1>2 DEF OneCall
<1>5. ASSUME NEW u \in Threads, call'[u].at # "idle" PROVE Progress(call[u])'
  <2>1. u = t /\ call'[u] = r
    BY <1>1, <1>2, <1>5
  <2>2. Progress(r)'
    BY <1>5, <2>1
  <2> QED
    BY <2>1, <2>2
<1>6. Quiet' => Agreement'
  BY <1>1 DEF Quiet
<1> QED
  BY <1>3, <1>4, <1>5, <1>6 DEF AloneInv, Gone

LEMMA Alone ==
  ASSUME AloneInv, ~overlapped, NEW t \in Threads, call[t].at # "idle"
  PROVE  Progress(call[t])
  BY DEF AloneInv

LEMMA GotoIs ==
  ASSUME CallInv, NEW p \in Processes, NEW from, NEW to \in Steps \ {"idle"}, Goto(p, from, to)
  PROVE  \E r : /\ call[p].at = from /\ call' = [call EXCEPT ![p] = r]
                /\ r.at = to /\ r.i = 1 /\ r.n = call[p].n /\ SameScore(call[p], r)
                /\ UNCHANGED moduleVars /\ UNCHANGED overlapped
<1>1. call[p] \in Call
  BY Member
<1>2. PICK r : r = At(call[p], to)
  OBVIOUS
<1>3. r.at = to /\ r.i = 1 /\ r.n = call[p].n /\ SameScore(call[p], r)
  BY <1>1, <1>2, AtIs
<1> QED
  BY <1>2, <1>3 DEF Goto, Step, Moves

LEMMA AloneReturn ==
  ASSUME CallInv, AloneInv, NEW t \in Threads, NEW from, from # "idle",
         Goto(t, from, "idle"), ~overlapped => Agreement'
  PROVE  AloneInv'
<1>1. /\ call[t].at = from /\ call' = [call EXCEPT ![t] = Idle]
      /\ UNCHANGED moduleVars /\ UNCHANGED overlapped
  BY AtIdle DEF Goto, Step, Moves
<1> QED
  BY <1>1, IdleCall, AloneMoves

LEMMA Unchanging ==
  ASSUME UNCHANGED gameVars
  PROVE  /\ (Agreement' <=> Agreement) /\ (Counted' <=> Counted)
         /\ (game_active' <=> game_active)
  BY DEF gameVars, Agreement, Counted, Lines

LEMMA AloneEnter ==
  ASSUME CallInv, AloneInv, NEW t \in Threads,
         EnterCtl(t) \/ \E guess \in Guesses : EnterWrite(t, guess)
  PROVE  AloneInv'
<1> SUFFICES ASSUME ~overlapped' PROVE AloneInv'
  BY DEF AloneInv
<1>1. PICK r : Fits(t, "idle", r) /\ r.at \in {"check", "command"}
  BY EnterFits
<1>2. /\ call' = [call EXCEPT ![t] = r] /\ call[t].at = "idle"
      /\ UNCHANGED gameVars /\ UNCHANGED moduleVars
      /\ ~overlapped /\ module = "loaded"
      /\ \A u \in Threads \ {t} : call[u].at = "idle"
  <2>1. call' = [call EXCEPT ![t] = r] /\ call[t].at = "idle"
    BY <1>1 DEF Fits
  <2>2. CASE EnterCtl(t)
    BY <2>1, <2>2 DEF EnterCtl, Enter
  <2>3. CASE \E guess \in Guesses : EnterWrite(t, guess)
    BY <2>1, <2>3 DEF EnterWrite, Enter
  <2> QED
    BY <2>2, <2>3
<1>3. \A u \in Threads : call'[u] = IF u = t THEN r ELSE call[u]
  BY <1>2, ThreadIs DEF CallInv
<1>4. OneCall'
  BY <1>2, <1>3 DEF OneCall
<1>5. Agreement'
  <2>1. Quiet
    BY <1>2 DEF Quiet
  <2>2. Agreement
    BY <1>2, <2>1 DEF AloneInv
  <2> QED
    BY <1>2, <2>2, Unchanging
<1>6. Progress(r)'
  BY <1>1, <1>5 DEF Progress, Starting, Quitting, Guessing, Scoring
<1>7. \A u \in Threads : (call[u].at # "idle" => Progress(call[u]))'
  <2> SUFFICES ASSUME NEW u \in Threads, call'[u].at # "idle" PROVE Progress(call[u])'
    OBVIOUS
  <2>1. u = t /\ call'[u] = r
    BY <1>2, <1>3
  <2> QED
    BY <1>6, <2>1
<1>8. module' = "loaded"
  BY <1>2 DEF moduleVars
<1> QED
  BY <1>4, <1>5, <1>7, <1>8 DEF AloneInv, Gone

(* num_guesses++, alone, counts the guess; until it is in the log, the     *)
(* count is one ahead of the log.                                          *)
LEMMA AloneCheck ==
  ASSUME CallInv, AloneInv, NEW t \in Threads, Check(t)
  PROVE  AloneInv'
<1>1. "count" \in Steps \ {"idle"} /\ Goto(t, "check", "count") /\ UNCHANGED gameVars
      /\ game_active
  BY DEF Check, Steps, WriteSteps
<1>2. PICK r : /\ call[t].at = "check" /\ call' = [call EXCEPT ![t] = r] /\ r.at = "count"
               /\ UNCHANGED moduleVars /\ UNCHANGED overlapped
  BY <1>1, GotoIs, ThreadIs
<1>3. ~overlapped => Agreement' /\ game_active'
  BY <1>1, <1>2, Alone, Unchanging DEF Progress
<1>4. ~overlapped => Progress(r)'
  BY <1>2, <1>3 DEF Progress, Starting, Quitting, Guessing, Scoring
<1> QED
  BY <1>2, <1>4, AloneMoves


LEMMA AloneCountRead ==
  ASSUME CallInv, ShownInv, AloneInv, NEW t \in Threads, CountRead(t)
  PROVE  AloneInv'
<1>1. ReadCount(t, "count", "counted") /\ num_guesses < MaxGuesses
  BY DEF CountRead
<1>2. PICK r : Fits(t, "count", r) /\ r.at = "counted" /\ r.n = num_guesses
  BY <1>1, ReadFits, ThreadIs DEF Steps, WriteSteps, Scoring
<1>3. /\ call' = [call EXCEPT ![t] = r] /\ call[t].at = "count" /\ UNCHANGED gameVars
      /\ UNCHANGED moduleVars /\ UNCHANGED overlapped
  BY <1>1, <1>2 DEF ReadCount, Step, Moves, Fits
<1>4. ~overlapped => Agreement' /\ game_active'
  BY <1>3, Alone, Unchanging DEF Progress, Guessing
<1>5. num_guesses' = num_guesses
  BY <1>3 DEF gameVars
<1>6. ~overlapped => Progress(r)'
  BY <1>1, <1>2, <1>4, <1>5 DEF Progress, Starting, Quitting, Guessing, Scoring
<1> QED
  BY <1>2, <1>3, <1>6, AloneMoves

LEMMA AloneCountWrite ==
  ASSUME CallInv, ShownInv, AloneInv, NEW t \in Threads, CountWrite(t)
  PROVE  AloneInv'
<1>1. /\ Goto(t, "counted", "black") /\ num_guesses' = call[t].n + 1
      /\ UNCHANGED <<game_active, user_view>> /\ "black" \in Steps \ {"idle"}
  BY DEF CountWrite, Steps, WriteSteps
<1>2. PICK r : /\ call[t].at = "counted" /\ call' = [call EXCEPT ![t] = r] /\ r.at = "black"
               /\ UNCHANGED moduleVars /\ UNCHANGED overlapped
  BY <1>1, GotoIs, ThreadIs
<1>3. num_guesses \in Nat
  BY DEF ShownInv
<1>4. ~overlapped => /\ Lines(num_guesses) /\ game_active /\ call[t].n = num_guesses
                     /\ num_guesses < MaxGuesses
  BY <1>2, Alone DEF Progress, Guessing, Agreement
<1>5. ~overlapped => /\ num_guesses' = num_guesses + 1 /\ num_guesses' > 0
                     /\ num_guesses' <= MaxGuesses /\ num_guesses' - 1 = num_guesses
  BY <1>1, <1>3, <1>4, InputAssumption
<1>6. ~overlapped => Lines(num_guesses - 1)'
  BY <1>1, <1>4, <1>5 DEF Lines
<1>7. ~overlapped => game_active'
  BY <1>1, <1>4
<1>8. ~overlapped => Progress(r)'
  BY <1>2, <1>5, <1>6, <1>7 DEF Progress, Starting, Quitting, Guessing, Scoring
<1> QED
  BY <1>2, <1>8, AloneMoves

(* The loops over the pegs and what comes before the status is written.    *)
LEMMA AlonePeg ==
  ASSUME CallInv, AloneInv, NEW t \in Threads, BlackPeg(t) \/ WhitePeg(t)
  PROVE  AloneInv'
<1>1. PICK r, from : Fits(t, from, r) /\ from \in {"black", "white"}
                     /\ r.at \in {"black", "white", "args"}
  BY BlackFits, WhiteFits
<1>2. /\ call' = [call EXCEPT ![t] = r] /\ call[t].at \in {"black", "white"}
      /\ UNCHANGED gameVars /\ UNCHANGED moduleVars /\ UNCHANGED overlapped
  BY <1>1 DEF Fits, BlackPeg, WhitePeg, Step, Moves
<1>3. ~overlapped => Counted /\ game_active
  BY <1>2, Alone DEF Progress, Guessing, Scoring, Counted
<1>4. ~overlapped => Counted' /\ game_active'
  BY <1>2, <1>3, Unchanging
<1>5. ~overlapped => Progress(r)'
  BY <1>1, <1>4 DEF Progress, Starting, Quitting, Guessing, Scoring, Counted
<1> QED
  BY <1>1, <1>2, <1>5, AloneMoves

LEMMA AloneStatusArgs ==
  ASSUME CallInv, ShownInv, AloneInv, NEW t \in Threads, StatusArgs(t)
  PROVE  AloneInv'
<1>1. ReadCount(t, "args", "status")
  BY DEF StatusArgs
<1>2. PICK r : Fits(t, "args", r) /\ r.at = "status" /\ r.i = 1 /\ r.n = num_guesses
  BY <1>1, ReadFits, ThreadIs DEF Steps, WriteSteps
<1>3. /\ call' = [call EXCEPT ![t] = r] /\ call[t].at = "args" /\ UNCHANGED gameVars
      /\ UNCHANGED moduleVars /\ UNCHANGED overlapped
  BY <1>1, <1>2 DEF ReadCount, Step, Moves, Fits
<1>4. ~overlapped => Counted /\ game_active
  BY <1>3, Alone DEF Progress, Guessing, Scoring, Counted
<1>5. ~overlapped => Counted' /\ game_active'
  BY <1>3, <1>4, Unchanging
<1>6. num_guesses' = num_guesses
  BY <1>3 DEF gameVars
<1>7. ~overlapped => Progress(r)'
  BY <1>2, <1>5, <1>6 DEF Progress, Starting, Quitting, Guessing, Scoring, Counted
<1> QED
  BY <1>2, <1>3, <1>7, AloneMoves

(* One cell of the status is written, and no other.                        *)
LEMMA CellSet ==
  ASSUME CallInv, ShownInv, NEW p \in Processes, NEW from \in StatusSteps, NEW text, NEW to,
         SetCell(p, from, text, to)
  PROVE  /\ call[p].at = from /\ call[p].i \in 1..2 /\ call[p].i \in 1..Last(from)
         /\ game_status'[call[p].i] = text[call[p].i]
         /\ \A k \in 1..2 : k # call[p].i => game_status'[k] = game_status[k]
         /\ UNCHANGED <<game_active, target_code, num_guesses, user_view>>
         /\ UNCHANGED moduleVars /\ UNCHANGED overlapped
<1>1. call[p] \in Call /\ ScoreInv(call[p]) /\ call[p].at = from
  BY Member DEF SetCell, Moves
<1>2. Last(from) \in 1..2
  BY Consts DEF Last, StatusSteps
<1>3. call[p].i \in 1..Last(from) /\ call[p].i \in 1..2
  BY <1>1, <1>2 DEF ScoreInv
<1>4. game_status \in [1..2 -> Cells]
  BY Consts DEF ShownInv
<1>5. game_status' = [game_status EXCEPT ![call[p].i] = text[call[p].i]]
  BY DEF SetCell
<1>6. /\ game_status'[call[p].i] = text[call[p].i]
      /\ \A k \in 1..2 : k # call[p].i => game_status'[k] = game_status[k]
  BY <1>3, <1>4, <1>5
<1> QED
  BY <1>1, <1>3, <1>6 DEF SetCell, Moves

LEMMA AloneSayGuess ==
  ASSUME CallInv, ShownInv, AloneInv, NEW t \in Threads, SayGuess(t)
  PROVE  AloneInv'
<1> DEFINE c == call[t]
<1>1. PICK g : g = Guess(c)
  OBVIOUS
<1>2. Len(g) = 2 /\ g[1] = Cell("black", c.n, c.black) /\ g[2] = Cell("white", 0, c.white)
  BY <1>1, Texts
<1>3. SetCell(t, "status", g, "logargs") /\ t \in Processes
  BY <1>1, ThreadIs DEF SayGuess
<1>4. /\ Last("status") = 2 /\ "status" \in StatusSteps /\ "logargs" \in Scoring
      /\ "logargs" \in Steps \ {"black", "white", "append"}
  BY Consts DEF Last, StatusSteps, Steps, WriteSteps, Scoring
<1>5. PICK r : Fits(t, "status", r) /\ Looped(c, r, "logargs")
  BY <1>2, <1>3, <1>4, SetFits
<1>6. /\ c.at = "status" /\ c.i \in 1..2 /\ game_status'[c.i] = g[c.i]
      /\ \A k \in 1..2 : k # c.i => game_status'[k] = game_status[k]
      /\ UNCHANGED <<game_active, target_code, num_guesses, user_view>>
      /\ UNCHANGED moduleVars /\ UNCHANGED overlapped
  BY <1>3, <1>4, CellSet
<1>7. call' = [call EXCEPT ![t] = r]
  BY <1>5 DEF Fits
<1>8. ~overlapped => /\ Counted /\ game_active /\ c.n = num_guesses
                     /\ c.i = 2 => game_status[1] = Cell("black", num_guesses, c.black)
  BY <1>6, Alone DEF Progress, Guessing, Scoring, Counted
<1>9. ~overlapped => Counted' /\ game_active' /\ num_guesses' = c.n
  BY <1>6, <1>8 DEF Counted, Lines
<1>10. ~overlapped => game_status'[1] = Cell("black", c.n, c.black)
  <2>1. CASE c.i = 1
    BY <1>2, <1>6, <2>1
  <2>2. CASE c.i = 2
    BY <1>6, <1>8, <2>2
  <2> QED
    BY <1>6, <2>1, <2>2
<1>11. CASE c.i = 1
  <2>1. r.at = "status" /\ r.i = 2 /\ r.n = c.n /\ r.black = c.black
    BY <1>4, <1>5, <1>6, <1>11 DEF Looped, SameScore
  <2> HIDE DEF c
  <2>2. ~overlapped => Progress(r)'
    BY <1>9, <1>10, <2>1 DEF Progress, Starting, Quitting, Guessing, Scoring, Counted
  <2> QED
    BY <1>6, <1>7, <2>1, <2>2, AloneMoves DEF c
<1>12. CASE c.i = 2
  <2>1. r.at = "logargs" /\ r.n = c.n /\ r.black = c.black /\ r.white = c.white
    BY <1>4, <1>5, <1>6, <1>12 DEF Looped, SameScore
  <2>2. game_status'[2] = Cell("white", 0, c.white)
    BY <1>2, <1>6, <1>12
  <2> HIDE DEF c
  <2>3. ~overlapped => Announced(r)'
    BY <1>9, <1>10, <2>1, <2>2 DEF Announced
  <2>4. ~overlapped => Progress(r)'
    BY <1>9, <2>1, <2>3 DEF Progress, Starting, Quitting, Guessing, Scoring, Counted
  <2> QED
    BY <1>6, <1>7, <2>1, <2>4, AloneMoves DEF c
<1> QED
  BY <1>6, <1>11, <1>12

LEMMA AnnouncedStays ==
  ASSUME UNCHANGED gameVars, NEW c, NEW r, SameScore(c, r), Announced(c)
  PROVE  Announced(r)'
  BY DEF gameVars, SameScore, Announced

LEMMA AloneLogArgs ==
  ASSUME CallInv, ShownInv, AloneInv, NEW t \in Threads, LogArgs(t)
  PROVE  AloneInv'
<1>1. ReadCount(t, "logargs", "end")
  BY DEF LogArgs
<1>2. PICK r : /\ Fits(t, "logargs", r) /\ r.at = "end" /\ r.i = 1 /\ r.n = num_guesses
               /\ SameScore(call[t], r)
  BY <1>1, ReadFits, ThreadIs DEF Steps, WriteSteps
<1>3. /\ call' = [call EXCEPT ![t] = r] /\ call[t].at = "logargs" /\ UNCHANGED gameVars
      /\ UNCHANGED moduleVars /\ UNCHANGED overlapped
  BY <1>1, <1>2 DEF ReadCount, Step, Moves, Fits
<1>4. ~overlapped => Counted /\ game_active /\ Announced(call[t])
  BY <1>3, Alone DEF Progress, Guessing, Scoring, Counted
<1>5. ~overlapped => Counted' /\ game_active' /\ Announced(r)'
  BY <1>2, <1>3, <1>4, Unchanging, AnnouncedStays
<1>6. num_guesses' = num_guesses /\ num_guesses \in Nat
  BY <1>3 DEF gameVars, ShownInv
<1>7. ~overlapped => r.i <= 2 * num_guesses' - 1
  BY <1>2, <1>5, <1>6 DEF Counted
<1>8. ~overlapped => Progress(r)'
  BY <1>2, <1>5, <1>6, <1>7 DEF Progress, Starting, Quitting, Guessing, Scoring, Counted
<1> QED
  BY <1>2, <1>3, <1>8, AloneMoves

LEMMA AloneFindEnd ==
  ASSUME CallInv, ShownInv, AloneInv, NEW t \in Threads, FindEnd(t)
  PROVE  AloneInv'
<1> DEFINE c == call[t]
<1>1. PICK r : /\ Fits(t, "end", r) /\ SameScore([c EXCEPT !.end = r.end], r)
               /\ r.n = c.n
               /\ IF user_view[c.i] = NUL
                  THEN r.at = "append" /\ r.i = 1 /\ r.end = c.i - 1
                  ELSE r.at = "end" /\ r.i = c.i + 1
  BY EndFits
<1>2. /\ c \in Call /\ ScoreInv(c) /\ c.at = "end" /\ call' = [call EXCEPT ![t] = r]
      /\ UNCHANGED gameVars /\ UNCHANGED moduleVars /\ UNCHANGED overlapped
  BY <1>1 DEF Fits, FindEnd, Step, Moves
<1> HIDE DEF c
<1>3. r.black = c.black /\ r.white = c.white
  BY <1>1, <1>2 DEF SameScore, Call
<1>4. num_guesses \in Nat /\ num_guesses' = num_guesses /\ user_view' = user_view
  BY <1>2 DEF ShownInv, gameVars
<1>5. c.i \in Nat /\ c.i >= 1
  BY <1>2 DEF ScoreInv, Last
<1>6. ~overlapped => /\ Counted /\ game_active /\ Announced(c) /\ c.n = num_guesses
                     /\ c.i <= 2 * num_guesses - 1
  BY <1>2, Alone DEF Progress, Guessing, Scoring, Counted, c
<1>7. ~overlapped => Counted' /\ game_active'
  BY <1>2, <1>6, Unchanging
<1>8. ~overlapped => Announced(r)'
  BY <1>2, <1>3, <1>6 DEF Announced, gameVars
<1>9. ASSUME ~overlapped PROVE Progress(r)'
  <2>1. /\ Body(num_guesses - 1) /\ user_view[2 * (num_guesses - 1) + 1] = NUL
        /\ num_guesses > 0
    BY <1>6, <1>9, LinesAre DEF Counted
  <2>2. 2 * (num_guesses - 1) + 1 = 2 * num_guesses - 1 /\ num_guesses - 1 \in Nat
    BY <1>4, <2>1
  <2>3. user_view[c.i] = NUL <=> c.i = 2 * num_guesses - 1
    <3>1. CASE c.i = 2 * num_guesses - 1
      BY <2>1, <2>2, <3>1
    <3>2. CASE c.i # 2 * num_guesses - 1
      <4>1. c.i \in 1..(2 * (num_guesses - 1))
        BY <1>4, <1>5, <1>6, <1>9, <2>1, <3>2
      <4>2. user_view[c.i] # NUL
        BY <2>1, <2>2, <4>1, BodyIs
      <4> QED
        BY <3>2, <4>2
    <3> QED
      BY <3>1, <3>2
  <2>4. CASE user_view[c.i] = NUL
    <3>1. r.at = "append" /\ r.i = 1 /\ r.end = 2 * num_guesses - 2 /\ r.n = num_guesses
      BY <1>1, <1>4, <1>5, <1>6, <1>9, <2>3, <2>4
    <3>2. Body(num_guesses - 1)'
      BY <1>4, <2>1 DEF Body
    <3>3. \A k \in 1..(r.i - 1) : user_view'[r.end + k] = Guess(r)[k]
      BY <3>1
    <3> QED
      BY <1>4, <1>7, <1>8, <1>9, <3>1, <3>2, <3>3
      DEF Progress, Starting, Quitting, Guessing, Scoring, Counted
  <2>5. CASE user_view[c.i] # NUL
    <3>1. r.at = "end" /\ r.n = num_guesses /\ r.i <= 2 * num_guesses' - 1
      BY <1>1, <1>4, <1>5, <1>6, <1>9, <2>3, <2>5
    <3> QED
      BY <1>4, <1>7, <1>8, <1>9, <3>1
      DEF Progress, Starting, Quitting, Guessing, Scoring, Counted
  <2> QED
    BY <2>4, <2>5
<1>10. r.at # "idle"
  BY <1>1
<1> QED
  BY <1>2, <1>9, <1>10, AloneMoves DEF c

(* The line goes where the log ended, cell by cell, so that the log has    *)
(* again as many lines as guesses were counted, and ends with what the     *)
(* status says.                                                            *)
LEMMA AloneAppend ==
  ASSUME CallInv, ShownInv, AloneInv, NEW t \in Threads, AppendLine(t)
  PROVE  AloneInv'
<1> DEFINE c == call[t]
<1>1. PICK g : g = Append(Guess(c), NUL)
  OBVIOUS
<1>2. /\ g[1] = Cell("black", c.n, c.black) /\ g[2] = Cell("white", 0, c.white)
      /\ g[3] = NUL
  BY <1>1, LineIs
<1>3. PICK r : Fits(t, "append", r) /\ Looped(c, r, "idle")
  BY AppendIs
<1>4. /\ c \in Call /\ c.at = "append" /\ c.i \in 1..3 /\ c.end + c.i \in 1..LogSize
      /\ user_view' = [user_view EXCEPT ![c.end + c.i] = g[c.i]]
  BY <1>1, AppendIs
<1>5. /\ call' = [call EXCEPT ![t] = r] /\ UNCHANGED moduleVars /\ UNCHANGED overlapped
      /\ UNCHANGED <<game_active, num_guesses, game_status>>
  BY <1>3 DEF Fits, AppendLine, Step, Moves
<1>6. ~overlapped => /\ game_active /\ num_guesses > 0 /\ num_guesses <= MaxGuesses
                     /\ c.n = num_guesses /\ Announced(c)
                     /\ Body(num_guesses - 1) /\ c.end = 2 * num_guesses - 2
                     /\ \A k \in 1..(c.i - 1) : user_view[c.end + k] = Guess(c)[k]
  BY <1>4, Alone DEF Progress, Guessing, Scoring
<1>7. Last("append") = 3
  BY DEF Last
<1>8. num_guesses \in Nat /\ c.end \in Nat /\ user_view \in [1..LogSize -> Cells]
  BY <1>4 DEF ShownInv, Call
<1>9. Guess(c)[1] = g[1] /\ Guess(c)[2] = g[2]
  BY <1>2, Texts
<1> HIDE DEF c
<1>10. \A k \in 1..LogSize : user_view'[k] = IF k = c.end + c.i THEN g[c.i] ELSE user_view[k]
  BY <1>4, <1>8
<1>11. ASSUME ~overlapped
       PROVE  /\ Body(num_guesses - 1)'
              /\ \A k \in 1..c.i : user_view'[c.end + k] = g[k]
  <2>1. LogSize = 2 * MaxGuesses + 1 /\ MaxGuesses \in Nat
    BY InputAssumption DEF LogSize
  <2>2. \A k \in 1..(2 * num_guesses - 2) : user_view'[k] = user_view[k]
    BY <1>4, <1>6, <1>8, <1>10, <1>11, <2>1
  <2>3. Body(num_guesses - 1)'
    <3>1. /\ num_guesses - 1 <= MaxGuesses
          /\ \A k \in 1..(num_guesses - 1) :
               /\ user_view[2 * k - 1].kind = "black" /\ user_view[2 * k - 1].n = k
               /\ user_view[2 * k].kind = "white"
      BY <1>6, <1>11 DEF Body
    <3>2. \A k \in 1..(num_guesses - 1) : /\ 2 * k - 1 \in 1..(2 * num_guesses - 2)
                                          /\ 2 * k \in 1..(2 * num_guesses - 2)
      BY <1>8
    <3>3. \A k \in 1..(num_guesses - 1) :
               /\ user_view'[2 * k - 1].kind = "black" /\ user_view'[2 * k - 1].n = k
               /\ user_view'[2 * k].kind = "white"
      BY <2>2, <3>1, <3>2
    <3> QED
      BY <1>5, <3>1, <3>3 DEF Body
  <2>4. \A k \in 1..(c.i - 1) : /\ c.end + k \in 1..LogSize /\ c.end + k # c.end + c.i
                                /\ k \in 1..2
    <3>1. SUFFICES ASSUME NEW k \in 1..(c.i - 1)
                   PROVE  c.end + k \in 1..LogSize /\ c.end + k # c.end + c.i /\ k \in 1..2
      OBVIOUS
    <3>2. k \in 1..2 /\ k < c.i /\ c.end \in Nat /\ LogSize \in Nat /\ c.i \in Nat
      BY <1>4, <1>8, Consts
    <3> QED
      BY <1>4, <3>2
  <2>5. \A k \in 1..(c.i - 1) : user_view'[c.end + k] = g[k]
    BY <1>6, <1>9, <1>10, <1>11, <2>4
  <2>6. user_view'[c.end + c.i] = g[c.i]
    BY <1>4, <1>10
  <2>7. \A k \in 1..c.i : k = c.i \/ k \in 1..(c.i - 1)
    BY <1>4
  <2> QED
    BY <2>3, <2>5, <2>6, <2>7
<1>12. CASE c.i < 3
  <2>1. r.at = "append" /\ r.i = c.i + 1 /\ r.n = c.n /\ SameScore(c, r)
    BY <1>3, <1>4, <1>7, <1>12 DEF Looped, c
  <2>2. Guess(r) = Guess(c) /\ r.end = c.end
    BY <2>1 DEF SameScore, Guess
  <2>3. ASSUME ~overlapped PROVE Progress(r)'
    <3>1. \A k \in 1..(r.i - 1) : user_view'[r.end + k] = Guess(r)[k]
      BY <1>4, <1>9, <1>11, <1>12, <2>1, <2>2, <2>3
    <3>2. Announced(r)'
      BY <1>5, <1>6, <2>1, <2>3 DEF Announced, SameScore
    <3>3. Body(num_guesses - 1)' /\ r.end = 2 * num_guesses' - 2 /\ r.n = num_guesses'
          /\ num_guesses' > 0 /\ num_guesses' <= MaxGuesses /\ game_active'
      BY <1>5, <1>6, <1>11, <2>1, <2>2, <2>3
    <3> QED
      BY <2>1, <3>1, <3>2, <3>3 DEF Progress, Starting, Quitting, Guessing, Scoring
  <2> QED
    BY <1>4, <1>5, <2>1, <2>3, AloneMoves DEF c
<1>13. CASE c.i = 3
  <2>1. r = Idle
    BY <1>3, <1>4, <1>7, <1>13 DEF Looped, c
  <2>2. ASSUME ~overlapped PROVE Agreement'
    <3>1. /\ user_view'[c.end + 1] = g[1] /\ user_view'[c.end + 2] = g[2]
          /\ user_view'[c.end + 3] = g[3]
      BY <1>11, <1>13, <2>2
    <3>2. /\ c.end + 1 = 2 * num_guesses - 1 /\ c.end + 2 = 2 * num_guesses
          /\ c.end + 3 = 2 * num_guesses + 1
      BY <1>6, <1>8, <2>2
    <3>3. /\ user_view'[2 * num_guesses - 1] = Cell("black", num_guesses, c.black)
          /\ user_view'[2 * num_guesses] = Cell("white", 0, c.white)
          /\ user_view'[2 * num_guesses + 1] = NUL
      BY <1>2, <1>6, <2>2, <3>1, <3>2
    <3>4. Lines(num_guesses)'
      <4>1. \A k \in 1..(num_guesses - 1) :
               /\ user_view'[2 * k - 1].kind = "black" /\ user_view'[2 * k - 1].n = k
               /\ user_view'[2 * k].kind = "white"
        BY <1>5, <1>11, <2>2 DEF Body
      <4>2. /\ user_view'[2 * num_guesses - 1].kind = "black"
            /\ user_view'[2 * num_guesses - 1].n = num_guesses
            /\ user_view'[2 * num_guesses].kind = "white"
        BY <3>3, CellIs
      <4>3. \A k \in 1..num_guesses : k = num_guesses \/ k \in 1..(num_guesses - 1)
        BY <1>8
      <4>4. \A k \in 1..num_guesses :
               /\ user_view'[2 * k - 1].kind = "black" /\ user_view'[2 * k - 1].n = k
               /\ user_view'[2 * k].kind = "white"
        BY <4>1, <4>2, <4>3
      <4> QED
        BY <1>5, <1>6, <2>2, <3>3, <4>4 DEF Lines
    <3>5. /\ game_status'[1] = Cell("black", num_guesses, c.black)
          /\ game_status'[2] = Cell("white", 0, c.white)
      BY <1>5, <1>6, <2>2 DEF Announced
    <3>6. game_status'[1].kind = "black"
      BY <3>5, CellIs
    <3>7. /\ game_active' /\ num_guesses' > 0
          /\ game_status'[1] = user_view'[2 * num_guesses' - 1]
          /\ game_status'[2] = user_view'[2 * num_guesses']
      BY <1>5, <1>6, <2>2, <3>3, <3>5
    <3> QED
      BY <3>4, <3>6, <3>7 DEF Agreement
  <2> QED
    BY <1>4, <1>5, <2>1, <2>2, IdleCall, AloneMoves DEF c
<1> QED
  BY <1>4, <1>12, <1>13

(* A call that returns and has changed nothing.                            *)
LEMMA AloneNothing ==
  ASSUME CallInv, AloneInv, NEW t \in Threads, Refuse(t) \/ CtlRefuse(t) \/ QuitNothing(t)
  PROVE  AloneInv'
<1>1. PICK from \in {"check", "command"} : Goto(t, from, "idle") /\ UNCHANGED gameVars
  BY DEF Refuse, CtlRefuse, QuitNothing
<1>2. call[t].at = from
  BY <1>1 DEF Goto, Step, Moves
<1>3. ~overlapped => Agreement'
  BY <1>1, <1>2, Alone, Unchanging DEF Progress
<1> QED
  BY <1>1, <1>3, AloneReturn

(* start: the game is active before anything else of it is reset.          *)
LEMMA AloneActivate ==
  ASSUME CallInv, AloneInv, NEW t \in Threads, Activate(t)
  PROVE  AloneInv'
<1>1. Goto(t, "command", "zero") /\ game_active' /\ "zero" \in Steps \ {"idle"}
  BY DEF Activate, Steps, CtlSteps
<1>2. PICK r : /\ call[t].at = "command" /\ call' = [call EXCEPT ![t] = r] /\ r.at = "zero"
               /\ UNCHANGED moduleVars /\ UNCHANGED overlapped
  BY <1>1, GotoIs, ThreadIs
<1>3. Progress(r)'
  BY <1>1, <1>2 DEF Progress, Starting, Quitting, Guessing, Scoring
<1> QED
  BY <1>2, <1>3, AloneMoves

LEMMA AloneZero ==
  ASSUME CallInv, AloneInv, NEW t \in Threads, ZeroGuesses(t)
  PROVE  AloneInv'
<1>1. /\ Goto(t, "zero", "blank") /\ num_guesses' = 0 /\ UNCHANGED game_active
      /\ "blank" \in Steps \ {"idle"}
  BY DEF ZeroGuesses, Steps, CtlSteps
<1>2. PICK r : /\ call[t].at = "zero" /\ call' = [call EXCEPT ![t] = r] /\ r.at = "blank"
               /\ UNCHANGED moduleVars /\ UNCHANGED overlapped
  BY <1>1, GotoIs, ThreadIs
<1>3. ~overlapped => game_active'
  BY <1>1, <1>2, Alone DEF Progress, Starting
<1>4. ~overlapped => Progress(r)'
  BY <1>1, <1>2, <1>3 DEF Progress, Starting, Quitting, Guessing, Scoring
<1> QED
  BY <1>2, <1>4, AloneMoves

(* memset of the status: of a start, and of mastermind_init.               *)
LEMMA BlankSet ==
  ASSUME CallInv, ShownInv, NEW p \in Processes, BlankStatus(p)
  PROVE  \E r : /\ call[p].at = "blank" /\ call' = [call EXCEPT ![p] = r]
                /\ r.at = "blank" \/ (r.at = "clear" /\ r.i = 1)
                /\ UNCHANGED <<game_active, num_guesses, user_view>>
                /\ UNCHANGED moduleVars /\ UNCHANGED overlapped
<1>1. /\ Last("blank") = 2 /\ "blank" \in StatusSteps /\ "blank" \notin Scoring
      /\ "clear" \in Steps \ {"black", "white", "append"}
  BY Consts DEF Last, StatusSteps, Steps, CtlSteps, Scoring
<1>2. SetCell(p, "blank", Blank, "clear") /\ Len(Blank) = Last("blank")
  BY <1>1, BlankIs DEF BlankStatus
<1>3. PICK r : Fits(p, "blank", r) /\ Looped(call[p], r, "clear")
  BY <1>1, <1>2, SetFits
<1>4. /\ call[p].at = "blank" /\ UNCHANGED <<game_active, num_guesses, user_view>>
      /\ UNCHANGED moduleVars /\ UNCHANGED overlapped
  BY <1>1, <1>2, CellSet
<1>5. r.at = "blank" \/ (r.at = "clear" /\ r.i = 1)
  BY <1>3, <1>4 DEF Looped
<1> QED
  BY <1>3, <1>4, <1>5 DEF Fits

LEMMA AloneBlank ==
  ASSUME CallInv, ShownInv, AloneInv, NEW t \in Threads, BlankStatus(t)
  PROVE  AloneInv'
<1>1. PICK r : /\ call[t].at = "blank" /\ call' = [call EXCEPT ![t] = r]
               /\ r.at = "blank" \/ (r.at = "clear" /\ r.i = 1)
               /\ UNCHANGED <<game_active, num_guesses, user_view>>
               /\ UNCHANGED moduleVars /\ UNCHANGED overlapped
  BY BlankSet, ThreadIs
<1>2. ~overlapped => game_active' /\ num_guesses' = 0
  BY <1>1, Alone DEF Progress, Starting
<1>3. ~overlapped => Progress(r)'
  BY <1>1, <1>2 DEF Progress, Starting, Quitting, Guessing, Scoring
<1> QED
  BY <1>1, <1>3, AloneMoves

(* memset of the log: once its first cell is clear the log is empty.       *)
LEMMA ClearSet ==
  ASSUME CallInv, ShownInv, NEW p \in Processes, ClearView(p)
  PROVE  \E r : /\ call[p].at = "clear" /\ call' = [call EXCEPT ![p] = r]
                /\ r.at = "say" \/ (r.at = "clear" /\ r.i > 1)
                /\ call[p].i = 1 \/ user_view[1] = NUL => user_view'[1] = NUL
                /\ call[p].i = 1 \/ call[p].i > 1
                /\ UNCHANGED <<game_active, num_guesses, game_status>>
                /\ UNCHANGED moduleVars /\ UNCHANGED overlapped
<1>1. Moves(p, "clear", Advance(call[p], Last("clear"), "say"))
  BY DEF ClearView, Step, Last
<1>2. /\ "clear" \in Steps \ {"black", "white"} /\ "clear" \notin Scoring
      /\ "say" \in Steps \ {"black", "white", "append"}
  BY DEF Steps, CtlSteps, Scoring
<1>3. PICK r : Fits(p, "clear", r) /\ Looped(call[p], r, "say")
  BY <1>1, <1>2, LoopFits
<1>4. call[p].at = "clear" /\ call[p].i \in 1..LogSize /\ call[p].i \in 1..Last("clear")
  BY <1>3, Consts DEF Fits, ScoreInv, Last
<1>5. call[p].i = 1 \/ call[p].i > 1
  BY <1>4, Consts
<1>6. r.at = "say" \/ (r.at = "clear" /\ r.i > 1)
  BY <1>3, <1>4, Consts DEF Looped
<1>7. call[p].i = 1 \/ user_view[1] = NUL => user_view'[1] = NUL
  <2>1. /\ user_view' = [user_view EXCEPT ![call[p].i] = NUL] /\ 1 \in 1..LogSize
        /\ user_view \in [1..LogSize -> Cells]
    BY Consts DEF ClearView, ShownInv
  <2> QED
    BY <2>1
<1> QED
  BY <1>3, <1>4, <1>5, <1>6, <1>7 DEF Fits, ClearView, Step, Moves

LEMMA AloneClear ==
  ASSUME CallInv, ShownInv, AloneInv, NEW t \in Threads, ClearView(t)
  PROVE  AloneInv'
<1>1. PICK r : /\ call[t].at = "clear" /\ call' = [call EXCEPT ![t] = r]
               /\ r.at = "say" \/ (r.at = "clear" /\ r.i > 1)
               /\ call[t].i = 1 \/ user_view[1] = NUL => user_view'[1] = NUL
               /\ call[t].i = 1 \/ call[t].i > 1
               /\ UNCHANGED <<game_active, num_guesses, game_status>>
               /\ UNCHANGED moduleVars /\ UNCHANGED overlapped
  BY ClearSet, ThreadIs
<1>2. ~overlapped => game_active' /\ num_guesses' = 0 /\ user_view'[1] = NUL
  BY <1>1, Alone DEF Progress, Starting
<1>3. ~overlapped => Progress(r)'
  BY <1>1, <1>2 DEF Progress, Starting, Quitting, Guessing, Scoring
<1> QED
  BY <1>1, <1>3, AloneMoves

(* The first words in the status: of a start, and of mastermind_init.      *)
LEMMA SaySet ==
  ASSUME CallInv, ShownInv, NEW p \in Processes,
         NEW kind \in {"StartingGame", "NoGameYet"}, NEW to \in {"code", "idle"},
         SetCell(p, "say", Message(kind, 1), to)
  PROVE  \E r : /\ call[p].at = "say" /\ call' = [call EXCEPT ![p] = r] /\ r.at = to
                /\ game_status'[1].kind = kind
                /\ UNCHANGED <<game_active, num_guesses, user_view>>
                /\ UNCHANGED moduleVars /\ UNCHANGED overlapped
<1>1. /\ Last("say") = 1 /\ "say" \in StatusSteps /\ "say" \notin Scoring
      /\ to \in Steps \ {"black", "white", "append"}
      /\ to \notin Scoring \cup {"idle"} => "say" \notin Scoring
  BY DEF Last, StatusSteps, Steps, CtlSteps, Scoring
<1>2. Len(Message(kind, 1)) = 1 /\ Message(kind, 1)[1] = Cell(kind, 0, 0)
  BY MessageIs
<1>3. PICK r : Fits(p, "say", r) /\ Looped(call[p], r, to)
  BY <1>1, <1>2, SetFits DEF StatusSteps
<1>4. /\ call[p].at = "say" /\ call[p].i \in 1..1
      /\ game_status'[call[p].i] = Message(kind, 1)[call[p].i]
      /\ UNCHANGED <<game_active, num_guesses, user_view>>
      /\ UNCHANGED moduleVars /\ UNCHANGED overlapped
  BY <1>1, CellSet
<1>5. r.at = to
  BY <1>1, <1>3, <1>4, IdleCall DEF Looped
<1>6. game_status'[1].kind = kind
  BY <1>2, <1>4, CellIs
<1> QED
  BY <1>3, <1>4, <1>5, <1>6 DEF Fits

LEMMA AloneSayStart ==
  ASSUME CallInv, ShownInv, AloneInv, NEW t \in Threads, SayStart(t)
  PROVE  AloneInv'
<1>1. PICK r : /\ call[t].at = "say" /\ call' = [call EXCEPT ![t] = r] /\ r.at = "code"
               /\ game_status'[1].kind = "StartingGame"
               /\ UNCHANGED <<game_active, num_guesses, user_view>>
               /\ UNCHANGED moduleVars /\ UNCHANGED overlapped
  BY SaySet, ThreadIs DEF SayStart
<1>2. ~overlapped => game_active' /\ num_guesses' = 0 /\ user_view'[1] = NUL
  BY <1>1, Alone DEF Progress, Starting
<1>3. ~overlapped => Progress(r)'
  BY <1>1, <1>2 DEF Progress, Starting, Quitting, Guessing, Scoring
<1> QED
  BY <1>1, <1>3, AloneMoves

LEMMA EmptyLog ==
  ASSUME user_view[1] = NUL
  PROVE  Lines(0)
  BY InputAssumption DEF Lines

LEMMA AloneCode ==
  ASSUME CallInv, AloneInv, NEW t \in Threads, CodePeg(t)
  PROVE  AloneInv'
<1>1. /\ Moves(t, "code", Advance(call[t], Last("code"), "idle"))
      /\ UNCHANGED <<game_active, num_guesses, game_status, user_view>>
  BY DEF CodePeg, Step, Last
<1>2. PICK r : Fits(t, "code", r) /\ Looped(call[t], r, "idle")
  BY <1>1, LoopFits, ThreadIs DEF Steps, CtlSteps
<1>3. /\ call[t].at = "code" /\ call' = [call EXCEPT ![t] = r]
      /\ UNCHANGED moduleVars /\ UNCHANGED overlapped
  BY <1>1, <1>2 DEF Fits, Moves
<1>4. ~overlapped => /\ game_active /\ num_guesses = 0 /\ user_view[1] = NUL
                     /\ game_status[1].kind = "StartingGame"
  BY <1>3, Alone DEF Progress, Starting
<1>5. r.at = "code" \/ r.at = "idle"
  BY <1>2, <1>3, IdleCall DEF Looped
<1>6. ASSUME ~overlapped, r.at = "code" PROVE Progress(r)'
  BY <1>1, <1>4, <1>6 DEF Progress, Starting, Quitting, Guessing, Scoring
<1>7. ASSUME ~overlapped PROVE Agreement'
  <2>1. Lines(num_guesses)
    BY <1>4, <1>7, EmptyLog
  <2>2. Agreement
    BY <1>4, <1>7, <2>1 DEF Agreement
  <2> QED
    BY <1>1, <2>2 DEF Agreement, Lines
<1> QED
  BY <1>3, <1>5, <1>6, <1>7, AloneMoves

LEMMA AloneQuit ==
  ASSUME CallInv, AloneInv, NEW t \in Threads, Quit(t)
  PROVE  AloneInv'
<1>1. Goto(t, "command", "over") /\ UNCHANGED gameVars /\ "over" \in Steps \ {"idle"}
  BY DEF Quit, Steps, CtlSteps
<1>2. PICK r : /\ call[t].at = "command" /\ call' = [call EXCEPT ![t] = r] /\ r.at = "over"
               /\ r.i = 1 /\ UNCHANGED moduleVars /\ UNCHANGED overlapped
  BY <1>1, GotoIs, ThreadIs
<1>3. ~overlapped => Lines(num_guesses)
  BY <1>2, Alone DEF Progress, Agreement
<1>4. ~overlapped => Lines(num_guesses)'
  BY <1>1, <1>3 DEF gameVars, Lines
<1>5. ~overlapped => Progress(r)'
  BY <1>2, <1>4 DEF Progress, Starting, Quitting, Guessing, Scoring
<1> QED
  BY <1>2, <1>5, AloneMoves

LEMMA AloneSayOver ==
  ASSUME CallInv, ShownInv, AloneInv, NEW t \in Threads, SayOver(t)
  PROVE  AloneInv'
<1> DEFINE c == call[t]
<1>1. /\ Last("over") = 2 /\ "over" \in StatusSteps /\ "over" \notin Scoring
      /\ "stop" \in Steps \ {"black", "white", "append"}
  BY Consts DEF Last, StatusSteps, Steps, CtlSteps, Scoring
<1>2. PICK g : g = Message("GameOver", 2)
  OBVIOUS
<1>3. /\ Len(g) = 2 /\ g[1] = Cell("GameOver", 0, 0)
  BY <1>2, MessageIs
<1>4. SetCell(t, "over", g, "stop") /\ t \in Processes
  BY <1>2, Consts, ThreadIs DEF SayOver
<1>5. PICK r : Fits(t, "over", r) /\ Looped(c, r, "stop")
  BY <1>1, <1>3, <1>4, SetFits
<1>6. /\ c.at = "over" /\ c.i \in 1..2 /\ game_status'[c.i] = g[c.i]
      /\ \A k \in 1..2 : k # c.i => game_status'[k] = game_status[k]
      /\ UNCHANGED <<game_active, num_guesses, user_view>>
      /\ UNCHANGED moduleVars /\ UNCHANGED overlapped
  BY <1>1, <1>4, CellSet
<1>7. call' = [call EXCEPT ![t] = r]
  BY <1>5 DEF Fits
<1>8. ~overlapped => /\ Lines(num_guesses)
                     /\ c.i = 2 => game_status[1].kind = "GameOver"
  BY <1>6, Alone DEF Progress, Quitting
<1>9. ~overlapped => Lines(num_guesses)'
  BY <1>6, <1>8 DEF Lines
<1>10. ~overlapped => game_status'[1].kind = "GameOver"
  <2>1. CASE c.i = 1
    BY <1>3, <1>6, <2>1, CellIs
  <2>2. CASE c.i = 2
    BY <1>6, <1>8, <2>2
  <2> QED
    BY <1>6, <2>1, <2>2
<1>11. r.at \in {"over", "stop"}
  BY <1>5, <1>6 DEF Looped
<1>12. ~overlapped => Progress(r)'
  BY <1>9, <1>10, <1>11 DEF Progress, Starting, Quitting, Guessing, Scoring
<1> QED
  BY <1>6, <1>7, <1>11, <1>12, AloneMoves

LEMMA AloneDeactivate ==
  ASSUME CallInv, AloneInv, NEW t \in Threads, Deactivate(t)
  PROVE  AloneInv'
<1>1. /\ Goto(t, "stop", "idle") /\ ~game_active'
      /\ UNCHANGED <<num_guesses, game_status, user_view>>
  BY DEF Deactivate
<1>2. call[t].at = "stop"
  BY <1>1 DEF Goto, Step, Moves
<1>3. ~overlapped => Lines(num_guesses) /\ game_status[1].kind = "GameOver"
  BY <1>2, Alone DEF Progress, Quitting
<1>4. ~overlapped => Lines(num_guesses)' /\ game_status'[1].kind = "GameOver"
  BY <1>1, <1>3 DEF Lines
<1>5. ~overlapped => Agreement'
  BY <1>1, <1>4 DEF Agreement
<1> QED
  BY <1>1, <1>5, AloneReturn

(* While mastermind_init sets the status and the log, nobody has called    *)
(* yet.                                                                    *)
LEMMA AloneSetting ==
  ASSUME CallInv, AloneInv, NEW r,
         call' = [call EXCEPT ![Insmod] = r],
         module \notin {"loaded"} \cup Gone, module' = "setting",
         UNCHANGED <<game_active, num_guesses, overlapped>>,
         ~overlapped => Setting(r)'
  PROVE  AloneInv'
<1> SUFFICES ASSUME ~overlapped PROVE AloneInv'
  BY DEF AloneInv
<1>1. call'[Insmod] = r /\ \A u \in Threads : call'[u] = call[u]
  BY ThreadIs DEF CallInv
<1>2. \A u \in Threads : call[u].at = "idle"
  BY DEF AloneInv
<1>3. OneCall' /\ ~Quiet'
  BY <1>1, <1>2 DEF OneCall, Quiet
<1>4. \A u \in Threads : call'[u].at = "idle"
  BY <1>1, <1>2
<1>5. Setting(call[Insmod])'
  BY <1>1
<1>6. ~game_active' /\ num_guesses' = 0
  BY DEF AloneInv
<1> QED
  BY <1>3, <1>4, <1>5, <1>6 DEF AloneInv

LEMMA AloneInsmod ==
  ASSUME CallInv, ShownInv, LoadInv, AloneInv, InsmodSets
  PROVE  AloneInv'
<1>1. Insmod \in Processes
  BY ThreadIs
<1>2. call[Insmod].at # "idle" /\ UNCHANGED moduleVars => module = "setting" /\ module' = "setting"
  BY DEF LoadInv, InsmodInv, moduleVars
<1>3. module = "setting" => module \notin {"loaded"} \cup Gone
  BY DEF Gone
<1>4. CASE BlankStatus(Insmod)
  <2>1. PICK r : /\ call[Insmod].at = "blank" /\ call' = [call EXCEPT ![Insmod] = r]
                 /\ r.at = "blank" \/ (r.at = "clear" /\ r.i = 1)
                 /\ UNCHANGED <<game_active, num_guesses, user_view>>
                 /\ UNCHANGED moduleVars /\ UNCHANGED overlapped
    BY <1>1, <1>4, BlankSet
  <2>2. Setting(r)'
    BY <2>1 DEF Setting
  <2> QED
    BY <1>2, <1>3, <2>1, <2>2, AloneSetting
<1>5. CASE ClearView(Insmod)
  <2>1. PICK r : /\ call[Insmod].at = "clear" /\ call' = [call EXCEPT ![Insmod] = r]
                 /\ r.at = "say" \/ (r.at = "clear" /\ r.i > 1)
                 /\ call[Insmod].i = 1 \/ user_view[1] = NUL => user_view'[1] = NUL
                 /\ call[Insmod].i = 1 \/ call[Insmod].i > 1
                 /\ UNCHANGED <<game_active, num_guesses, game_status>>
                 /\ UNCHANGED moduleVars /\ UNCHANGED overlapped
    BY <1>1, <1>5, ClearSet
  <2>2. /\ module = "setting" /\ module' = "setting" /\ module \notin {"loaded"} \cup Gone
        /\ call' = [call EXCEPT ![Insmod] = r]
        /\ UNCHANGED <<game_active, num_guesses, overlapped>>
    <3>1. call[Insmod].at # "idle" /\ UNCHANGED moduleVars
      BY <2>1
    <3> QED
      BY <1>2, <1>3, <2>1, <3>1
  <2>3. ASSUME ~overlapped PROVE Setting(r)'
    <3>1. Setting(call[Insmod])
      BY <2>2, <2>3 DEF AloneInv
    <3>2. user_view'[1] = NUL
      BY <2>1, <3>1 DEF Setting
    <3>3. r.at # "idle"
      BY <2>1
    <3> QED
      BY <3>2, <3>3 DEF Setting
  <2> QED
    BY <2>2, <2>3, AloneSetting
<1>6. CASE SayNoGameYet
  <2>1. PICK r : /\ call[Insmod].at = "say" /\ call' = [call EXCEPT ![Insmod] = r] /\ r.at = "idle"
                 /\ game_status'[1].kind = "NoGameYet"
                 /\ UNCHANGED <<game_active, num_guesses, user_view>>
                 /\ UNCHANGED moduleVars /\ UNCHANGED overlapped
    BY <1>1, <1>6, SaySet DEF SayNoGameYet
  <2>2. ~overlapped => Setting(call[Insmod])
    BY <1>2, <2>1 DEF AloneInv
  <2>3. ~overlapped => Setting(r)'
    BY <2>1, <2>2 DEF Setting
  <2> QED
    BY <1>2, <1>3, <2>1, <2>3, AloneSetting
<1> QED
  BY <1>4, <1>5, <1>6 DEF InsmodSets

(* mastermind_init ends with no game.                                      *)
LEMMA AloneDone ==
  ASSUME AloneInv, InitDone
  PROVE  AloneInv'
<1>1. /\ module = "setting" /\ module' = "loaded" /\ call[Insmod].at = "idle"
      /\ UNCHANGED <<call, overlapped, user_view, game_active, num_guesses, game_status>>
  BY DEF InitDone, ModuleGo
<1> SUFFICES ASSUME ~overlapped PROVE AloneInv'
  BY <1>1 DEF AloneInv
<1>2. /\ ~game_active /\ num_guesses = 0 /\ OneCall
      /\ \A t \in Threads : call[t].at = "idle"
      /\ Setting(call[Insmod])
  <2>1. module \notin {"loaded"} \cup Gone
    BY <1>1 DEF Gone
  <2>2. module # "loaded"
    BY <1>1
  <2> QED
    BY <1>1, <2>1, <2>2 DEF AloneInv
<1>3. user_view[1] = NUL /\ game_status[1].kind = "NoGameYet"
  BY <1>1, <1>2 DEF Setting
<1>4. Agreement
  <2>1. Lines(num_guesses)
    BY <1>2, <1>3, EmptyLog
  <2> QED
    BY <1>2, <1>3, <2>1 DEF Agreement
<1>5. Agreement' /\ OneCall'
  BY <1>1, <1>2, <1>4 DEF Agreement, Lines, OneCall
<1> QED
  BY <1>1, <1>2, <1>5 DEF AloneInv, Gone

LEMMA AloneLoad ==
  ASSUME CallInv, ShownInv, LoadInv, AloneInv, Load
  PROVE  AloneInv'
<1>1. CASE InsmodSets
  BY <1>1, AloneInsmod
<1>2. CASE InitDone
  BY <1>2, AloneDone
<1>3. CASE InitSet
  <2>1. PICK r : r = [Idle EXCEPT !.at = "blank"]
    OBVIOUS
  <2>2. r.at = "blank"
    BY <2>1, IdleCall DEF Call
  <2>3. /\ call' = [call EXCEPT ![Insmod] = r] /\ module = "finish" /\ module' = "setting"
        /\ UNCHANGED <<game_active, num_guesses, overlapped>>
    BY <1>3, <2>1 DEF InitSet, ModuleGo
  <2>4. Setting(r)' /\ module \notin {"loaded"} \cup Gone
    BY <2>2, <2>3 DEF Setting, Gone
  <2> QED
    BY <2>3, <2>4, AloneSetting
<1>4. CASE ~InsmodSets /\ ~InitDone /\ ~InitSet
  <2>1. /\ module \notin {"loaded", "setting"} \cup Gone
        /\ module' \notin {"loaded", "setting"} \cup Gone
        /\ UNCHANGED <<call, overlapped, game_active, num_guesses>>
    BY <1>4 DEF Load, InsmodSets, InitAlloc, InitMm, InitCtl, FailCtl, FailMm, Register,
                Deregister, ModuleGo, Gone
  <2> SUFFICES ASSUME ~overlapped PROVE AloneInv'
    BY <2>1 DEF AloneInv
  <2>2. /\ ~game_active /\ num_guesses = 0 /\ OneCall
        /\ \A t \in Threads : call[t].at = "idle"
    BY <2>1 DEF AloneInv
  <2>3. OneCall' /\ ~Quiet'
    BY <2>1, <2>2 DEF OneCall, Quiet
  <2> QED
    BY <2>1, <2>2, <2>3 DEF AloneInv
<1> QED
  BY <1>1, <1>2, <1>3, <1>4

LEMMA AloneUnload ==
  ASSUME ScoredInv, AloneInv, Unload
  PROVE  AloneInv'
<1>1. /\ module' \notin {"loaded", "setting"} /\ module' \in Gone /\ UNCHANGED call
      /\ overlapped' \in BOOLEAN
      /\ ~overlapped' => ~overlapped /\ \A t \in Threads : call[t].at = "idle"
  <2>1. CASE ExitFree
    BY <2>1 DEF ExitFree, ModuleGo, Gone, ScoredInv
  <2>2. CASE ExitMm \/ ExitCtl
    <3>1. /\ module # "loaded" /\ module' \notin {"loaded", "setting"} /\ module' \in Gone
          /\ UNCHANGED <<call, overlapped>>
      BY <2>2 DEF ExitMm, ExitCtl, Deregister, ModuleGo, Gone
    <3> QED
      BY <3>1 DEF AloneInv, ScoredInv
  <2> QED
    BY <2>1, <2>2 DEF Unload
<1>2. ~overlapped' => OneCall'
  BY <1>1 DEF OneCall
<1>3. ~Quiet'
  BY <1>1 DEF Quiet
<1> QED
  BY <1>1, <1>2, <1>3 DEF AloneInv

LEMMA AloneStep == ScoredInv /\ LoadInv /\ AloneInv /\ [Next]_vars => AloneInv'
<1> SUFFICES ASSUME ScoredInv, LoadInv, AloneInv, [Next]_vars PROVE AloneInv'
  OBVIOUS
<1>0. CallInv /\ ShownInv
  BY DEF ScoredInv
<1>1. ASSUME NEW t \in Threads, Write(t) PROVE AloneInv'
  BY <1>0, <1>1, AloneEnter, AloneNothing, AloneCheck, AloneCountRead, AloneCountWrite,
     AlonePeg, AloneStatusArgs, AloneSayGuess, AloneLogArgs, AloneFindEnd, AloneAppend DEF Write
<1>2. ASSUME NEW t \in Threads, Ctl(t) PROVE AloneInv'
  BY <1>0, <1>2, AloneEnter, AloneNothing, AloneActivate, AloneZero, AloneBlank, AloneClear,
     AloneSayStart, AloneCode, AloneQuit, AloneSayOver, AloneDeactivate DEF Ctl
<1>3. ASSUME UNCHANGED gameVars, UNCHANGED <<module, call, overlapped>> PROVE AloneInv'
  <2>1. /\ Agreement' <=> Agreement
        /\ \A c : (Progress(c)' <=> Progress(c)) /\ (Setting(c)' <=> Setting(c))
    BY <1>3 DEF Agreement, Lines, Body, Announced, Progress, Starting, Quitting, Guessing,
                Setting, gameVars
  <2> QED
    BY <1>3, <2>1 DEF AloneInv, OneCall, Quiet, gameVars
<1>4. ASSUME NEW t \in Threads, NEW dev, Open(t, dev) PROVE AloneInv'
  BY <1>3, <1>4 DEF Open, moduleVars
<1>5. CASE UNCHANGED vars
  BY <1>3, <1>5 DEF vars, moduleVars
<1> QED
  BY <1>0, <1>1, <1>2, <1>4, <1>5, AloneLoad, AloneUnload DEF Next

(* As long as no call has overlapped another, or loading or unloading,     *)
(* the log, the status, the count and the state of the game agree          *)
(* whenever no call is under way.                                          *)
THEOREM Agreed == Spec => []AgreementWithoutOverlap
<1>1. AloneInv => AgreementWithoutOverlap
  BY DEF AloneInv, AgreementWithoutOverlap
<1>2. Spec => []AloneInv
  BY AloneInit, AloneStep, Scored, Loading, PTL DEF Spec
<1> QED
  BY <1>1, <1>2, PTL
=============================================================================
