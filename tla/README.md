# A TLA+ verification project for CMSC421-OS

The repository holds the programs of an operating-systems course: two kernel
modules that play Mastermind with a virtual network device (`proj2`), an earlier
version of the game (`proj1`), a memory allocator (`hw4`), two multi-threaded
quiz games (`final`, `midterm`), a multi-threaded simulation (`hw3`) and small
exercises. This directory models the concurrent and stateful ones.

## 1. Inventory

| Component | State | Operations | What is hard | What makes it correct |
|---|---|---|---|---|
| CS421Net device, `proj2/xt_cs421net.c` | list of packets, `enabled` flag, completion `retrieved`, one work item | `filter_tg` (softirq on any CPU), `cs421net_work_func` (workqueue), `cs421net_get_data` (interrupt thread), enable, disable, exit | the lock covers single list operations; the completion is shared by four parties; enable, disable and exit take no lock | every packet is handed out once, in order, or given up; nobody reads a freed entry; a work returns |
| Mastermind2 game, `proj2/mastermind2.c` | palette, code, statistics, a list of games, one per user | read, write, mmap of `/dev/mm`; write of `/dev/mm_ctl`; `cs421net_bottom`; `mm_stats_show` | `find_game` releases the lock before the body uses its pointer; one code for all; values read before the lock | one game per user; a call touches only the caller's game; status, log and counts agree; the code is valid |
| Control input, same file | none | parsing of `mm_ctl_write` | short writes, uninitialised bytes | only documented commands are accepted |
| Scoring, `mastermind2.c`, `proj1/mastermind.c` | none | two nested loops over one array of marks | repeated colours | black and white pegs as by the rules |
| Driver lifecycle, `mastermind2.c` | registrations, open files, the games that were freed | probe, remove, open, close | order of freeing and deregistering, error unwinding, calls and interrupts during both | nothing registered is left behind; freed games are used in no other order than those of section 3; every packet is counted once |
| hw4 allocator, `hw4/hw4.c` | a table of frames, a semaphore | malloc, free, realloc, usable_size, stats | nested calls with the semaphore held, early exits, double posts, `int` arithmetic | blocks never overlap, no frame is lost, every call returns |
| proj1 game, `proj1/mastermind.c` | one global game without a lock | write of `/dev/mm` and `/dev/mm_ctl`, init, exit | every access of every handler interleaves, also inside the texts that it writes; devices are registered before the game is initialised | status, log and count agree as far as calls do not overlap; the log is there when it is written |
| Quiz games, `final/final.c`, `midterm/midterm.c` | scores, buzzers, `num`, `failed_tries`, two completions or condition variables | contestant and host threads | signals that the wrong thread consumes, spurious wakeups, unload while threads run | a question is answered or failed by all before the next; the game ends |
| Simulation, `hw3/hw3.c` | candy of houses and groups, a semaphore for each house | group threads, the neighbourhood thread, `main` | unlocked reads, semaphores destroyed early | candy is conserved; a group that chose a house for its candy finds it there unless another took it; everyone returns |
| `hw1`, `hw2`, `ex.c`, `proj2/cs421net.c`, tests, scripts | | | pure input and output, or no code | not modelled |

The device and the game interact through four calls (`cs421net_enable`,
`_disable`, `_get_data`, and the interrupt that the device triggers). The game's
handlers share state under one spin lock with each other and with the interrupt
thread. `probe` and `remove` switch both on and off while processes may be inside
calls. The other programs stand alone.

## 2. Modules

| Module | What it models |
|---|---|
| `PacketQueue` | abstract: a queue whose head is delivered or given up, once, and then freed |
| `CS421Net` | `xt_cs421net.c`, the interrupt thread, and probe and remove as the device sees them; `PQ` maps it to `PacketQueue` |
| `Pegs` | the scoring loops |
| `Scores` | every pair of a code and a guess, scored by both, against the rules of the game; extends `Pegs` |
| `MmCtl` | what a write to `/dev/mm_ctl` means |
| `Mastermind2` | the game, extends `Pegs` and `MmCtl` |
| `Driver` | probe, remove, open files, and the composition of `CS421Net` (`Net`) and `Mastermind2` (`Game`) |
| `Mastermind1` | the game of `proj1`, access by access, and its init and exit; extends `Pegs` |
| `Heap` | abstract: a worst-fit heap of blocks |
| `FrameAlloc` | `hw4.c`; `H` maps it to `Heap` |
| `Quiz` | abstract: a question is open to all, is tried once by each, and is won or failed by all before the next |
| `QuizGame` | the shared state of both quiz programs, and what answers and questions do to it |
| `Midterm`, `Final` | the threads of `midterm.c` and `final.c`, extending `QuizGame`; `Q` maps each to `Quiz` |
| `TrickOrTreat` | the threads and `main` of `hw3.c` |
| `SumProofs` | theorems about `TrickOrTreat` and `Scores`, whose properties are sums |
| other `*Proofs` | theorems about the module whose name they bear, with proofs |
| `MC*` | values of the constants for TLC |

Definitions whose comment begins with "Fault" belong to no specification. Each
is a plausible bug in the operator that follows it; putting it in that
operator's place must break the property that `PROJECT.json` names under
"mutants", which shows that the property can fail.

**CS421Net.** A packet is its number in the order of arrival; `list`, `enabled`,
`retrieved` are the variables of the code, and `filter`, `worker`, `bottom`,
`driver` are the places where each party stands. A step is a section under the
spin lock, or one statement outside it. So `cs421net_get_data` is three steps
(take the head, complete, read the entry), `cs421net_enable` and `_disable` are
two each, and `filter_tg` is capture, add and queue. `queue_work` on a pending
item does nothing, and a running item may be queued again: `pending` is a flag
apart from `worker`. `FilterStep`, `WorkStep`, `BottomStep` and
`DriverStep` move one party and say what it never touches; each action adds its
own guard and effect. `fetched` and `unannounced` are history variables for the
properties. Kernel services (`trigger_irq`, the threaded interrupt, `free_irq`,
the workqueue, `cancel_work_sync`) are modelled as far as the code relies on them.
The workqueue's thread receives no signals, so the interruptible wait ends only
through the completion.

**Mastermind2.** A system call has two steps, `find_game` and the body, each
under the lock in the code; entering the call is a step of its own because
`mm_write` reads `NUM_COLORS` there, before any lock. `cs421net_bottom` likewise
reads `NUM_COLORS` first. A game is a record with the fields of `struct mm_game`; a
pointer to it is its place on the list. Text is reduced to what it tells: the
status is a kind with its numbers, a line of the log is its pegs. mmap and read
change nothing. A byte is a number counted from `'0'`. The last byte of a short
write is not initialised and may be any of `Garbage`, so `NUM_COLORS` may be
negative; a random digit is then a remainder by a huge unsigned number
(`Remainders`). `cs421net_bottom` reads the bytes of the packet twice, to check and
to store them (`BottomInstall(checked, data)`); `Refetch` says whether the second
reading may differ, which only `Driver` can tell.

**FrameAlloc.** The semaphore is a counter, and the sections it guards are a few
steps each (search, mark, release, resize, lookup), because the code's mistakes
are in how it counts. `my_realloc` calls the steps of `my_malloc` and `my_free`
with the field `op` of the call telling where to return. `Scan` is the loop of
`my_malloc`, frame by frame, and the abstract `Heap` says what it must find. The
`sem_post` of a refused pointer and the signal are two steps (`ResizeBad`,
`ResizeRaise`; `ReleaseBad`, `Raise`). A
signal either ends the process (`alive`) or, with `HandlesSegv`, returns, as with
the handler that `hw4_test.c` installs. When the semaphore admits two threads,
finer interleavings than these steps exist; no run and no theorem is about that
case. `NumOfFrames` keeps the width of `int`.

**Driver.** `bind` is how far probe, the labels of its error path, or remove have
come; each registration succeeds or jumps to its label. The interrupt thread holds
the game's lock from `cs421net_get_data` to the end of `cs421net_bottom`
(`LockFree`), so the variable `bottom` of `CS421Net` is also the flag of
`Mastermind2` that the handler is running. `remove` frees the games and leaves
them on the list: `freed` counts them. A call that looks at one, or the remove of
a later load, which walks the list and frees them again, may do anything, so the
behaviour ends there (`corrupt`). What is read from a packet that the worker has
freed is any payload, and another one when it is read again. `careless` and `staleRead` are history
variables.

**Mastermind1.** `proj1/mastermind.c` has no lock, so every access to the shared
game is a step of its own: `num_guesses++` is a read and a write, a new code is
written peg by peg, and both loops of a score read one peg of the code in a step.
The status and the log are arrays of cells. A cell is a part of a text that a
property tells from the next one: a guess is a cell up to its black pegs and one
with its white pegs, and NUL is a cell of the log. `scnprintf` and `memset` write
one cell in a step, and `strcat` looks at one cell in a step until it finds the
end and then copies one in a step, NUL included, so texts of two writers mix. What
is inside a cell cannot be torn; a status whose pegs come from two writers, or are
half written, can be. `call` holds the local variables; the process that loads the
module takes the same steps as a start when it initialises the texts.
`overlapped` remembers that two calls, or a call and `mastermind_init`, were in
progress together, and `mixed` that one process wrote the status inside the text
of another. After `mastermind_exit` has freed the log the model goes on, but
nothing is claimed of what a call then writes.

**Quiz games.** A thread of `midterm.c` holds the mutex from its return out of
`pthread_cond_wait` to its next call, even while it sleeps; that is one step.
`Spurious` is the set of threads whose wait may return without a signal. In
`final.c` a thread takes a completion before it takes the mutex, which are two
steps (`Take`, then an action on `granted`), and `reinit_completion` under the
mutex may wipe out what was signalled meanwhile. `jeop_exit` may come at any time;
the model ends there.

**TrickOrTreat.** Choosing a house reads its candy without the semaphore, one house
in a step; taking candy is entering (wait and read) and two writes, the second of which comes
with the post. Where there is enough, the house is reduced first (`Take`); where
there is not, the group's candy is increased first (`AddRest`). `why` remembers
whether a group preferred a house to its first candidate because it read enough
candy there, and whether another group took candy there since. The file of refills is a set of lines that
the neighbourhood thread reads. `before`, `supplied` and `total` serve the
properties; `total` is what `printStatus` adds up.

## 3. Runs

All constants are in the `.cfg` files; every bound is a named constant in a guard.
Deadlock is not checked: packets, calls and loads stop at the bounds, and modules,
processes and games really end.

| Run | Configuration | Shows |
|---|---|---|
| `net_life` | 2 CPUs, 3 packets, 2 loads, exit | `WorkerHasEntry`, `FetchedInOrder`, `LockstepInLoad` and `ExitReturns` through loads, removals and exit |
| `net_steady` | 3 CPUs, 4 packets, driver loaded | refinement of `PacketQueue`, delivered once, `WorkReturns`, `ProcessedUnlessShared` |
| `net_stale` | as `net_life` | the violation below |
| `pegs_scores` | 4 colours, all codes and guesses | bounds of both loops against the rules; exact without repeated colours (proj1) |
| `game_players` | 2 processes of one user, 1 of another, who may change the palette; 2 starts, 2 guesses, one interrupt with a good or a bad packet; a byte below '0' for the uninitialised one | `OneGamePerPlayer`, `OwnGame`, `OnlyOwnGameChanges`, `GameConsistent`, `CodeOfKnownDigits` |
| `driver` | 1 CPU, 2 packets, one process, two loads, at most one packet with the second, nobody may change the palette | `NothingLeftBehind` after a failed probe and a remove, `EachPacketCountedOnce`, `CodeHasOrigin`, `FreedGamesLeftAlone` |
| `proj1_game` | 2 processes, fixed code, 2 guesses, 3 calls, one load | `ScoreWithinPegs`, `AgreementWithoutOverlap`, `NothingLeftBehind`, `LogIsThereUntilExit` |
| `heap_threads` | 2 threads, 3 frames, SIGSEGV ends the process | `MutualExclusion`, `ReservedFramesHaveOneBlock`, `BlockIsItsCallers` |
| `heap_sequential` | 1 thread, 4 frames, SIGSEGV handled | refinement of `Heap`, `GrowReturnsWithSpare` |
| `quiz_midterm` | 3 contestants, 3 questions, spurious wakeups of contestants | `QuizInv`, refinement of `Quiz`, `GameEnds` |
| `quiz_final` | 3 contestants, 3 questions, unload at any time | `QuizInv`, `TurnLostOnlyAfterFailure`, refinement of `Quiz`, `EndsOrSticks` |
| `trick_or_treat` | 4 houses, 2 groups, one refill | `CandyConserved`, `TotalIsBetween`, `ShortOnlyIfRobbed`, `AllReturn` |

`TypeOK` is a conjunct of `FetchedInOrder`, `QuizInv`, `CandyConserved`,
`NothingLeftBehind` and `ReservedFramesHaveOneBlock`, and an invariant by itself in
`game_players`.

Three CPUs and four packets let one packet be freed, one wait, one lie between the
list and its work, and one arrive; with two loads, two CPUs and three packets give
a reload over leftover state. `CompleteAll` is 2 instead of `UINT_MAX / 2`: the
code tests only for zero. Four colours let each peg differ and any repeat. Two
processes of one user race in `find_game`; a third belongs to another user, and
the first two are interchangeable (symmetry). In `driver` one packet is a good code and one is refused, so a stale read can turn
either into the other; one process is enough for a call during remove, and what
processes and changes of the palette do is the matter of `game_players`. Two loads
make the second remove meet the games of the first; `FewPackets` keeps behaviours
with two packets in the first load, where the properties of packets have their
cases. In `proj1_game` two
processes make any race of two accesses; the code is the fixed one, because random
codes multiply the states and no property depends on the digits. Three calls
(`MaxCalls`) are a start and two that race, or a start, a guess and a second start
or a quit; two of them (`MaxEarly`) may come while the module is being loaded or
unloaded, which is enough for two to race with `mastermind_init`. Three and four frames give regions
that are split, equal in size, and at the end of memory; the sizes cover zero, an
odd number of bytes, all of the memory and more. Three contestants are those of the
programs; three questions give a first, a middle and a last one. Four houses on a
line, of which two are homes, give a choice between a near empty house and a
farther full one while another group and a refill change them.

**Where code and documents disagree.** `net_stale` checks one sentence and TLC
finds a behaviour of the code against it: xt_cs421net.c:76 says that `get_data`
returns the oldest data, but the worker may free the entry after `complete` and
before it is read.

The models contain more such behaviours, which no run singles out:

* Two packets share a pending work and the second stays on the list for ever
  (xt_cs421net.c:2 says that every packet raises an interrupt);
  `ProcessedUnlessShared` shows that this is the only way to be left behind while
  a driver is loaded.
* A packet between the two statements of `cs421net_enable` is acknowledged before
  `reinit_completion`, which wipes the acknowledgement out (`:51`); the worker
  waits for ever.
* A work that starts after `free_irq` triggers an interrupt that nobody handles
  (`xt_cs421net.c:117`); when the count that `complete_all` left is used up it waits
  through the whole next load, whose packets only share the pending work. Or the
  count is left over in the next load's window between the statements of
  `cs421net_enable`: a packet is freed unseen and its interrupt finds the device
  empty.
* With a work queued behind a running one, `cs421net_exit` may hang: the running
  work's `reinit_completion` undoes `complete_all` (`:206`) before the queued one
  waits. `ExitReturns` shows that nothing else makes it hang.
* `remove` frees the games and leaves them on the list (`mastermind2.c:730`). A
  device file that is open across it, or opened after the next probe, leads a call
  to them. Without any file, the remove of the next load walks the list, touches
  them and frees them a second time. `FreedGamesLeftAlone` shows that there is no
  other way: the interrupt, which runs on through remove, touches none, nor does
  a first load without such a file.
* `NUM_COLORS` may come from an uninitialised byte (`:505`). If that is below '0' the
  number is negative: no packet is accepted any more, and a random code may hold
  nearly any `int` (`:470`).
* proj2 shows too few white pegs when colours repeat: for the guess 1200 of the
  code 0012 two, not the four of `mastermind2-test.c:85`. proj1 shows too many.
* A prefix of "start", even an empty write, starts a game (`mastermind2.c:449`).
* A start by one user changes the code of all (`:476`), and a packet may install
  digits of a palette that was replaced meanwhile (`:582`).
* The statistics print the number of starts, not of active players (`:645`), and
  about 180 guesses overrun the page of the log (`:337`).
* proj1 loses a guess or a line of the log when two calls overlap
  (`proj1/mastermind.c:200`, `:236`), tears lines of the log and the status when two
  calls write them (`:226`), scores a guess against half of an old code and
  half of a new one (`:204`), and frees the log before the devices go (`:409`).
  A first call may come before `mastermind_init` has initialised the game (`:388`).
* hw4: a double free posts the semaphore twice, after which two calls may get one
  frame (`hw4.c:274`). `my_realloc` to a greater size waits for the semaphore that
  it holds (`:359`); to the same size it keeps it (`:371`).
  `my_malloc_usable_size` reads the size after `sem_post` (`:406`): when another
  thread frees or resizes the same block meanwhile, it reports what is no longer
  so; `BlockIsItsCallers` shows that nothing else on the heap can do that. With a
  handler of SIGSEGV and two threads the table is not protected at all. With a size of 2^37 bytes the number of frames wraps to 0 and
  frames are lost (`:337`). `hw4_test.c` reallocates to a greater size and passes,
  because its test 5 frees a block twice before and so leaves the semaphore at 2;
  `GrowReturnsWithSpare` is that case.
* hw3: the comment at `hw3.c:56` says that `findClosestHouse` finds the "closest
  home with the most candy". The code takes the first candidate whatever candy it
  has (`:214`), and a later one only if it is nearer and has enough for the group
  (`:219`); it never compares how much candy two houses have, and a house with
  enough that is farther than an empty first candidate is not chosen.
* midterm: a spurious wakeup of `main`, which POSIX allows, ends a question that is
  still open (`midterm.c:94`), although the comment at `:93` says that it waits for
  the contestants to finish.
* final: a contestant who failed waits again and may take the turn that was just
  passed on; not being allowed to buzz, it drops the turn, and everyone waits for
  ever (`final.c:54`, `:71`). `jeop_exit` frees the contestants under running
  threads (`:126`).

**Fairness.** All fairness is weak. `NetFairness`: a softirq that has begun runs to its end, and the kernel schedules the
workqueue's thread and the interrupt thread. `DriverFairness`: a probe
or a remove that has begun goes on; `ExitFairness`: so does `cs421net_exit` once the
target is unregistered. Nothing makes packets arrive, nor drivers come or go.
`FairSpec` of `FrameAlloc`: a thread that can go on inside a call does. Of
`Midterm` and `Final`: the scheduler runs each thread that can run; which waiter
gets a signal or the mutex is left open. A contestant that waits for the mutex can
run whenever no other step is in progress, because a stretch under the mutex is one
step. Of `TrickOrTreat`: each group, the neighbourhood thread and `main` run while
they can, and a semaphore may be given to anyone who waits.

## 4. Proofs

All for every value of the constants that meets the named assumptions of the
modules (`...Assumption`) and the hypotheses named here. A theorem that needs a
hypothesis states it as its own `ASSUME`.

* `CS421NetProofs`, the life: `TypeCorrect`. `EntriesForWorks`: the
  invariant counts the CPUs that have added but not yet queued, the pending work
  and the running one; every step that adds to the count has added an entry
  before. It needs `DriverOK`, that the list is only freed when nothing runs.
  `FetchOrder`: the list and what was handed out are both in the order of arrival,
  and nothing on the list is older than what was handed out (`OrderInv`); that
  survives reloads, because an entry is removed only at the head or with the whole
  list. The order is not strict: after a reload a packet may be handed out again,
  which `FetchedInOrder` allows and `FetchedOnce` does not. `FreedIrqIsQuiet`: when
  `free_irq` has returned no interrupt is on its way and no handler runs.
  `LockstepEveryLoad`: whether a load is in lockstep is decided when it resets the
  completion; a waiting work or an interrupt under way at that moment is how the
  packets of section 3 are lost. `ExitNeverHangs`: the part of `ExitReturns` that
  needs no fairness; after `complete_all` a work that has yet to wait finds the
  completion still up, since the only `reinit_completion` before it would be that of
  a work ahead of it (`GoesOn`).
* `CS421NetProofs`, one driver: with a loaded driver `Lockstep` is inductive
  together with the entries (`SteadyInvariance`; `SteadyNeverNull` follows).
  `SteadyRefinement` maps every step to a step of `PacketQueue` or a stutter. Of
  the queue, `Numbered` (it holds consecutive numbers, all earlier ones were
  settled) is inductive and gives `QueueOnce` and `QueueLossless`, which
  `SteadyDelivery` transports to the device. `ProbeDelivery` covers what
  `SteadySpec` leaves out, the probe itself: `Lockstep` is false there, since
  `cs421net_enable` may wipe out an acknowledgement, but one half of it survives
  (`Handshake`: the interrupt thread has work only while the worker waits for it),
  and with the head of the list unseen unless acknowledged (`OnceInv`) it is enough
  for `NeverNull` and `FetchedOnce` (`FirstInv`).
* `Mastermind2Proofs`: `Invariance` of the conjunction of type correctness, one
  game per user, own game, and consistency of every game, action by action;
  four theorems are its parts. `OwnGame` needs `OneGame`'s neighbour fact that
  games are only appended, and consistency of a scored game needs that an active
  game has no winning line. `KnownDigits` adds to the types that `NUM_COLORS`, and
  `highest_digit` plus one while the interrupt thread keeps it, are numbers of
  colours that were in force, negative ones included; it covers random codes, which
  no run does. It assumes `~Refetch`: a packet that the worker frees between the check
  of its bytes and their use may put anything into the code. The one number left
  out is 0 with random codes, the division by zero (`DivisorAssumption`). `OwnChanges` follows
  from `WhoChanges`, the list of the ways a step may change a game.
* `DriverProofs`: `DeviceImplemented` and `GameImplemented` show that the driver
  refines both parts as their own modules specify them, with packets read after
  they were freed among the inputs of the game. So the theorems about the parts
  hold in it (`PartsHold`, where that of the digits of the code holds until a packet
  was read after its free, and `OwnGameOnly` of the steps: not even remove takes a
  game from the list), and only what the composition adds is proved anew.
  `CleanUnbound`: at every stage of probe, of its labels and of remove it is fixed
  which registrations exist (`Registered`) and where the device's driver is
  (`DriverAt`). `FreedLeftAlone`: a call holds a file open, and while nobody is
  careless no file is open once games were freed (`FileInv`); so only the walk of a
  later remove is left, and a first one finds no freed game. `CodeOrigin`: the
  packet in the handler's hands was handed out, and nothing handed out is forgotten
  (`OriginInv`); it assumes the fixed code of start (`RandomCode = FALSE`), since a
  random code has no origin to name. `CountedOnce`: until the first remove the device makes only
  steps of a first driver, so `FirstInv` holds there, and with it the counters plus
  the packet in hand follow the packets handed out (`LoadInv`).
* `FrameAllocProofs`: `TypeCorrect` without hypotheses. `OneInside`: without a
  handler of SIGSEGV the semaphore is a mutex; the invariant names the places
  where it is held, nested calls of `my_realloc` included. `FramesAccountedFor`
  and `WorstFitHeap` assume `Serial` (no handler, or one caller, for whom a
  second post lets nobody in) and `NoWrap` (no size whose frames overflow `int`);
  so does `OwnBlock`: whoever is about to write frames holds the semaphore and names
  the block, and a search has only chosen free ones. Each hypothesis excludes a behaviour that section 3
  lists. The argument: the loop
  of `my_malloc` finds the worst fit (`LargestIs`); a found region is still the
  worst fit when it is marked, because the sections are apart (`Pending`); and every
  step leaves the table alone, reserves a free region, releases a block or trims
  one (`TableStep`), each of which keeps `Layout` and is a step of `Heap`.
* `Mastermind1Proofs`: `Score`: each call counts every place it marks once, however
  the code changes under it, and the cells of a status that nobody else wrote
  meanwhile are of one text (`ScoredInv`, `MixInv`). `CleanFailure` and `LogThere`: which
  devices and memory exist at each stage of init and exit, and that nobody is past
  the first test of `mm_write` before both devices are there (`LoadInv`). `Agreed`:
  as long as nothing overlapped, what the one call under way has changed is
  determined by the step it is at (`AloneInv`).
* `MidtermProofs`: `QuizInv` is inductive when `main` has no spurious wakeup
  (`Alex \notin Spurious`, the assumption of both theorems). That main is
  signalled for settled questions only needs the count of the failures
  (`WrongCounted`: the last failure is the one after which no buzzer is set); that
  nobody sleeps through a question needs that all have arrived and none has left
  when it is asked. `Refinement` maps every step to a step of `Quiz` or a stutter.
* `FinalProofs`: `QuizInv` is inductive: the turn is a token whose places
  (completions, holders, host) are counted by `Turns`, and a contestant who has it
  is the only holder (`OnlyHolder`), so no `reinit_completion` wipes out a signal.
  `TurnLost` derives from it which single step loses the turn; `Refinement` is as
  in `MidtermProofs`. The lemmas about answers and questions are the same in both
  modules, about the operators of `QuizGame` that both extend.
* `SumProofs`, the candy: `Conserved`: whoever is inside a house is the only one there
  and has read what there still is (`DoorInv`), so the writes that follow change
  the sum by what they say; between the two writes of a group that found too little
  its candy counts twice (`CandyInv`). `TotalSeen`: the groups not yet read have
  at least what is missing to `before`, those already read have no less than was
  read (`TotalInv`). `ShortOfCandy`: from the moment a group
  has read enough candy at the house it prefers, the house keeps that much until
  another group takes some; refills only add, and a reader inside the house reads
  what there is (`TrustInv`).
* `SumProofs`, the scores: `Proj2Scores` and `Proj1Scores`, for any number of
  colours. Either loop counts every peg of the code once when it marks it, so black
  and white together are the number of marks (`Looked`, `Swept`), which is the sum
  over the colours of the marks of that colour (`MarksAddUp`). What the rules allow
  is a sum over the colours too (`MatchesIs`), so the sums are compared colour by
  colour (`SumsOrdered`): proj2 marks of a colour the black pegs and at most one
  more, and that only when the guess has the colour at another peg; proj1 marks all
  pegs of every colour that the guess uses.

`Scan` of `FrameAlloc` and the sums of `TrickOrTreat` are recursive functions.
That they exist, and what they compute, is proved without an induction principle,
which would take an operator as a parameter: a least (`Least`) or a smallest
(`Minimal`) counterexample would have a predecessor to contradict it.

Every invariant and action property of the passing runs, and every refinement
that they check, is stated by a theorem. Only model-checked:

* Liveness: `ExitReturns`, `WorkReturns`, `ProcessedUnlessShared`, `GrowReturnsWithSpare`,
  `GameEnds`, `EndsOrSticks`, `AllReturn`. Fairness needs `ENABLED`, which the
  provers used here do not handle.
* What holds without a theorem's hypothesis: spurious wakeups of `main`, several
  threads with a handler of SIGSEGV. There the properties fail.

## 5. Not modelled

* Bytes of packets and frames, text of status and log, file positions.
* Sleeping allocations under a spin lock (`mastermind2.c:131`); they need a
  scheduler.
* A palette of 0 colours with random codes, which divides by zero
  (`DivisorAssumption`); negative numbers of colours are modelled.
* A file of `hw3` with fewer lines of groups than it announces: `main` would join
  threads that it never created (`hw3.c:161`).
* `errno`. `my_malloc` of more than the whole memory returns NULL without ENOMEM.
* What happens after undefined behaviour: the use of a freed game ends the model
  (`Driver`), as does `jeop_exit` (`Final`). Semaphores destroyed while groups use
  them (`hw3.c:187`) are modelled as the C library of the build treats them: as if
  nothing had happened.
* `hw1`, `hw2`, `ex.c`, the packet sender, the port search, scripts and test
  programs: sequential input and output with no state beyond a call.

## 6. What is left

A load that begins with a waiting work or an interrupt under way, beyond order,
entries and exit: which packets may then be handed out again or freed unseen, as a
property of the count that `complete_all` left.
