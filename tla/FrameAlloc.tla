----------------------------- MODULE FrameAlloc -----------------------------
(***************************************************************************)
(* The worst-fit allocator of hw4/hw4.c, called by several threads.        *)
(*                                                                         *)
(* The semaphore "lock" is a counter: a section between sem_wait and       *)
(* sem_post is a few steps, because nothing but the counter keeps other    *)
(* threads out, and some paths post twice or not at all.  A pointer is     *)
(* the frame it is the address of, NULL, or Wild: any other address.       *)
(* The bytes of the frames are left out.                                   *)
(***************************************************************************)
EXTENDS Integers, FiniteSets

CONSTANTS
  Threads,          (* callers                                               *)
  NUM_OF_FRAMES, BYTES_PER_FRAME,
  Sizes,            (* inputs: sizes in bytes                                *)
  IntRange,         (* number of values of an int (2^32)                     *)
  HandlesSegv,      (* the program handles SIGSEGV and goes on (hw4_test.c)  *)
  MaxLock           (* Bound: value of the semaphore                         *)

ASSUME FrameAssumption ==
  NUM_OF_FRAMES \in Nat \ {0} /\ BYTES_PER_FRAME \in Nat \ {0}
ASSUME SizeAssumption == Sizes \subseteq Nat /\ IntRange \in Nat \ {0}
ASSUME SignalAssumption == HandlesSegv \in BOOLEAN
ASSUME BoundAssumption == MaxLock \in Nat \ {0}

Frames == 0..(NUM_OF_FRAMES - 1)
NULL == -1
Wild == NUM_OF_FRAMES
Pointers == Frames \cup {NULL, Wild}

VARIABLES
  TOTAL_FLAGS,      (* the allocation table                                  *)
  lock,             (* value of the semaphore                                *)
  call,             (* the call each thread is in, and how far               *)
  alive             (* no SIGSEGV has ended the process                      *)

vars == <<TOTAL_FLAGS, lock, call, alive>>

(* Where a thread waits for the semaphore, and where it goes on.           *)
Critical ==
  [malloc |-> "search", free |-> "release", realloc |-> "resize",
   usable |-> "lookup", stats |-> "print"]
Ops == DOMAIN Critical
At == Ops \cup {Critical[op] : op \in Ops}
          \cup {"idle", "mark", "raise", "signal", "readSize", "finish"}

Idle == [op |-> "none", at |-> "idle", ptr |-> NULL, size |-> 0, got |-> NULL]
Flag == [free : BOOLEAN, start_frame : BOOLEAN, num_of_frames : Nat]

TypeOK ==
  /\ TOTAL_FLAGS \in [Frames -> Flag]
  /\ lock \in Nat
  /\ call \in [Threads -> [op : Ops \cup {"none"}, at : At, ptr : Pointers,
                           size : Sizes \cup {0}, got : Pointers]]
  /\ alive \in BOOLEAN

-----------------------------------------------------------------------------
(***************************************************************************)
(* The table.                                                              *)
(***************************************************************************)
Cleared == [free |-> TRUE, start_frame |-> FALSE, num_of_frames |-> 0]

IsBlock(p) ==
  p \in Frames /\ TOTAL_FLAGS[p].start_frame /\ ~TOTAL_FLAGS[p].free

CeilFrames(size) == (size + BYTES_PER_FRAME - 1) \div BYTES_PER_FRAME

Clear(F) == [f \in Frames |-> IF f \in F THEN Cleared ELSE TOTAL_FLAGS[f]]

(* The loop of my_malloc after it has looked at the frames below i.        *)
Unscanned == [start |-> -1, size |-> 0, curr |-> -1, run |-> 0, first |-> TRUE]

(* Another free frame, and the end of a region. *)
Extended(s, f) ==
  IF s.first THEN [s EXCEPT !.curr = f, !.run = 1, !.first = FALSE]
             ELSE [s EXCEPT !.run = @ + 1]

Compared(s) ==
  IF s.run > s.size THEN [s EXCEPT !.start = s.curr, !.size = s.run] ELSE s

Scanned(s, f) ==
  IF ~TOTAL_FLAGS[f].free THEN [Compared(s) EXCEPT !.run = 0, !.first = TRUE]
  ELSE IF f = NUM_OF_FRAMES - 1 THEN Compared(Extended(s, f))
  ELSE Extended(s, f)

Scan[i \in 0..NUM_OF_FRAMES] ==
  IF i = 0 THEN Unscanned ELSE Scanned(Scan[i - 1], i - 1)

(* Fault: the start of the last region goes with the size of the largest. *)
LastRegion == [Scan[NUM_OF_FRAMES] EXCEPT !.start = Scan[NUM_OF_FRAMES].curr]

Largest == Scan[NUM_OF_FRAMES]

-----------------------------------------------------------------------------
(***************************************************************************)
(* Control: entering a call, waiting, posting, returning.                  *)
(***************************************************************************)
Goto(t, at) == call' = [call EXCEPT ![t].at = at]
Return(t) == call' = [call EXCEPT ![t] = Idle]
Post == lock' = lock + 1

(* my_realloc of NULL is my_malloc, and of size 0 it is my_free;           *)
(* my_malloc_usable_size of NULL returns before the semaphore.             *)
Enter(t, op, p, size) ==
  /\ call[t].at = "idle"
  /\ op = "usable" => p # NULL
  /\ LET does == IF op # "realloc" THEN op
                 ELSE IF p = NULL THEN "malloc"
                 ELSE IF size = 0 THEN "free" ELSE "realloc"
     IN  call' = [call EXCEPT ![t] =
           [op |-> does, at |-> does, got |-> NULL,
            ptr |-> IF does \in {"malloc", "stats"} THEN NULL ELSE p,
            size |-> IF does \in {"malloc", "realloc"} THEN size ELSE 0]]
  /\ UNCHANGED <<TOTAL_FLAGS, lock, alive>>

SemWait(t) ==
  /\ call[t].at \in Ops
  /\ lock > 0
  /\ lock' = lock - 1
  /\ Goto(t, Critical[call[t].at])
  /\ UNCHANGED <<TOTAL_FLAGS, alive>>

(* my_malloc returns p, to its caller or to my_realloc. *)
Malloced(t, p) ==
  IF call[t].op = "malloc" THEN Return(t)
  ELSE call' = [call EXCEPT ![t].at = IF p = NULL THEN "finish" ELSE "free",
                            ![t].got = p]

(* my_free returns, to its caller or to my_realloc. *)
Freed(t) == IF call[t].op = "free" THEN Return(t) ELSE Goto(t, "finish")

-----------------------------------------------------------------------------
(***************************************************************************)
(* my_malloc.                                                              *)
(***************************************************************************)
SearchFails(t) ==
  /\ call[t].at = "search"
  /\ \/ call[t].size = 0
     \/ call[t].size > Largest.size * BYTES_PER_FRAME
  /\ Post
  /\ Malloced(t, NULL)
  /\ UNCHANGED <<TOTAL_FLAGS, alive>>

Search(t) ==
  /\ call[t].at = "search"
  /\ call[t].size # 0
  /\ call[t].size <= Largest.size * BYTES_PER_FRAME
  /\ call' = [call EXCEPT ![t].at = "mark", ![t].got = Largest.start]
  /\ UNCHANGED <<TOTAL_FLAGS, lock, alive>>

(* Fault: sem_post is left out. *)
MarkWithoutPost(t) ==
  /\ call[t].at = "mark"
  /\ LET s == call[t].got
         n == CeilFrames(call[t].size)
     IN  TOTAL_FLAGS' = [f \in Frames |->
           IF f \in s..(s + n - 1)
           THEN [free |-> FALSE, start_frame |-> f = s, num_of_frames |-> n]
           ELSE TOTAL_FLAGS[f]]
  /\ Malloced(t, call[t].got)
  /\ UNCHANGED <<lock, alive>>

Mark(t) ==
  /\ call[t].at = "mark"
  /\ LET s == call[t].got
         n == CeilFrames(call[t].size)
     IN  TOTAL_FLAGS' = [f \in Frames |->
           IF f \in s..(s + n - 1)
           THEN [free |-> FALSE, start_frame |-> f = s, num_of_frames |-> n]
           ELSE TOTAL_FLAGS[f]]
  /\ Post
  /\ Malloced(t, call[t].got)
  /\ UNCHANGED alive

-----------------------------------------------------------------------------
(* Fault: the loop stops one frame early. *)
ReleaseShort(t) ==
  /\ call[t].at = "release"
  /\ \/ call[t].ptr = NULL /\ UNCHANGED TOTAL_FLAGS
     \/ /\ IsBlock(call[t].ptr)
        /\ LET i == call[t].ptr
           IN TOTAL_FLAGS' = Clear(i..(i + TOTAL_FLAGS[i].num_of_frames - 2))
  /\ Post
  /\ Freed(t)
  /\ UNCHANGED alive

(***************************************************************************)
(* my_free.  A bad pointer posts, raises SIGSEGV and, when a handler       *)
(* returns, posts once more.                                               *)
(***************************************************************************)
Release(t) ==
  /\ call[t].at = "release"
  /\ \/ call[t].ptr = NULL /\ UNCHANGED TOTAL_FLAGS
     \/ /\ IsBlock(call[t].ptr)
        /\ LET i == call[t].ptr
           IN TOTAL_FLAGS' = Clear(i..(i + TOTAL_FLAGS[i].num_of_frames - 1))
  /\ Post
  /\ Freed(t)
  /\ UNCHANGED alive

ReleaseBad(t) ==
  /\ call[t].at = "release"
  /\ call[t].ptr # NULL /\ ~IsBlock(call[t].ptr)
  /\ Post
  /\ Goto(t, "raise")
  /\ UNCHANGED <<TOTAL_FLAGS, alive>>

Raise(t) ==
  /\ call[t].at = "raise"
  /\ IF HandlesSegv
     THEN lock < MaxLock /\ Post /\ Freed(t) /\ UNCHANGED alive
     ELSE alive' = FALSE /\ UNCHANGED <<lock, call>>
  /\ UNCHANGED TOTAL_FLAGS

-----------------------------------------------------------------------------
(***************************************************************************)
(* my_realloc.  Of numOfFrames, an int, only the low bits remain.          *)
(***************************************************************************)
NumOfFrames(size) == CeilFrames(size) % IntRange

ResizeBad(t) ==
  /\ call[t].at = "resize"
  /\ ~IsBlock(call[t].ptr)
  /\ Post
  /\ Goto(t, "signal")
  /\ UNCHANGED <<TOTAL_FLAGS, alive>>

(* A handler returns, and so does my_realloc. *)
ResizeRaise(t) ==
  /\ call[t].at = "signal"
  /\ IF HandlesSegv THEN Return(t) /\ UNCHANGED alive
                    ELSE alive' = FALSE /\ UNCHANGED call
  /\ UNCHANGED <<TOTAL_FLAGS, lock>>

(* Fault: the block keeps its old length. *)
ShrinkKeepsLength(t) ==
  /\ call[t].at = "resize"
  /\ IsBlock(call[t].ptr)
  /\ LET i   == call[t].ptr
         n   == NumOfFrames(call[t].size)
         old == TOTAL_FLAGS[i].num_of_frames
     IN  /\ n < old
         /\ TOTAL_FLAGS' =
              Clear(IF n = 0 THEN {i} ELSE (i + n)..(i + old - 1))
  /\ Post
  /\ Return(t)
  /\ UNCHANGED alive

(* With numOfFrames = 0 the loop stops after it has cleared frame i. *)
Shrink(t) ==
  /\ call[t].at = "resize"
  /\ IsBlock(call[t].ptr)
  /\ LET i   == call[t].ptr
         n   == NumOfFrames(call[t].size)
         old == TOTAL_FLAGS[i].num_of_frames
     IN  /\ n < old
         /\ TOTAL_FLAGS' =
              [Clear(IF n = 0 THEN {i} ELSE (i + n)..(i + old - 1))
                 EXCEPT ![i].num_of_frames = n]
  /\ Post
  /\ Return(t)
  /\ UNCHANGED alive

(* my_malloc is called with the semaphore held. *)
Grow(t) ==
  /\ call[t].at = "resize"
  /\ IsBlock(call[t].ptr)
  /\ NumOfFrames(call[t].size) > TOTAL_FLAGS[call[t].ptr].num_of_frames
  /\ Goto(t, "malloc")
  /\ UNCHANGED <<TOTAL_FLAGS, lock, alive>>

(* The loop breaks, and the call returns NULL without sem_post. *)
SameSize(t) ==
  /\ call[t].at = "resize"
  /\ IsBlock(call[t].ptr)
  /\ NumOfFrames(call[t].size) = TOTAL_FLAGS[call[t].ptr].num_of_frames
  /\ Return(t)
  /\ UNCHANGED <<TOTAL_FLAGS, lock, alive>>

(* my_realloc after its calls of my_malloc and my_free. *)
Finish(t) ==
  /\ call[t].at = "finish"
  /\ Post
  /\ Return(t)
  /\ UNCHANGED <<TOTAL_FLAGS, alive>>

-----------------------------------------------------------------------------
(* Fault: the semaphore is posted in the branch and after it. *)
LookupPostsTwice(t) ==
  /\ call[t].at = "lookup"
  /\ lock' = lock + 2
  /\ IF IsBlock(call[t].ptr) THEN Goto(t, "readSize") ELSE Return(t)
  /\ UNCHANGED <<TOTAL_FLAGS, alive>>

(***************************************************************************)
(* my_malloc_usable_size reads num_of_frames after sem_post; stats only    *)
(* reads.                                                                  *)
(***************************************************************************)
Lookup(t) ==
  /\ call[t].at = "lookup"
  /\ Post
  /\ IF IsBlock(call[t].ptr) THEN Goto(t, "readSize") ELSE Return(t)
  /\ UNCHANGED <<TOTAL_FLAGS, alive>>

ReadSize(t) ==
  /\ call[t].at = "readSize"
  /\ Return(t)
  /\ UNCHANGED <<TOTAL_FLAGS, lock, alive>>

PrintStats(t) ==
  /\ call[t].at = "print"
  /\ Post
  /\ Return(t)
  /\ UNCHANGED <<TOTAL_FLAGS, alive>>

-----------------------------------------------------------------------------
(* main has initialised the table. *)
Init ==
  /\ TOTAL_FLAGS = [f \in Frames |-> Cleared]
  /\ lock = 1
  /\ call = [t \in Threads |-> Idle]
  /\ alive = TRUE

Inside(t) ==
  \/ SemWait(t)
  \/ SearchFails(t) \/ Search(t) \/ Mark(t)
  \/ Release(t) \/ ReleaseBad(t) \/ Raise(t)
  \/ ResizeBad(t) \/ ResizeRaise(t) \/ Shrink(t) \/ Grow(t) \/ SameSize(t) \/ Finish(t)
  \/ Lookup(t) \/ ReadSize(t) \/ PrintStats(t)

Step(t) ==
  \/ \E op \in Ops, p \in Pointers, size \in Sizes : Enter(t, op, p, size)
  \/ Inside(t)

Next == alive /\ \E t \in Threads : Step(t)

Spec == Init /\ [][Next]_vars

(* A thread inside a call that can go on does. *)
FairSpec == Spec /\ \A t \in Threads : WF_vars(alive /\ Inside(t))

-----------------------------------------------------------------------------
(***************************************************************************)
(* Properties.                                                             *)
(***************************************************************************)

(* A thread holds the semaphore in its sections, and my_realloc holds it   *)
(* around its calls of my_malloc and my_free.                              *)
Holds(t) ==
  \/ call[t].at \in {Critical[op] : op \in Ops} \cup {"mark", "finish"}
  \/ call[t].op = "realloc" /\ call[t].at \in {"malloc", "free"}

(* While no SIGSEGV handler lets my_free post twice, at most one thread is *)
(* inside, and the semaphore is 0 while one is.                            *)
MutualExclusion ==
  alive => lock + Cardinality({t \in Threads : Holds(t)}) <= 1

(* The frames that are not free are exactly those of the blocks, so no     *)
(* frame is lost for good and none is in two blocks (hw4.c:16).            *)
BlockFrames(i) == i..(i + TOTAL_FLAGS[i].num_of_frames - 1)
Blocks == {i \in Frames : IsBlock(i)}

ReservedFramesHaveOneBlock ==
  /\ TypeOK
  /\ \A f \in Frames :
       IF TOTAL_FLAGS[f].free
       THEN ~TOTAL_FLAGS[f].start_frame
              /\ \A i \in Blocks : f \notin BlockFrames(i)
       ELSE \E i \in Blocks : /\ f \in BlockFrames(i)
                              /\ \A j \in Blocks \ {i} : f \notin BlockFrames(j)

(* The table is a heap: blocks never overlap and every new one is the      *)
(* worst fit of the free frames at the moment it is marked (hw4.c:171).    *)
H == INSTANCE Heap WITH
       N <- NUM_OF_FRAMES,
       blocks <- {[start |-> i, frames |-> TOTAL_FLAGS[i].num_of_frames] :
                    i \in Blocks}

IsHeap == H!Spec

(* A block belongs to its callers: no frame of it is written but by a      *)
(* my_free or my_realloc of its own address.  Every change is split from   *)
(* the look at the table that chose its frames, and trusts lengths that    *)
(* were stored long ago.  So my_malloc_usable_size, which reads a length   *)
(* after sem_post (hw4.c:406), can be late only for an owner that frees or *)
(* resizes that very block, never for the rest of the heap.                *)
BlockIsItsCallers ==
  [][\A i \in Blocks :
       (\E f \in BlockFrames(i) \cap Frames : TOTAL_FLAGS'[f] # TOTAL_FLAGS[f])
         => \E t \in Threads : call[t].at \in {"release", "resize"} /\ call[t].ptr = i]_vars

(* my_realloc to a greater size waits for the semaphore that it holds      *)
(* (hw4.c:359), but where a double free has left one to spare, as in       *)
(* hw4_test.c, it goes through my_malloc and my_free and returns.          *)
Grows(t) == call[t].op = "realloc" /\ call[t].at = "malloc"
GrowReturnsWithSpare ==
  \A t \in Threads : Grows(t) /\ lock > 0 ~> call[t].at = "idle"
=============================================================================
