-------------------------- MODULE FrameAllocProofs --------------------------
(***************************************************************************)
(* Theorems about the allocator of hw4/hw4.c, for any number of frames,    *)
(* threads and sizes.                                                      *)
(*                                                                         *)
(* The argument: the loop of my_malloc finds the worst fit (LargestIs, by  *)
(* induction over the frames it has looked at); the semaphore keeps the    *)
(* sections apart (Exclusive); so the region that a thread has found is    *)
(* still the worst fit when it marks it (Pending), and every step leaves   *)
(* the table alone, reserves a free region, releases a block or trims one  *)
(* (TableStep), each of which keeps the frames that are not free and the   *)
(* blocks in step (Layout) and is a step of Heap.                          *)
(***************************************************************************)
EXTENDS FrameAlloc, FiniteSetTheorems, WellFoundedInduction, TLAPS

(* The free frames, as a set.                                              *)
FreeSet == {f \in Frames : TOTAL_FLAGS[f].free}

(* A nonempty set of naturals has a least element.                         *)
LEMMA Least ==
  ASSUME NEW T \in SUBSET Nat, T # {}
  PROVE  \E m \in T : \A k \in T : m <= k
<1> DEFINE R == StrictSubsetOrdering(Nat)
           S == {0..n : n \in T}
<1>1. S \subseteq FiniteSubsetsOf(Nat)
  <2> SUFFICES ASSUME NEW n \in T PROVE 0..n \in FiniteSubsetsOf(Nat)
    OBVIOUS
  <2>1. IsFiniteSet(0..n)
    BY FS_Interval
  <2> QED
    BY <2>1 DEF FiniteSubsetsOf
<1>2. PICK X \in S : \A Y \in S : <<Y, X>> \notin R
  <2>1. IsWellFoundedOn(R, FiniteSubsetsOf(Nat))
    BY FS_StrictSubsetOrderingWellFounded
  <2>2. S # {}
    OBVIOUS
  <2> HIDE DEF R, S
  <2> QED
    BY <1>1, <2>1, <2>2, WFMin
<1>3. PICK m \in T : X = 0..m
  BY <1>2
<1>4. ASSUME NEW k \in T, k < m PROVE FALSE
  <2>1. 0..k \in S
    OBVIOUS
  <2>2. 0..k \subseteq 0..m /\ 0..k # 0..m /\ 0..k \in SUBSET Nat /\ 0..m \in SUBSET Nat
    BY <1>4
  <2>3. <<0..k, 0..m>> \in R
    BY <2>2 DEF StrictSubsetOrdering
  <2> QED
    BY <1>2, <1>3, <2>1, <2>3
<1> QED
  BY <1>4

(* g is the recursive function Scan, up to n frames.                       *)
Scans(g, n) ==
  g = [i \in 0..n |-> IF i = 0 THEN Unscanned ELSE Scanned(g[i - 1], i - 1)]

(* There is such a function for every n: a least n without one would have  *)
(* one for n - 1 to extend.                                                *)
LEMMA ScanExists == ASSUME NEW N \in Nat PROVE \E g : Scans(g, N)
<1> DEFINE Bad == {n \in Nat : ~ \E g : Scans(g, n)}
<1> SUFFICES ASSUME Bad # {} PROVE FALSE
  OBVIOUS
<1>1. PICK m \in Bad : \A k \in Bad : m <= k
  BY Least
<1>2. m # 0
  <2> DEFINE g == [i \in 0..0 |-> Unscanned]
  <2>1. Scans(g, 0)
    BY DEF Scans
  <2> QED
    BY <2>1
<1>3. PICK g : Scans(g, m - 1)
  BY <1>1, <1>2
<1> DEFINE h == [i \in 0..m |-> IF i = m THEN Scanned(g[m - 1], m - 1) ELSE g[i]]
<1>4. \A i \in 0..m : h[i] = IF i = 0 THEN Unscanned ELSE Scanned(h[i - 1], i - 1)
  BY <1>2, <1>3 DEF Scans
<1>5. Scans(h, m)
  BY <1>4 DEF Scans
<1> QED
  BY <1>1, <1>5

(* So Scan, a CHOOSE, satisfies its own equation.                          *)
LEMMA ScanIs == Scans(Scan, NUM_OF_FRAMES)
<1>1. Scan = CHOOSE g : Scans(g, NUM_OF_FRAMES)
  BY DEF Scan, Scans
<1> QED
  BY <1>1, ScanExists, FrameAssumption

(* The local variables of the loop of my_malloc.                           *)
Registers == [start : Int, size : Int, curr : Int, run : Int, first : BOOLEAN]

(* k free frames from u on are no better than the recorded region: fewer,  *)
(* or as many and not at a lower address.                                  *)
Beaten(u, k, size, start) == k < size \/ (k = size /\ u >= start)

(* The recorded region is free and ends below end.                         *)
Recorded(size, start, end) ==
  size > 0 => /\ start \in 0..(end - size)
              /\ start..(start + size - 1) \subseteq FreeSet

(* The free region that ends at frame i - 1 has run frames.                *)
Running(i, run) ==
  /\ run \in 0..i
  /\ (i - run)..(i - 1) \subseteq FreeSet
  /\ run < i => i - run - 1 \notin FreeSet

(* Every free region below frame i that is not part of the current one is  *)
(* beaten.                                                                 *)
BestBelow(i, run, size, start) ==
  \A u \in 0..i : \A k \in 1..(i - u) :
    u..(u + k - 1) \subseteq FreeSet => u >= i - run \/ Beaten(u, k, size, start)

(* The invariant of the loop, before it looks at frame i.                  *)
Tracks(i, run, size, start, curr) ==
  /\ size \in 0..i
  /\ run > 0 => curr = i - run
  /\ Running(i, run)
  /\ Recorded(size, start, i - run)
  /\ BestBelow(i, run, size, start)

FirstOfRun(s) == s.first <=> s.run = 0

Good(i, s) ==
  /\ s \in Registers
  /\ FirstOfRun(s)
  /\ Tracks(i, s.run, s.size, s.start, s.curr)

(* A free frame makes the current region one frame longer.                 *)
LEMMA RunOn ==
  ASSUME NEW i \in Frames, NEW run \in Nat, i \in FreeSet, Running(i, run)
  PROVE  Running(i + 1, run + 1)
  BY FrameAssumption DEF Running, Frames

(* and leaves the recorded one as good as before.                          *)
LEMMA RunOnBest ==
  ASSUME NEW i \in Frames, NEW run \in Nat, NEW size \in Int, NEW start \in Int,
         i \in FreeSet, Running(i, run), BestBelow(i, run, size, start)
  PROVE  BestBelow(i + 1, run + 1, size, start)
<1> SUFFICES ASSUME NEW u \in 0..(i + 1), NEW k \in 1..((i + 1) - u),
                    u..(u + k - 1) \subseteq FreeSet
             PROVE  u >= i - run \/ Beaten(u, k, size, start)
  BY DEF BestBelow, Frames
<1>1. CASE u + k <= i
  BY <1>1, FrameAssumption DEF BestBelow, Frames
<1>2. CASE u + k = i + 1
  <2> SUFFICES ASSUME u < i - run PROVE FALSE
    BY FrameAssumption DEF Frames
  <2>1. i - run - 1 \in u..(u + k - 1)
    BY <1>2, FrameAssumption DEF Frames
  <2> QED
    BY <2>1, FrameAssumption DEF Running, Frames
<1> QED
  BY <1>1, <1>2, FrameAssumption DEF Frames

(* The region that ends at i is compared with the largest one below it.    *)
LEMMA RunEnds ==
  ASSUME NEW i \in Nat, NEW run \in Nat, NEW size \in Nat, NEW start \in Int,
         Running(i, run), Recorded(size, start, i - run),
         BestBelow(i, run, size, start),
         NEW u \in 0..i, NEW k \in 1..(i - u), u..(u + k - 1) \subseteq FreeSet
  PROVE  /\ run > size => Beaten(u, k, run, i - run)
         /\ run <= size => Beaten(u, k, size, start)
<1>1. u >= i - run \/ Beaten(u, k, size, start)
  BY DEF BestBelow
<1>2. run > size => Beaten(u, k, run, i - run)
  BY <1>1 DEF Beaten, Running
<1>3. run <= size => Beaten(u, k, size, start)
  BY <1>1 DEF Beaten, Running, Recorded
<1> QED
  BY <1>2, <1>3

(* Membership of FreeSet is the flag.                                      *)
LEMMA FreeFrame ==
  ASSUME NEW f \in Frames
  PROVE  TOTAL_FLAGS[f].free <=> f \in FreeSet
  BY DEF FreeSet


(* What the comparison at the end of a region assigns.                     *)
LEMMA ComparedRegisters ==
  ASSUME NEW s \in Registers
  PROVE  /\ Compared(s) \in Registers
         /\ Compared(s).run = s.run /\ Compared(s).curr = s.curr
         /\ s.run > s.size => Compared(s).size = s.run /\ Compared(s).start = s.curr
         /\ s.run <= s.size => Compared(s).size = s.size /\ Compared(s).start = s.start
<1>0. s.run \in Int /\ s.size \in Int
  BY DEF Registers
<1>1. CASE s.run > s.size
  <2>1. Compared(s) = [s EXCEPT !.start = s.curr, !.size = s.run]
    BY <1>1 DEF Compared
  <2>2. Compared(s) \in Registers
    BY <2>1 DEF Registers
  <2>3. /\ Compared(s).run = s.run /\ Compared(s).curr = s.curr
        /\ Compared(s).size = s.run /\ Compared(s).start = s.curr
    BY <2>1 DEF Registers
  <2> QED
    BY <1>0, <1>1, <2>2, <2>3
<1>2. CASE s.run <= s.size
  <2>1. Compared(s) = s
    BY <1>0, <1>2 DEF Compared
  <2> QED
    BY <1>0, <1>2, <2>1
<1> QED
  BY <1>0, <1>1, <1>2

(* What an iteration at a frame that is not free assigns.                  *)
LEMMA ScannedTaken ==
  ASSUME NEW s \in Registers, NEW f \in Frames, f \notin FreeSet
  PROVE  LET r == Scanned(s, f)
         IN  /\ r \in Registers /\ r.first /\ r.run = 0
             /\ s.run > s.size => r.size = s.run /\ r.start = s.curr
             /\ s.run <= s.size => r.size = s.size /\ r.start = s.start
<1>1. Scanned(s, f) = [Compared(s) EXCEPT !.run = 0, !.first = TRUE]
  BY FreeFrame DEF Scanned
<1> DEFINE c == Compared(s)
<1>2. c \in Registers
  BY ComparedRegisters
<1> HIDE DEF c
<1>3. LET r == [c EXCEPT !.run = 0, !.first = TRUE]
      IN  r \in Registers /\ r.first = TRUE /\ r.run = 0 /\ r.size = c.size /\ r.start = c.start
  <2> DEFINE d == [c EXCEPT !.run = 0]
             r == [d EXCEPT !.first = TRUE]
  <2>1. d \in Registers /\ d.run = 0 /\ d.size = c.size /\ d.start = c.start
    BY <1>2 DEF Registers
  <2>2. [c EXCEPT !.run = 0, !.first = TRUE] = r
    BY <1>2 DEF Registers
  <2> HIDE DEF d
  <2>3. r \in Registers /\ r.run = d.run /\ r.size = d.size /\ r.start = d.start
    BY <2>1 DEF Registers
  <2>4. r.first = TRUE
    BY <2>1 DEF Registers
  <2> QED
    BY <2>1, <2>2, <2>3, <2>4
<1> QED
  BY <1>1, <1>3, ComparedRegisters DEF c

(* What the loop assigns at a free frame.                                  *)
LEMMA ExtendedRegisters ==
  ASSUME NEW s \in Registers, NEW f \in Frames, s.run >= 0, FirstOfRun(s)
  PROVE  LET r == Extended(s, f)
         IN  /\ r \in Registers /\ r.first = FALSE
             /\ r.run = s.run + 1 /\ r.size = s.size /\ r.start = s.start
             /\ r.curr = IF s.run = 0 THEN f ELSE s.curr
<1>1. CASE s.run = 0
  <2>0. s.first
    BY <1>1 DEF FirstOfRun
  <2>1. Extended(s, f) = [s EXCEPT !.curr = f, !.run = 1, !.first = FALSE]
    BY <2>0 DEF Extended
  <2> DEFINE d == [s EXCEPT !.curr = f, !.run = 1]
             r == [d EXCEPT !.first = FALSE]
  <2>7. f \in Int
    BY FrameAssumption DEF Frames
  <2>2. /\ d \in Registers /\ d.run = 1 /\ d.curr = f
        /\ d.size = s.size /\ d.start = s.start
    <3>1. d \in Registers
      <4> DEFINE e == [s EXCEPT !.curr = f]
      <4>1. e \in Registers
        BY <2>7 DEF Registers
      <4>2. d = [e EXCEPT !.run = 1]
        BY DEF Registers
      <4> HIDE DEF e
      <4>3. [e EXCEPT !.run = 1] \in Registers
        BY <4>1 DEF Registers
      <4> QED
        BY <4>2, <4>3
    <3>2. d.run = 1 /\ d.curr = f /\ d.size = s.size /\ d.start = s.start
      BY DEF Registers
    <3> QED
      BY <3>1, <3>2
  <2>3. Extended(s, f) = r
    BY <2>1 DEF Registers
  <2> HIDE DEF d
  <2>4. /\ r \in Registers /\ r.run = d.run /\ r.curr = d.curr
        /\ r.size = d.size /\ r.start = d.start
    BY <2>2 DEF Registers
  <2>5. r.first = FALSE
    BY <2>2 DEF Registers
  <2> QED
    BY <1>1, <2>2, <2>3, <2>4, <2>5
<1>2. CASE s.run # 0
  <2>1. ~s.first
    BY <1>2 DEF FirstOfRun
  <2>2. s.first = FALSE
    BY <2>1 DEF Registers
  <2>3. Extended(s, f) = [s EXCEPT !.run = @ + 1]
    BY <2>1 DEF Extended
  <2>4. /\ Extended(s, f).first = s.first
        /\ Extended(s, f) \in Registers
        /\ Extended(s, f).run = s.run + 1 /\ Extended(s, f).size = s.size
        /\ Extended(s, f).start = s.start /\ Extended(s, f).curr = s.curr
    BY <2>3 DEF Registers
  <2> QED
    BY <1>2, <2>2, <2>4
<1> QED
  BY <1>1, <1>2

(* At the last frame a free region is compared as well.                    *)
LEMMA ScannedFree ==
  ASSUME NEW s \in Registers, NEW f \in Frames, f \in FreeSet
  PROVE  /\ f = NUM_OF_FRAMES - 1 => Scanned(s, f) = Compared(Extended(s, f))
         /\ f # NUM_OF_FRAMES - 1 => Scanned(s, f) = Extended(s, f)
  BY FreeFrame DEF Scanned

(* The invariant holds before the loop.                                    *)
LEMMA GoodInit == Good(0, Unscanned)
<1>1. Unscanned \in Registers /\ FirstOfRun(Unscanned)
  BY DEF Unscanned, Registers, FirstOfRun
<1>2. Tracks(0, 0, 0, -1, -1)
  BY DEF Tracks, Running, Recorded, BestBelow
<1> QED
  BY <1>1, <1>2 DEF Good, Unscanned

(* A frame that is not free, or the end of the table, ends the region.     *)
LEMMA Closes ==
  ASSUME NEW i \in Nat, NEW s \in Registers, Good(i, s)
  PROVE  LET r == Compared(s)
         IN  /\ r.size \in 0..i
             /\ Recorded(r.size, r.start, i)
             /\ \A u \in 0..i : \A k \in 1..(i - u) :
                  u..(u + k - 1) \subseteq FreeSet => Beaten(u, k, r.size, r.start)
<1> DEFINE r == Compared(s)
<1>0. /\ s.size \in 0..i /\ s.run \in 0..i /\ s.start \in Int
      /\ Running(i, s.run) /\ Recorded(s.size, s.start, i - s.run)
      /\ BestBelow(i, s.run, s.size, s.start)
      /\ s.run > 0 => s.curr = i - s.run
  BY DEF Good, Tracks, Registers, Running
<1>1. r.size \in 0..i
  BY <1>0, ComparedRegisters
<1>2. Recorded(r.size, r.start, i)
  <2>1. CASE s.run > s.size
    <3>1. r.size = s.run /\ r.start = i - s.run
      BY <1>0, <2>1, ComparedRegisters
    <3> QED
      BY <1>0, <3>1 DEF Recorded, Running
  <2>2. CASE s.run <= s.size
    <3>1. r.size = s.size /\ r.start = s.start
      BY <1>0, <2>2, ComparedRegisters
    <3> QED
      BY <1>0, <3>1 DEF Recorded
  <2> QED
    BY <1>0, <2>1, <2>2
<1>3. ASSUME NEW u \in 0..i, NEW k \in 1..(i - u), u..(u + k - 1) \subseteq FreeSet
      PROVE  Beaten(u, k, r.size, r.start)
  <2>1. CASE s.run > s.size
    <3>1. r.size = s.run /\ r.start = i - s.run
      BY <1>0, <2>1, ComparedRegisters
    <3>2. Beaten(u, k, s.run, i - s.run)
      BY <1>0, <1>3, <2>1, RunEnds
    <3> QED
      BY <3>1, <3>2
  <2>2. CASE s.run <= s.size
    <3>1. r.size = s.size /\ r.start = s.start
      BY <1>0, <2>2, ComparedRegisters
    <3>2. Beaten(u, k, s.size, s.start)
      BY <1>0, <1>3, <2>2, RunEnds
    <3> QED
      BY <3>1, <3>2
  <2> QED
    BY <1>0, <2>1, <2>2
<1> QED
  BY <1>1, <1>2, <1>3

(* With no current region, every free region is beaten.                    *)
LEMMA BestIf ==
  ASSUME NEW n \in Nat, NEW size, NEW start,
         \A u \in 0..n : \A k \in 1..(n - u) :
           u..(u + k - 1) \subseteq FreeSet => Beaten(u, k, size, start)
  PROVE  BestBelow(n, 0, size, start)
  BY Zenon DEF BestBelow

(* A frame that is not free keeps the invariant.                           *)
LEMMA GoodTaken ==
  ASSUME NEW i \in Frames, NEW s \in Registers, Good(i, s), i \notin FreeSet
  PROVE  Good(i + 1, Scanned(s, i))
<1> DEFINE r == Scanned(s, i)
           c == Compared(s)
<1>0. i \in Nat /\ s.run \in Int /\ s.size \in Int
  BY FrameAssumption DEF Frames, Registers
<1>1. r \in Registers /\ r.first /\ r.run = 0 /\ r.size = c.size /\ r.start = c.start
  BY <1>0, ScannedTaken, ComparedRegisters
<1>2. /\ c.size \in 0..i /\ Recorded(c.size, c.start, i)
      /\ \A u \in 0..i : \A k \in 1..(i - u) :
           u..(u + k - 1) \subseteq FreeSet => Beaten(u, k, c.size, c.start)
  BY <1>0, Closes
<1> HIDE DEF r, c
<1>3. Running(i + 1, 0)
  BY <1>0 DEF Running
<1>4. Recorded(c.size, c.start, i + 1)
  BY <1>0, <1>2 DEF Recorded
<1>5. BestBelow(i + 1, 0, c.size, c.start)
  <2>1. ASSUME NEW u \in 0..(i + 1), NEW k \in 1..((i + 1) - u),
               u..(u + k - 1) \subseteq FreeSet
        PROVE  Beaten(u, k, c.size, c.start)
    <3>1. i \notin u..(u + k - 1)
      BY <2>1
    <3>2. u \in 0..i /\ k \in 1..(i - u)
      BY <1>0, <3>1
    <3> QED
      BY <1>2, <2>1, <3>2
  <2> QED
    BY <1>0, <2>1, BestIf
<1>6. FirstOfRun(r)
  BY <1>1 DEF FirstOfRun
<1>7. Tracks(i + 1, 0, c.size, c.start, r.curr)
  BY <1>0, <1>2, <1>3, <1>4, <1>5 DEF Tracks
<1>9. Good(i + 1, r)
  BY <1>1, <1>6, <1>7 DEF Good
<1> QED
  BY <1>9 DEF r

(* A free frame keeps the invariant.                                       *)
LEMMA GoodExtended ==
  ASSUME NEW i \in Frames, NEW s \in Registers, Good(i, s), i \in FreeSet
  PROVE  Good(i + 1, Extended(s, i))
<1> DEFINE r == Extended(s, i)
<1>0. i \in Nat /\ s.run \in 0..i /\ s.size \in 0..i /\ s.start \in Int
  BY FrameAssumption DEF Frames, Registers, Good, Tracks, Running
<1>1. /\ r \in Registers /\ r.first = FALSE
      /\ r.run = s.run + 1 /\ r.size = s.size /\ r.start = s.start
      /\ r.curr = IF s.run = 0 THEN i ELSE s.curr
  <2>1. s.run >= 0 /\ FirstOfRun(s)
    BY <1>0 DEF Good
  <2> QED
    BY <2>1, ExtendedRegisters
<1> HIDE DEF r
<1>2. FirstOfRun(r)
  BY <1>0, <1>1 DEF FirstOfRun
<1>3. Tracks(i, s.run, s.size, s.start, s.curr)
  BY DEF Good
<1>4. Running(i + 1, r.run)
  BY <1>0, <1>1, <1>3, RunOn DEF Tracks
<1>5. /\ r.size \in 0..(i + 1)
      /\ r.run > 0 => r.curr = (i + 1) - r.run
      /\ Recorded(r.size, r.start, (i + 1) - r.run)
  BY <1>0, <1>1, <1>3 DEF Tracks
<1>6. BestBelow(i + 1, r.run, r.size, r.start)
  <2>1. Running(i, s.run) /\ BestBelow(i, s.run, s.size, s.start)
    BY <1>3 DEF Tracks
  <2>2. s.run \in Nat /\ s.size \in Int
    BY <1>0
  <2>3. BestBelow(i + 1, s.run + 1, s.size, s.start)
    BY <1>0, <2>1, <2>2, RunOnBest
  <2> QED
    BY <1>1, <2>3
<1>7. Tracks(i + 1, r.run, r.size, r.start, r.curr)
  <2> DEFINE n == i + 1
  <2>1. /\ r.size \in 0..n
        /\ r.run > 0 => r.curr = n - r.run
        /\ Running(n, r.run) /\ Recorded(r.size, r.start, n - r.run)
        /\ BestBelow(n, r.run, r.size, r.start)
    <3>1. r.size \in 0..n
      BY <1>5
    <3>2. r.run > 0 => r.curr = n - r.run
      BY <1>5
    <3>3. Running(n, r.run)
      BY <1>4
    <3>4. Recorded(r.size, r.start, n - r.run)
      BY <1>5
    <3>5. BestBelow(n, r.run, r.size, r.start)
      BY <1>6
    <3> HIDE DEF n
    <3> QED
      BY <3>1, <3>2, <3>3, <3>4, <3>5, Zenon
  <2> HIDE DEF n
  <2>2. Tracks(n, r.run, r.size, r.start, r.curr)
    BY <2>1, Zenon DEF Tracks
  <2> QED
    BY <2>2 DEF n
<1>8. Good(i + 1, r)
  BY <1>1, <1>2, <1>7 DEF Good
<1> QED
  BY <1>8 DEF r

(* The invariant holds before every iteration.                             *)
LEMMA ScanGood ==
  ASSUME NEW i \in Frames
  PROVE  Scan[i] \in Registers /\ Good(i, Scan[i])
<1> DEFINE Bad == {k \in Frames : ~ Good(k, Scan[k])}
<1>0. /\ Scan[0] = Unscanned
      /\ \A k \in 1..NUM_OF_FRAMES : Scan[k] = Scanned(Scan[k - 1], k - 1)
  <2> DEFINE g == Scan
  <2>1. g = [k \in 0..NUM_OF_FRAMES |->
               IF k = 0 THEN Unscanned ELSE Scanned(g[k - 1], k - 1)]
    BY ScanIs DEF Scans
  <2> HIDE DEF g
  <2>2. g[0] = Unscanned
    BY <2>1, FrameAssumption
  <2>3. \A k \in 1..NUM_OF_FRAMES : g[k] = Scanned(g[k - 1], k - 1)
    BY <2>1, FrameAssumption
  <2> QED
    BY <2>2, <2>3 DEF g
<1>1. ASSUME Bad # {} PROVE FALSE
  <2>1. Bad \in SUBSET Nat
    BY FrameAssumption DEF Frames
  <2>2. PICK m \in Bad : \A k \in Bad : m <= k
    BY <1>1, <2>1, Least
  <2>3. m # 0
    BY <1>0, GoodInit
  <2> DEFINE p == m - 1
  <2>4. p \in Frames /\ p \notin Bad /\ p + 1 = m /\ p # NUM_OF_FRAMES - 1
    BY <2>1, <2>2, <2>3, FrameAssumption DEF Frames
  <2>5. Scan[m] = Scanned(Scan[p], p)
    BY <1>0, <2>3, FrameAssumption DEF Frames
  <2>6. Good(p, Scan[p]) /\ Scan[p] \in Registers
    BY <2>4 DEF Good
  <2>7. Good(m, Scan[m])
    BY <2>4, <2>5, <2>6, GoodTaken, GoodExtended, ScannedFree
  <2> QED
    BY <2>2, <2>7
<1>2. Good(i, Scan[i])
  BY <1>1
<1> QED
  BY <1>2 DEF Good

(* The result of the loop: no free region is larger than the recorded one, *)
(* and none as large begins at a lower address.                            *)
LEMMA LargestIs ==
  /\ Largest.size \in 0..NUM_OF_FRAMES
  /\ Recorded(Largest.size, Largest.start, NUM_OF_FRAMES)
  /\ \A u \in Frames : \A k \in 1..(NUM_OF_FRAMES - u) :
       u..(u + k - 1) \subseteq FreeSet => Beaten(u, k, Largest.size, Largest.start)
<1> DEFINE N == NUM_OF_FRAMES
           f == NUM_OF_FRAMES - 1
           s == Scan[f]
<1>0. f \in Frames /\ f \in Nat /\ f + 1 = N /\ N \in Nat
  BY FrameAssumption DEF Frames
<1>1. s \in Registers /\ Good(f, s)
  BY <1>0, ScanGood
<1>2. Largest = Scanned(s, f)
  <2> DEFINE g == Scan
  <2>1. g = [k \in 0..NUM_OF_FRAMES |->
               IF k = 0 THEN Unscanned ELSE Scanned(g[k - 1], k - 1)]
    BY ScanIs DEF Scans
  <2> HIDE DEF g
  <2>2. g[N] = Scanned(g[N - 1], N - 1)
    BY <2>1, FrameAssumption
  <2> QED
    BY <2>2 DEF g, Largest
<1> HIDE DEF s, f
<1>3. \A r \in Registers : Good(N, r) =>
        /\ Compared(r).size \in 0..N
        /\ Recorded(Compared(r).size, Compared(r).start, N)
        /\ \A u \in 0..N : \A k \in 1..(N - u) :
             u..(u + k - 1) \subseteq FreeSet
               => Beaten(u, k, Compared(r).size, Compared(r).start)
  BY <1>0, Closes
<1>4. Frames \subseteq 0..N
  BY <1>0 DEF Frames
<1>5. CASE f \in FreeSet
  <2>1. Largest = Compared(Extended(s, f))
    BY <1>0, <1>1, <1>2, <1>5, ScannedFree DEF f
  <2>2. Good(N, Extended(s, f)) /\ Extended(s, f) \in Registers
    BY <1>0, <1>1, <1>5, GoodExtended DEF Good
  <2> HIDE DEF N
  <2> QED
    BY <1>3, <1>4, <2>1, <2>2 DEF N
<1>6. CASE f \notin FreeSet
  <2>1. Good(N, Largest) /\ Largest \in Registers /\ Largest.run = 0
    BY <1>0, <1>1, <1>2, <1>6, GoodTaken, ScannedTaken DEF Good
  <2>2. Largest.run <= Largest.size
    BY <2>1, <1>0 DEF Good, Tracks
  <2>3. Compared(Largest).size = Largest.size /\ Compared(Largest).start = Largest.start
    BY <2>1, <2>2, ComparedRegisters
  <2> HIDE DEF N
  <2> QED
    BY <1>3, <1>4, <2>1, <2>3 DEF N
<1> QED
  BY <1>5, <1>6

-----------------------------------------------------------------------------
(***************************************************************************)
(* Tables as sets: the free frames W, the first frames S of the blocks,    *)
(* and the lengths. Blocks never overlap, and the frames that are not      *)
(* free are theirs.                                                        *)
(***************************************************************************)

(* Frame addresses are pointers; NULL and Wild are not of frames.          *)
LEMMA PointersAre ==
  /\ Frames \subseteq Nat /\ Frames \subseteq Pointers
  /\ NULL \in Pointers /\ Wild \in Pointers /\ Pointers \subseteq Int
  /\ NULL \notin Frames /\ Wild \notin Frames
  BY FrameAssumption DEF Frames, Pointers, NULL, Wild

(* The frames with start_frame, the lengths, and the frames of a block.    *)
Starts == {f \in Frames : TOTAL_FLAGS[f].start_frame}
Lengths == [f \in Frames |-> TOTAL_FLAGS[f].num_of_frames]
Extent(i, len) == i..(i + len[i] - 1)

(* The frames that are not free are exactly those of the blocks, and no    *)
(* block begins inside another.                                            *)
TableOK(W, S, len) ==
  /\ W \subseteq Frames /\ S \subseteq Frames \ W
  /\ len \in [Frames -> Nat]
  /\ \A i \in S : len[i] > 0 /\ Extent(i, len) \subseteq Frames \ W
  /\ \A i, j \in S : j \in Extent(i, len) => j = i
  /\ \A f \in Frames \ W : \E i \in S : f \in Extent(i, len)

Layout == TableOK(FreeSet, Starts, Lengths)

(* Then blocks share no frame.                                             *)
LEMMA BlocksDisjoint ==
  ASSUME NEW W, NEW S, NEW len, TableOK(W, S, len),
         NEW i \in S, NEW j \in S, NEW f \in Extent(i, len) \cap Extent(j, len)
  PROVE  i = j
<1>1. i \in Int /\ j \in Int /\ len[i] \in Int /\ len[j] \in Int
  BY FrameAssumption DEF TableOK, Frames
<1>2. CASE i <= j
  <2>1. j \in Extent(i, len)
    BY <1>1, <1>2 DEF Extent
  <2> QED
    BY <2>1 DEF TableOK
<1>3. CASE j <= i
  <2>1. i \in Extent(j, len)
    BY <1>1, <1>3 DEF Extent
  <2> QED
    BY <2>1 DEF TableOK
<1> QED
  BY <1>1, <1>2, <1>3

(* Marking free frames as one block keeps a table in order.                *)
LEMMA MarkTable ==
  ASSUME NEW W, NEW S, NEW len, TableOK(W, S, len),
         NEW s \in Frames, NEW n \in Nat \ {0}, s..(s + n - 1) \subseteq W
  PROVE  LET R == s..(s + n - 1)
         IN  TableOK(W \ R, S \cup {s}, [f \in Frames |-> IF f \in R THEN n ELSE len[f]])
<1> DEFINE R == s..(s + n - 1)
           newLen == [f \in Frames |-> IF f \in R THEN n ELSE len[f]]
           newS == S \cup {s}
<1>0. s \in Int /\ Frames \subseteq Int /\ len \in [Frames -> Nat] /\ S \subseteq Frames /\ W \subseteq Frames
  BY FrameAssumption DEF TableOK, Frames
<1>1. R \subseteq Frames /\ s \in R /\ S \cap R = {}
  BY <1>0 DEF TableOK
<1>2. newLen \in [Frames -> Nat]
  BY <1>0
<1>3. Extent(s, newLen) = R
  BY <1>1 DEF Extent
<1>4. \A i \in S : newLen[i] = len[i] /\ Extent(i, newLen) = Extent(i, len)
  BY <1>0, <1>1 DEF Extent
<1> HIDE DEF newLen, R
<1>5. \A i \in newS : newLen[i] > 0 /\ Extent(i, newLen) \subseteq Frames \ (W \ R)
  <2>1. newLen[s] > 0
    BY <1>1 DEF newLen
  <2>2. Extent(s, newLen) \subseteq Frames \ (W \ R)
    BY <1>1, <1>3
  <2>3. \A i \in S : newLen[i] > 0 /\ Extent(i, newLen) \subseteq Frames \ (W \ R)
    BY <1>4 DEF TableOK
  <2> QED
    BY <2>1, <2>2, <2>3
<1>6. \A i, j \in newS : j \in Extent(i, newLen) => j = i
  <2>1. \A j \in S : j \notin Extent(s, newLen)
    BY <1>1, <1>3
  <2>2. \A i \in S : s \notin Extent(i, newLen)
    BY <1>1, <1>4 DEF TableOK, R
  <2>3. \A i, j \in S : j \in Extent(i, newLen) => j = i
    BY <1>4 DEF TableOK
  <2> QED
    BY <2>1, <2>2, <2>3
<1>7. \A f \in Frames \ (W \ R) : \E i \in newS : f \in Extent(i, newLen)
  <2>1. \A f \in Frames \ W : \E i \in newS : f \in Extent(i, newLen)
    BY <1>4 DEF TableOK
  <2>2. \A f \in R : f \in Extent(s, newLen)
    BY <1>3
  <2> QED
    BY <2>1, <2>2
<1>8. W \ R \subseteq Frames /\ newS \subseteq Frames \ (W \ R)
  BY <1>0, <1>1 DEF TableOK
<1>9. TableOK(W \ R, newS, newLen)
  BY <1>2, <1>5, <1>6, <1>7, <1>8 DEF TableOK
<1> QED
  BY <1>9 DEF newLen, R

(* The frames of a block; no other block begins in them.                   *)
LEMMA ExtentIs ==
  ASSUME NEW W, NEW S, NEW len, TableOK(W, S, len), NEW i \in S
  PROVE  /\ Extent(i, len) \subseteq Frames \ W /\ i \in Extent(i, len)
         /\ S \ Extent(i, len) = S \ {i}
         /\ len[i] \in Nat /\ i \in Frames
<1>0. Frames \subseteq Int /\ len \in [Frames -> Nat] /\ S \subseteq Frames
  BY FrameAssumption DEF TableOK, Frames
<1>1. i \in Extent(i, len) /\ Extent(i, len) \subseteq Frames \ W
  BY <1>0 DEF TableOK, Extent
<1>2. \A j \in S : j \in Extent(i, len) => j = i
  BY DEF TableOK
<1> QED
  BY <1>0, <1>1, <1>2

(* The frames at the end of a block hold the start of no block.            *)
LEMMA TrimmedIs ==
  ASSUME NEW W, NEW S, NEW len, TableOK(W, S, len), NEW i \in S,
         NEW n \in Nat \ {0}, n < len[i]
  PROVE  LET R == (i + n)..(i + len[i] - 1)
         IN  R \subseteq Frames /\ i \notin R /\ S \ R = S
<1>0. /\ Extent(i, len) \subseteq Frames \ W /\ i \in Frames /\ len[i] \in Nat
      /\ S \ Extent(i, len) = S \ {i}
  BY ExtentIs
<1>1. i \in Int /\ len[i] \in Int
  BY <1>0, PointersAre
<1>2. (i + n)..(i + len[i] - 1) \subseteq Extent(i, len) /\ i \notin (i + n)..(i + len[i] - 1)
  BY <1>1 DEF Extent
<1> QED
  BY <1>0, <1>2

(* Clearing the frames of a block keeps a table in order.                  *)
LEMMA FreeTable ==
  ASSUME NEW W, NEW S, NEW len, TableOK(W, S, len), NEW i \in S
  PROVE  LET R == Extent(i, len)
         IN  TableOK(W \cup R, S \ R, [f \in Frames |-> IF f \in R THEN 0 ELSE len[f]])
<1> DEFINE R == Extent(i, len)
           newLen == [f \in Frames |-> IF f \in R THEN 0 ELSE len[f]]
           newS == S \ {i}
<1>0. Frames \subseteq Int /\ len \in [Frames -> Nat] /\ S \subseteq Frames /\ W \subseteq Frames
  BY FrameAssumption DEF TableOK, Frames
<1>1. R \subseteq Frames /\ i \in R /\ S \ R = newS
  BY ExtentIs
<1>2. newLen \in [Frames -> Nat]
  BY <1>0
<1>3. \A j \in newS : Extent(j, len) \cap R = {}
  BY BlocksDisjoint
<1>4. \A j \in newS : newLen[j] = len[j] /\ Extent(j, newLen) = Extent(j, len)
  BY <1>0, <1>1 DEF Extent
<1> HIDE DEF newLen, R
<1>5. \A j \in newS : newLen[j] > 0 /\ Extent(j, newLen) \subseteq Frames \ (W \cup R)
  BY <1>3, <1>4 DEF TableOK
<1>6. \A k, j \in newS : j \in Extent(k, newLen) => j = k
  BY <1>4 DEF TableOK
<1>7. \A f \in Frames \ (W \cup R) : \E j \in newS : f \in Extent(j, newLen)
  BY <1>4 DEF TableOK, R
<1>8. W \cup R \subseteq Frames /\ newS \subseteq Frames \ (W \cup R)
  BY <1>0, <1>1 DEF TableOK
<1>9. TableOK(W \cup R, newS, newLen)
  BY <1>2, <1>5, <1>6, <1>7, <1>8 DEF TableOK
<1> QED
  BY <1>1, <1>9 DEF newLen, R

(* Clearing the end of a block and noting its new length does too.         *)
LEMMA ShrinkTable ==
  ASSUME NEW W, NEW S, NEW len, TableOK(W, S, len), NEW i \in S, NEW n \in Nat \ {0}, n < len[i]
  PROVE  LET R == (i + n)..(i + len[i] - 1)
         IN  TableOK(W \cup R, S \ R,
                  [f \in Frames |-> IF f = i THEN n ELSE IF f \in R THEN 0 ELSE len[f]])
<1> DEFINE R == (i + n)..(i + len[i] - 1)
           newLen == [f \in Frames |-> IF f = i THEN n ELSE IF f \in R THEN 0 ELSE len[f]]
           others == S \ {i}
<1>0. /\ Frames \subseteq Int /\ len \in [Frames -> Nat] /\ S \subseteq Frames /\ W \subseteq Frames
      /\ i \in Int /\ len[i] \in Int
  BY FrameAssumption DEF TableOK, Frames
<1>1. R \subseteq Extent(i, len) /\ i \notin R /\ Extent(i, len) \subseteq Frames \ W
  BY <1>0 DEF TableOK, Extent
<1>2. S \cap R = {} /\ S \ R = S /\ R \subseteq Frames
  BY TrimmedIs
<1>3. newLen \in [Frames -> Nat]
  BY <1>0
<1>4. Extent(i, newLen) = Extent(i, len) \ R /\ newLen[i] > 0
  BY <1>0 DEF Extent
<1>5. \A j \in others : Extent(j, len) \cap Extent(i, len) = {}
  BY BlocksDisjoint
<1>6. \A j \in others : newLen[j] = len[j] /\ Extent(j, newLen) = Extent(j, len)
  BY <1>0, <1>2 DEF Extent
<1> HIDE DEF newLen, R
<1>7. \A j \in S : newLen[j] > 0 /\ Extent(j, newLen) \subseteq Frames \ (W \cup R)
  <2>1. Extent(i, newLen) \subseteq Frames \ (W \cup R)
    BY <1>1, <1>4
  <2>2. \A j \in others : newLen[j] > 0 /\ Extent(j, newLen) \subseteq Frames \ (W \cup R)
    BY <1>1, <1>5, <1>6 DEF TableOK
  <2> QED
    BY <1>4, <2>1, <2>2
<1>8. \A k, j \in S : j \in Extent(k, newLen) => j = k
  <2>1. \A k \in S : Extent(k, newLen) \subseteq Extent(k, len)
    BY <1>4, <1>6
  <2> QED
    BY <2>1 DEF TableOK
<1>9. \A f \in Frames \ (W \cup R) : \E j \in S : f \in Extent(j, newLen)
  <2> SUFFICES ASSUME NEW f \in Frames \ (W \cup R)
               PROVE  \E j \in S : f \in Extent(j, newLen)
    OBVIOUS
  <2>1. PICK j \in S : f \in Extent(j, len)
    BY DEF TableOK
  <2>2. f \in Extent(j, newLen)
    BY <1>4, <1>6, <2>1
  <2> QED
    BY <2>2
<1>10. W \cup R \subseteq Frames /\ S \subseteq Frames \ (W \cup R)
  BY <1>0, <1>2 DEF TableOK
<1>11. TableOK(W \cup R, S, newLen)
  BY <1>3, <1>7, <1>8, <1>9, <1>10 DEF TableOK
<1> QED
  BY <1>1, <1>2, <1>11 DEF newLen, R

-----------------------------------------------------------------------------
(***************************************************************************)
(* The table after the loops of my_malloc, my_free and my_realloc.         *)
(***************************************************************************)
Table == [Frames -> Flag]

(* The writes of my_malloc.                                                *)
MarkRegion(s, n) ==
  TOTAL_FLAGS' = [f \in Frames |->
           IF f \in s..(s + n - 1)
           THEN [free |-> FALSE, start_frame |-> f = s, num_of_frames |-> n]
           ELSE TOTAL_FLAGS[f]]

(* A record of flags and its fields.                                       *)
LEMMA FlagOK ==
  ASSUME NEW b \in BOOLEAN, NEW c \in BOOLEAN, NEW n \in Nat
  PROVE  LET r == [free |-> b, start_frame |-> c, num_of_frames |-> n]
         IN  r \in Flag /\ r.free = b /\ r.start_frame = c /\ r.num_of_frames = n
  BY DEF Flag

(* The writes of my_malloc, seen through the sets.                         *)
LEMMA MarkRegionIs ==
  ASSUME TOTAL_FLAGS \in Table, NEW s \in Frames, NEW n \in Nat \ {0},
         s..(s + n - 1) \subseteq Frames, MarkRegion(s, n)
  PROVE  LET R == s..(s + n - 1)
         IN  /\ TOTAL_FLAGS' \in Table
             /\ FreeSet' = FreeSet \ R
             /\ Starts' = (Starts \ R) \cup {s}
             /\ Lengths' = [f \in Frames |-> IF f \in R THEN n ELSE Lengths[f]]
<1> DEFINE R == s..(s + n - 1)
           New(f) == [free |-> FALSE, start_frame |-> f = s, num_of_frames |-> n]
<1>0. s \in R
  BY FrameAssumption DEF Frames
<1>1. \A f \in Frames : /\ f \in R => TOTAL_FLAGS'[f] = New(f)
                        /\ f \notin R => TOTAL_FLAGS'[f] = TOTAL_FLAGS[f]
  BY DEF MarkRegion
<1>2. \A f \in R : /\ New(f) \in Flag /\ ~New(f).free /\ New(f).num_of_frames = n
                   /\ New(f).start_frame <=> f = s
  <2> SUFFICES ASSUME NEW f \in R
               PROVE  /\ New(f) \in Flag /\ ~New(f).free /\ New(f).num_of_frames = n
                      /\ New(f).start_frame <=> f = s
    OBVIOUS
  <2>1. (f = s) \in BOOLEAN /\ n \in Nat
    OBVIOUS
  <2> QED
    BY <2>1, FlagOK
<1> HIDE DEF New, R
<1>3. TOTAL_FLAGS' \in Table
  BY <1>1, <1>2 DEF Table, MarkRegion, New, R
<1>4. FreeSet' = FreeSet \ R
  BY <1>1, <1>2 DEF FreeSet
<1>5. Starts' = (Starts \ R) \cup {s}
  BY <1>0, <1>1, <1>2 DEF Starts
<1>6. Lengths' = [f \in Frames |-> IF f \in R THEN n ELSE Lengths[f]]
  BY <1>1, <1>2 DEF Lengths
<1> QED
  BY <1>3, <1>4, <1>5, <1>6 DEF R

(* The writes of my_free, seen through the sets.                           *)
LEMMA ClearIs ==
  ASSUME TOTAL_FLAGS \in Table, NEW R \in SUBSET Frames, TOTAL_FLAGS' = Clear(R)
  PROVE  /\ TOTAL_FLAGS' \in Table
         /\ FreeSet' = FreeSet \cup R
         /\ Starts' = Starts \ R
         /\ Lengths' = [f \in Frames |-> IF f \in R THEN 0 ELSE Lengths[f]]
<1>1. \A f \in Frames : /\ f \in R => TOTAL_FLAGS'[f] = Cleared
                        /\ f \notin R => TOTAL_FLAGS'[f] = TOTAL_FLAGS[f]
  BY DEF Clear
<1>2. /\ Cleared \in Flag /\ Cleared.free /\ ~Cleared.start_frame
      /\ Cleared.num_of_frames = 0
  BY DEF Cleared, Flag
<1>3. TOTAL_FLAGS' \in Table
  BY <1>1, <1>2 DEF Table, Clear
<1>4. FreeSet' = FreeSet \cup R
  BY <1>1, <1>2 DEF FreeSet
<1>5. Starts' = Starts \ R
  BY <1>1, <1>2 DEF Starts
<1>6. Lengths' = [f \in Frames |-> IF f \in R THEN 0 ELSE Lengths[f]]
  BY <1>1, <1>2 DEF Lengths
<1> QED
  BY <1>3, <1>4, <1>5, <1>6

(* The writes of my_realloc to a smaller size.                             *)
TrimRegion(R, i, n) == TOTAL_FLAGS' = [Clear(R) EXCEPT ![i].num_of_frames = n]

(* and what they are through the sets.                                     *)
LEMMA TrimIs ==
  ASSUME TOTAL_FLAGS \in Table, NEW R \in SUBSET Frames, NEW i \in Frames, i \notin R,
         NEW n \in Nat, TrimRegion(R, i, n)
  PROVE  /\ TOTAL_FLAGS' \in Table
         /\ FreeSet' = FreeSet \cup R
         /\ Starts' = Starts \ R
         /\ Lengths' = [f \in Frames |-> IF f = i THEN n ELSE IF f \in R THEN 0 ELSE Lengths[f]]
<1> DEFINE r == [TOTAL_FLAGS[i] EXCEPT !.num_of_frames = n]
<1>1. \A f \in Frames : /\ f \in R => TOTAL_FLAGS'[f] = Cleared
                        /\ f \notin R /\ f # i => TOTAL_FLAGS'[f] = TOTAL_FLAGS[f]
                        /\ TOTAL_FLAGS'[i] = r
  BY DEF Clear, TrimRegion
<1>2. /\ Cleared \in Flag /\ Cleared.free /\ ~Cleared.start_frame
      /\ Cleared.num_of_frames = 0
  BY DEF Cleared, Flag
<1>3. r \in Flag /\ r.num_of_frames = n
  BY DEF Table, Flag
<1>4. (r.free <=> TOTAL_FLAGS[i].free) /\ (r.start_frame <=> TOTAL_FLAGS[i].start_frame)
  BY DEF Table, Flag
<1> HIDE DEF r
<1>5. TOTAL_FLAGS' \in Table
  <2>1. DOMAIN TOTAL_FLAGS' = Frames /\ TOTAL_FLAGS' = [f \in DOMAIN TOTAL_FLAGS' |-> TOTAL_FLAGS'[f]]
    BY DEF Clear, TrimRegion
  <2>2. \A f \in Frames : TOTAL_FLAGS'[f] \in Flag
    BY <1>1, <1>2, <1>3 DEF Table
  <2> QED
    BY <2>1, <2>2 DEF Table
<1>6. FreeSet' = FreeSet \cup R
  BY <1>1, <1>2, <1>4 DEF FreeSet
<1>7. Starts' = Starts \ R
  BY <1>1, <1>2, <1>4 DEF Starts
<1>8. Lengths' = [f \in Frames |-> IF f = i THEN n ELSE IF f \in R THEN 0 ELSE Lengths[f]]
  BY <1>1, <1>2, <1>3 DEF Lengths
<1> QED
  BY <1>5, <1>6, <1>7, <1>8

-----------------------------------------------------------------------------
(***************************************************************************)
(* The control state: what a step does to the record of its thread, and    *)
(* that it leaves those of the others alone.                               *)
(***************************************************************************)

(* The types of call, by name.                                             *)
CallRecord == [op : Ops \cup {"none"}, at : At, ptr : Pointers,
               size : Sizes \cup {0}, got : Pointers]
Calls == [Threads -> CallRecord]

(* The values of Ops and of Critical.                                      *)
LEMMA OpsAre ==
  /\ Ops = {"malloc", "free", "realloc", "usable", "stats"}
  /\ Critical["malloc"] = "search" /\ Critical["free"] = "release"
  /\ Critical["realloc"] = "resize" /\ Critical["usable"] = "lookup"
  /\ Critical["stats"] = "print"
  BY DEF Ops, Critical

(* The values of At.                                                       *)
LEMMA AtIs ==
  /\ {Critical[op] : op \in Ops} = {"search", "release", "resize", "lookup", "print"}
  /\ At = {"malloc", "free", "realloc", "usable", "stats",
           "search", "release", "resize", "lookup", "print",
           "idle", "mark", "raise", "signal", "readSize", "finish"}
<1>1. {Critical[op] : op \in Ops} = {"search", "release", "resize", "lookup", "print"}
  BY OpsAre
<1>2. At = {"malloc", "free", "realloc", "usable", "stats"} 
             \cup {"search", "release", "resize", "lookup", "print"}
             \cup {"idle", "mark", "raise", "signal", "readSize", "finish"}
  BY <1>1, OpsAre DEF At
<1> QED
  BY <1>1, <1>2

(* The fields of the record of a thread.                                   *)
LEMMA CallTyped ==
  ASSUME call \in Calls, NEW t \in Threads
  PROVE  /\ call[t].op \in Ops \cup {"none"} /\ call[t].at \in At
         /\ call[t].ptr \in Pointers /\ call[t].size \in Sizes \cup {0}
         /\ call[t].got \in Pointers /\ call[t].size \in Nat
<1>1. call[t] \in CallRecord
  BY DEF Calls
<1>2. /\ call[t].op \in Ops \cup {"none"} /\ call[t].at \in At
      /\ call[t].ptr \in Pointers /\ call[t].size \in Sizes \cup {0}
      /\ call[t].got \in Pointers
  BY <1>1 DEF CallRecord
<1>3. call[t].size \in Nat
  <2>1. Sizes \cup {0} \subseteq Nat
    BY SizeAssumption
  <2> QED
    BY <1>2, <2>1, Zenon
<1> QED
  BY <1>2, <1>3

(* What the control operators do to the record of the thread, and that     *)
(* they leave those of the others alone.                                   *)
LEMMA GotoIs ==
  ASSUME call \in Calls, NEW t \in Threads, NEW at \in At, Goto(t, at)
  PROVE  /\ call' \in Calls
         /\ \A u \in Threads \ {t} : call'[u] = call[u]
         /\ call'[t].at = at /\ call'[t].op = call[t].op /\ call'[t].ptr = call[t].ptr
         /\ call'[t].size = call[t].size /\ call'[t].got = call[t].got
<1>1. call' = [call EXCEPT ![t] = [call[t] EXCEPT !.at = at]]
  BY DEF Goto
<1>2. [call[t] EXCEPT !.at = at] \in CallRecord
  BY DEF Calls, CallRecord
<1>3. call' \in Calls
  BY <1>1, <1>2 DEF Calls
<1>4. call'[t] = [call[t] EXCEPT !.at = at]
  BY <1>1 DEF Calls
<1> QED
  BY <1>1, <1>3, <1>4 DEF Calls, CallRecord

(* The record of a thread outside every call.                              *)
LEMMA IdleIs ==
  /\ Idle \in CallRecord
  /\ Idle.op = "none" /\ Idle.at = "idle" /\ Idle.ptr = NULL /\ Idle.size = 0
  /\ Idle.got = NULL
  BY AtIs, PointersAre DEF Idle, CallRecord

(* A return leaves the thread idle.                                        *)
LEMMA ReturnIs ==
  ASSUME call \in Calls, NEW t \in Threads, Return(t)
  PROVE  /\ call' \in Calls
         /\ \A u \in Threads \ {t} : call'[u] = call[u]
         /\ call'[t] = Idle
  BY IdleIs DEF Return, Calls

(* my_malloc returns to the caller, or to my_realloc.                      *)
LEMMA MallocedIs ==
  ASSUME call \in Calls, NEW t \in Threads, NEW p \in Pointers, Malloced(t, p)
  PROVE  /\ call' \in Calls
         /\ \A u \in Threads \ {t} : call'[u] = call[u]
         /\ call[t].op = "malloc" => call'[t] = Idle
         /\ call[t].op # "malloc" =>
              /\ call'[t].at = IF p = NULL THEN "finish" ELSE "free"
              /\ call'[t].op = call[t].op
<1>1. CASE call[t].op = "malloc"
  BY <1>1, ReturnIs DEF Malloced
<1>2. CASE call[t].op # "malloc"
  <2> DEFINE to == IF p = NULL THEN "finish" ELSE "free"
             r == [call[t] EXCEPT !.at = to, !.got = p]
  <2>1. call' = [call EXCEPT ![t] = r]
    BY <1>2 DEF Malloced, Calls
  <2>2. to \in At
    BY AtIs
  <2> HIDE DEF to
  <2>3. r \in CallRecord /\ r.at = to /\ r.op = call[t].op
    BY <2>2 DEF Calls, CallRecord
  <2> HIDE DEF r
  <2>4. call' \in Calls /\ call'[t] = r /\ \A u \in Threads \ {t} : call'[u] = call[u]
    BY <2>1, <2>3 DEF Calls
  <2> QED
    BY <1>2, <2>3, <2>4 DEF to
<1> QED
  BY <1>1, <1>2

(* my_free returns to the caller, or to my_realloc.                        *)
LEMMA FreedIs ==
  ASSUME call \in Calls, NEW t \in Threads, Freed(t)
  PROVE  /\ call' \in Calls
         /\ \A u \in Threads \ {t} : call'[u] = call[u]
         /\ call[t].op = "free" => call'[t] = Idle
         /\ call[t].op # "free" => call'[t].at = "finish"
<1>1. CASE call[t].op = "free"
  BY <1>1, ReturnIs DEF Freed
<1>2. CASE call[t].op # "free"
  <2>1. "finish" \in At
    BY AtIs
  <2> QED
    BY <1>2, <2>1, GotoIs DEF Freed
<1> QED
  BY <1>1, <1>2

(* The call that Enter records.                                            *)
LEMMA EnterIs ==
  ASSUME call \in Calls, NEW t \in Threads, NEW op \in Ops, NEW p \in Pointers,
         NEW size \in Sizes, Enter(t, op, p, size)
  PROVE  /\ call' \in Calls
         /\ \A u \in Threads \ {t} : call'[u] = call[u]
         /\ call[t].at = "idle"
         /\ call'[t].at \in Ops /\ call'[t].op = call'[t].at
         /\ call'[t].at = "realloc" => call'[t].size # 0
<1> DEFINE does == IF op # "realloc" THEN op
                   ELSE IF p = NULL THEN "malloc"
                   ELSE IF size = 0 THEN "free" ELSE "realloc"
           ptr == IF does \in {"malloc", "stats"} THEN NULL ELSE p
           n == IF does \in {"malloc", "realloc"} THEN size ELSE 0
           r == [op |-> does, at |-> does, got |-> NULL, ptr |-> ptr, size |-> n]
<1>1. call' = [call EXCEPT ![t] = r] /\ call[t].at = "idle"
  BY DEF Enter
<1>2. does \in Ops /\ (does = "realloc" => size # 0 /\ n = size)
  BY OpsAre
<1>3. ptr \in Pointers /\ n \in Sizes \cup {0}
  BY PointersAre
<1>4. Ops \subseteq At
  BY OpsAre, AtIs
<1> HIDE DEF does, ptr, n
<1>5. r \in CallRecord /\ r.at = does /\ r.op = does /\ r.size = n
  BY <1>2, <1>3, <1>4, PointersAre DEF CallRecord
<1> HIDE DEF r
<1>6. call' \in Calls /\ call'[t] = r /\ \A u \in Threads \ {t} : call'[u] = call[u]
  BY <1>1, <1>5 DEF Calls
<1> QED
  BY <1>1, <1>2, <1>5, <1>6

-----------------------------------------------------------------------------
(***************************************************************************)
(* Types.                                                                  *)
(***************************************************************************)

(* The type invariant by the names of its sets.                            *)
TypeParts == TOTAL_FLAGS \in Table /\ lock \in Nat /\ call \in Calls /\ alive \in BOOLEAN

(* TypeParts is TypeOK.                                                    *)
LEMMA TypeIs == TypeOK <=> TypeParts
  BY DEF TypeOK, TypeParts, Table, Calls, CallRecord

(* A size other than 0 takes at least a frame, and at most as many as hold *)
(* it.                                                                     *)
LEMMA CeilIs ==
  ASSUME NEW size \in Nat
  PROVE  /\ CeilFrames(size) \in Nat
         /\ size # 0 => CeilFrames(size) > 0
         /\ \A n \in Nat : size <= n * BYTES_PER_FRAME => CeilFrames(size) <= n
<1>1. CeilFrames(size) \in Nat
  BY FrameAssumption DEF CeilFrames
<1>2. size # 0 => CeilFrames(size) > 0
  BY FrameAssumption DEF CeilFrames
<1>3. ASSUME NEW n \in Nat, size <= n * BYTES_PER_FRAME
      PROVE  CeilFrames(size) <= n
  BY <1>3, FrameAssumption DEF CeilFrames
<1> QED
  BY <1>1, <1>2, <1>3

(* numOfFrames is exact below the range of an int.                         *)
LEMMA NumIs ==
  ASSUME NEW size \in Nat
  PROVE  /\ NumOfFrames(size) \in Nat
         /\ CeilFrames(size) < IntRange => NumOfFrames(size) = CeilFrames(size)
  BY CeilIs, SizeAssumption DEF NumOfFrames

(* The writes of my_malloc keep the type of the table, whatever the        *)
(* region.                                                                 *)
LEMMA MarkTyped ==
  ASSUME TOTAL_FLAGS \in Table, NEW s, NEW n \in Nat, MarkRegion(s, n)
  PROVE  TOTAL_FLAGS' \in Table
<1> DEFINE R == s..(s + n - 1)
           New(f) == [free |-> FALSE, start_frame |-> f = s, num_of_frames |-> n]
<1>1. TOTAL_FLAGS' = [f \in Frames |-> IF f \in R THEN New(f) ELSE TOTAL_FLAGS[f]]
  BY DEF MarkRegion
<1>2. \A f : New(f) \in Flag
  <2> SUFFICES ASSUME NEW f PROVE New(f) \in Flag
    OBVIOUS
  <2>1. (f = s) \in BOOLEAN
    OBVIOUS
  <2> QED
    BY <2>1, FlagOK
<1> HIDE DEF New, R
<1> QED
  BY <1>1, <1>2 DEF Table

(* So do those of my_free.                                                 *)
LEMMA ClearTyped ==
  ASSUME TOTAL_FLAGS \in Table, NEW R
  PROVE  Clear(R) \in Table
<1>1. Cleared \in Flag
  BY DEF Cleared, Flag
<1> QED
  BY <1>1 DEF Clear, Table

(* So does the new length of a block.                                      *)
LEMMA TrimTyped ==
  ASSUME NEW T \in Table, NEW i \in Frames, NEW n \in Nat
  PROVE  [T EXCEPT ![i].num_of_frames = n] \in Table
<1>1. [T[i] EXCEPT !.num_of_frames = n] \in Flag
  BY DEF Table, Flag
<1>2. [T EXCEPT ![i].num_of_frames = n] = [T EXCEPT ![i] = [T[i] EXCEPT !.num_of_frames = n]]
  BY DEF Table
<1> QED
  BY <1>1, <1>2 DEF Table

(* The disjuncts of Step, for the proofs that go through them.             *)
LEMMA StepCases ==
  ASSUME NEW t \in Threads, Step(t)
  PROVE  \/ \E op \in Ops, p \in Pointers, size \in Sizes : Enter(t, op, p, size)
         \/ SemWait(t)
         \/ SearchFails(t) \/ Search(t) \/ Mark(t)
         \/ Release(t) \/ ReleaseBad(t) \/ Raise(t)
         \/ ResizeBad(t) \/ ResizeRaise(t) \/ Shrink(t) \/ Grow(t) \/ SameSize(t) \/ Finish(t)
         \/ Lookup(t) \/ ReadSize(t) \/ PrintStats(t)
  BY Zenon DEF Step, Inside

(* A block is a frame with start_frame that is not free.                   *)
LEMMA BlockIs ==
  ASSUME TOTAL_FLAGS \in Table, NEW p, IsBlock(p)
  PROVE  p \in Frames /\ p \in Starts /\ p \notin FreeSet /\ TOTAL_FLAGS[p].num_of_frames \in Nat
<1>1. p \in Frames /\ TOTAL_FLAGS[p] \in Flag
  BY DEF IsBlock, Table
<1>2. TOTAL_FLAGS[p].num_of_frames \in Nat
  BY <1>1 DEF Flag
<1> QED
  BY <1>1, <1>2 DEF IsBlock, Starts, FreeSet

(* When the largest region holds size bytes, it is in the table.           *)
LEMMA Found ==
  ASSUME NEW size \in Nat, size # 0, size <= Largest.size * BYTES_PER_FRAME
  PROVE  /\ Largest.size \in Nat /\ Largest.size > 0
         /\ Largest.start \in Frames /\ Largest.start + Largest.size <= NUM_OF_FRAMES
         /\ CeilFrames(size) \in 1..Largest.size
<1>1. Largest.size \in Nat
  BY LargestIs, FrameAssumption
<1>2. Largest.size > 0
  BY <1>1, FrameAssumption
<1>3. CeilFrames(size) \in 1..Largest.size
  BY <1>1, CeilIs
<1> QED
  BY <1>1, <1>2, <1>3, LargestIs, FrameAssumption DEF Recorded, Frames

(* Every step keeps the types.                                             *)
LEMMA StepTypeOK ==
  ASSUME TypeOK, NEW t \in Threads, Step(t)
  PROVE  TypeOK'
<1>0. TypeParts
  BY TypeIs
<1>1. /\ TOTAL_FLAGS \in Table /\ lock \in Nat /\ call \in Calls /\ alive \in BOOLEAN
      /\ call[t].at \in At /\ call[t].ptr \in Pointers /\ call[t].size \in Nat
      /\ call[t].got \in Pointers
  BY <1>0, CallTyped DEF TypeParts
<1> SUFFICES TypeParts'
  BY DEF TypeOK, TypeParts, Table, Calls, CallRecord
<1>2. ASSUME NEW op \in Ops, NEW p \in Pointers, NEW size \in Sizes, Enter(t, op, p, size)
      PROVE  TypeParts'
  <2>1. call' \in Calls
    BY <1>1, <1>2, EnterIs
  <2> QED
    BY <1>1, <1>2, <2>1 DEF Enter, TypeParts
<1>3. CASE SemWait(t)
  <2>1. Critical[call[t].at] \in At
    BY <1>3, OpsAre, AtIs DEF SemWait
  <2>2. call' \in Calls
    BY <1>1, <1>3, <2>1, GotoIs DEF SemWait
  <2> QED
    BY <1>1, <1>3, <2>2 DEF SemWait, TypeParts
<1>4. CASE SearchFails(t)
  <2>1. call' \in Calls
    BY <1>1, <1>4, MallocedIs, PointersAre DEF SearchFails
  <2> QED
    BY <1>1, <1>4, <2>1 DEF SearchFails, TypeParts, Post
<1>5. CASE Search(t)
  <2>1. Largest.start \in Pointers
    BY <1>1, <1>5, Found, PointersAre DEF Search
  <2>2. call' = [call EXCEPT ![t] = [call[t] EXCEPT !.at = "mark", !.got = Largest.start]]
    BY <1>1, <1>5 DEF Search
  <2>3. "mark" \in At
    BY AtIs
  <2>4. [call[t] EXCEPT !.at = "mark", !.got = Largest.start] \in CallRecord
    BY <1>1, <2>1, <2>3 DEF Calls, CallRecord
  <2>5. call' \in Calls
    BY <1>1, <2>2, <2>4 DEF Calls
  <2> QED
    BY <1>1, <1>5, <2>5 DEF Search, TypeParts
<1>6. CASE Mark(t)
  <2>1. MarkRegion(call[t].got, CeilFrames(call[t].size))
    BY <1>6 DEF Mark, MarkRegion
  <2>2. TOTAL_FLAGS' \in Table
    BY <1>1, <2>1, CeilIs, MarkTyped
  <2>3. call' \in Calls
    BY <1>1, <1>6, MallocedIs DEF Mark
  <2> QED
    BY <1>1, <1>6, <2>2, <2>3 DEF Mark, TypeParts, Post
<1>7. CASE Release(t)
  <2>1. TOTAL_FLAGS' \in Table
    BY <1>1, <1>7, ClearTyped DEF Release
  <2>2. call' \in Calls
    BY <1>1, <1>7, FreedIs DEF Release
  <2> QED
    BY <1>1, <1>7, <2>1, <2>2 DEF Release, TypeParts, Post
<1>8. CASE ReleaseBad(t)
  <2>1. call' \in Calls
    BY <1>1, <1>8, GotoIs, AtIs DEF ReleaseBad
  <2> QED
    BY <1>1, <1>8, <2>1 DEF ReleaseBad, TypeParts, Post
<1>9. CASE Raise(t)
  <2>1. CASE HandlesSegv
    <3>1. call' \in Calls
      BY <1>1, <1>9, <2>1, FreedIs DEF Raise
    <3> QED
      BY <1>1, <1>9, <2>1, <3>1 DEF Raise, Post, TypeParts
  <2>2. CASE ~HandlesSegv
    BY <1>1, <1>9, <2>2 DEF Raise, TypeParts
  <2> QED
    BY <2>1, <2>2
<1>10. CASE ResizeBad(t)
  <2>1. call' \in Calls
    BY <1>1, <1>10, GotoIs, AtIs DEF ResizeBad
  <2> QED
    BY <1>1, <1>10, <2>1 DEF ResizeBad, TypeParts, Post
<1>18. CASE ResizeRaise(t)
  <2>1. call' \in Calls
    BY <1>1, <1>18, ReturnIs DEF ResizeRaise
  <2>2. alive' \in BOOLEAN
    BY <1>1, <1>18 DEF ResizeRaise
  <2> QED
    BY <1>1, <1>18, <2>1, <2>2 DEF ResizeRaise, TypeParts
<1>11. CASE Shrink(t)
  <2>1. call[t].ptr \in Frames
    BY <1>1, <1>11, BlockIs DEF Shrink
  <2>2. \A R : [Clear(R) EXCEPT ![call[t].ptr].num_of_frames = NumOfFrames(call[t].size)] \in Table
    BY <1>1, <2>1, NumIs, ClearTyped, TrimTyped
  <2>3. TOTAL_FLAGS' \in Table
    BY <1>11, <2>2 DEF Shrink
  <2>4. call' \in Calls
    BY <1>1, <1>11, ReturnIs DEF Shrink
  <2>5. lock' = lock + 1 /\ alive' = alive
    BY <1>11 DEF Shrink, Post
  <2> QED
    BY <1>1, <2>3, <2>4, <2>5 DEF TypeParts
<1>12. CASE Grow(t)
  <2>1. call' \in Calls
    BY <1>1, <1>12, GotoIs, AtIs DEF Grow
  <2> QED
    BY <1>1, <1>12, <2>1 DEF Grow, TypeParts
<1>13. CASE SameSize(t)
  <2>1. call' \in Calls
    BY <1>1, <1>13, ReturnIs DEF SameSize
  <2> QED
    BY <1>1, <1>13, <2>1 DEF SameSize, TypeParts
<1>14. CASE Finish(t)
  <2>1. call' \in Calls
    BY <1>1, <1>14, ReturnIs DEF Finish
  <2> QED
    BY <1>1, <1>14, <2>1 DEF Finish, TypeParts, Post
<1>15. CASE Lookup(t)
  <2>1. call' \in Calls
    BY <1>1, <1>15, ReturnIs, GotoIs, AtIs DEF Lookup
  <2> QED
    BY <1>1, <1>15, <2>1 DEF Lookup, TypeParts, Post
<1>16. CASE ReadSize(t)
  <2>1. call' \in Calls
    BY <1>1, <1>16, ReturnIs DEF ReadSize
  <2> QED
    BY <1>1, <1>16, <2>1 DEF ReadSize, TypeParts
<1>17. CASE PrintStats(t)
  <2>1. call' \in Calls
    BY <1>1, <1>17, ReturnIs DEF PrintStats
  <2> QED
    BY <1>1, <1>17, <2>1 DEF PrintStats, TypeParts, Post
<1> QED
  BY StepCases, <1>2, <1>3, <1>4, <1>5, <1>6, <1>7, <1>8, <1>9, <1>10, <1>11,
     <1>12, <1>13, <1>14, <1>15, <1>16, <1>17, <1>18

-----------------------------------------------------------------------------
(***************************************************************************)
(* The semaphore. HandlesSegv lets my_free post twice, so sections are     *)
(* kept apart when nobody handles the signal or there is one caller.       *)
(***************************************************************************)

(* One caller; a semaphore that is never posted twice; and no size whose   *)
(* frames an int does not count (hw4.c:233).                               *)
Alone == \A t, u \in Threads : t = u
Serial == Alone \/ ~HandlesSegv
NoWrap == \A size \in Sizes : CeilFrames(size) < IntRange

(* Where a thread holds the semaphore.                                     *)
InSection == {"search", "release", "resize", "lookup", "print", "mark", "finish"}
HeldBy(c) == c.at \in InSection \/ (c.op = "realloc" /\ c.at \in {"malloc", "free"})

(* The calls a thread can be in at each place, when my_realloc never gets  *)
(* past the semaphore that it holds.                                       *)
StageOf(c) ==
  /\ c.at \in {"search", "mark"} => c.op = "malloc"
  /\ c.at \in {"free", "release", "raise"} => c.op = "free"
  /\ c.at \in {"realloc", "resize", "signal"} => c.op = "realloc"
  /\ c.at = "malloc" => c.op \in {"malloc", "realloc"}
  /\ c.at # "finish"

(* Sections exclude each other.                                            *)
Apart == \A t, u \in Threads : HeldBy(call[t]) /\ HeldBy(call[u]) => t = u

(* The semaphore is 0 while a thread is inside.                            *)
Mutex ==
  /\ lock \in {0, 1}
  /\ Apart
  /\ \A t \in Threads : HeldBy(call[t]) => lock = 0
  /\ \A t \in Threads : StageOf(call[t])

(* The invariant of the semaphore: for one caller the sections are apart   *)
(* whatever its value.                                                     *)
Exclusive == alive => Apart /\ (~HandlesSegv => Mutex)

(* HeldBy is Holds, of a record.                                           *)
LEMMA HoldsIs == \A t : Holds(t) <=> HeldBy(call[t])
  BY AtIs DEF Holds, HeldBy, InSection

(* A step leaves the calls of the other threads alone.                     *)
LEMMA OthersStay ==
  ASSUME TypeOK, NEW t \in Threads, Step(t)
  PROVE  \A u \in Threads \ {t} : call'[u] = call[u]
<1> DEFINE Stay == \A u \in Threads \ {t} : call'[u] = call[u]
<1>1. /\ call \in Calls /\ call[t].at \in At /\ call[t].got \in Pointers
  BY TypeIs, CallTyped DEF TypeParts
<1>2. \A at \in At : Goto(t, at) => Stay
  BY <1>1, GotoIs
<1>3. Return(t) => Stay
  BY <1>1, ReturnIs
<1>4. \A p \in Pointers : Malloced(t, p) => Stay
  BY <1>1, MallocedIs
<1>5. Freed(t) => Stay
  BY <1>1, FreedIs
<1>6. \A op \in Ops, p \in Pointers, size \in Sizes : Enter(t, op, p, size) => Stay
  BY <1>1, EnterIs
<1>7. Search(t) => Stay
  BY <1>1 DEF Search, Calls
<1> HIDE DEF Stay
<1>8. SemWait(t) => Stay
  BY <1>2, OpsAre, AtIs DEF SemWait
<1>9. SearchFails(t) \/ Mark(t) => Stay
  BY <1>1, <1>4, PointersAre DEF SearchFails, Mark
<1>10. Release(t) => Stay
  BY <1>5 DEF Release
<1>11. ReleaseBad(t) \/ ResizeBad(t) \/ Grow(t) => Stay
  BY <1>2, AtIs DEF ReleaseBad, ResizeBad, Grow
<1>12. call' = call => Stay
  BY DEF Stay
<1>13. Raise(t) \/ ResizeRaise(t) => Stay
  BY <1>3, <1>5, <1>12 DEF Raise, ResizeRaise
<1>14. Shrink(t) \/ SameSize(t) \/ Finish(t) \/ ReadSize(t) \/ PrintStats(t) => Stay
  BY <1>3 DEF Shrink, SameSize, Finish, ReadSize, PrintStats
<1>15. Lookup(t) => Stay
  BY <1>2, <1>3, AtIs DEF Lookup
<1>16. Stay
  BY StepCases, <1>6, <1>7, <1>8, <1>9, <1>10, <1>11, <1>13, <1>14, <1>15
<1> QED
  BY <1>16 DEF Stay

(* An idle thread holds nothing.                                           *)
LEMMA IdleHolds == ~HeldBy(Idle) /\ StageOf(Idle)
  BY IdleIs DEF HeldBy, InSection, StageOf

(* A step leaves the semaphore alone and does not enter, takes it, or      *)
(* leaves and posts it once.                                               *)
Moves(t) ==
  \/ lock' = lock /\ (HeldBy(call'[t]) => HeldBy(call[t]))
  \/ lock > 0 /\ lock' = lock - 1
  \/ HeldBy(call[t]) /\ ~HeldBy(call'[t]) /\ lock' = lock + 1

(* Such a step keeps Mutex.                                                *)
LEMMA MovesMutex ==
  ASSUME Mutex, NEW t \in Threads, \A u \in Threads \ {t} : call'[u] = call[u],
         Moves(t), StageOf(call'[t])
  PROVE  Mutex'
<1>1. \A u \in Threads : StageOf(call'[u])
  BY DEF Mutex
<1>2. CASE lock' = lock /\ (HeldBy(call'[t]) => HeldBy(call[t]))
  BY <1>1, <1>2 DEF Mutex, Apart
<1>3. CASE lock > 0 /\ lock' = lock - 1
  <2>1. lock = 1 /\ \A u \in Threads : ~HeldBy(call[u])
    BY <1>3 DEF Mutex
  <2> QED
    BY <1>1, <1>3, <2>1 DEF Mutex, Apart
<1>4. CASE HeldBy(call[t]) /\ ~HeldBy(call'[t]) /\ lock' = lock + 1
  <2>1. lock = 0 /\ \A u \in Threads : ~HeldBy(call'[u])
    BY <1>4 DEF Mutex, Apart
  <2> QED
    BY <1>1, <1>4, <2>1 DEF Mutex, Apart
<1> QED
  BY <1>2, <1>3, <1>4 DEF Moves

(* Without a handler every step that ends alive is such a step.            *)
LEMMA StepMoves ==
  ASSUME TypeOK, ~HandlesSegv, Mutex, NEW t \in Threads, Step(t), alive'
  PROVE  Moves(t) /\ StageOf(call'[t])
<1> DEFINE c == call[t]
           d == call'[t]
<1>1. /\ call \in Calls /\ c.at \in At /\ c.got \in Pointers /\ StageOf(c)
      /\ HeldBy(c) => lock = 0
  BY TypeIs, CallTyped DEF TypeParts, Mutex
<1>2. ASSUME NEW op \in Ops, NEW p \in Pointers, NEW size \in Sizes, Enter(t, op, p, size)
      PROVE  Moves(t) /\ StageOf(d)
  <2>1. d.at \in Ops /\ d.op = d.at /\ lock' = lock
    BY <1>1, <1>2, EnterIs DEF Enter
  <2> QED
    BY <2>1, OpsAre DEF Moves, HeldBy, InSection, StageOf
<1>3. CASE SemWait(t)
  <2>1. c.at \in Ops /\ lock > 0 /\ lock' = lock - 1 /\ Goto(t, Critical[c.at]) /\ ~HeldBy(c)
    BY <1>1, <1>3 DEF SemWait
  <2>2. d.at = Critical[c.at] /\ d.op = c.op
    BY <1>1, <2>1, OpsAre, AtIs, GotoIs
  <2>3. StageOf(d)
    BY <1>1, <2>1, <2>2, OpsAre DEF StageOf, HeldBy
  <2> QED
    BY <2>1, <2>3 DEF Moves
<1>4. CASE SearchFails(t) \/ Mark(t)
  <2>1. c.at \in {"search", "mark"} /\ lock' = lock + 1
    BY <1>4 DEF SearchFails, Mark, Post
  <2>2. c.op = "malloc" /\ HeldBy(c)
    BY <1>1, <2>1 DEF StageOf, HeldBy, InSection
  <2>3. d = Idle
    BY <1>1, <1>4, <2>2, MallocedIs, PointersAre DEF SearchFails, Mark
  <2> QED
    BY <2>1, <2>2, <2>3, IdleHolds DEF Moves
<1>5. CASE Search(t)
  <2>1. c.at = "search" /\ lock' = lock /\ d.at = "mark" /\ d.op = c.op
    BY <1>1, <1>5 DEF Search, Calls, CallRecord
  <2> QED
    BY <1>1, <2>1 DEF Moves, StageOf, HeldBy, InSection
<1>6. CASE Release(t)
  <2>1. c.at = "release" /\ lock' = lock + 1 /\ Freed(t)
    BY <1>6 DEF Release, Post
  <2>2. d = Idle /\ HeldBy(c)
    BY <1>1, <2>1, FreedIs DEF StageOf, HeldBy, InSection
  <2> QED
    BY <2>1, <2>2, IdleHolds DEF Moves
<1>14. CASE ResizeBad(t)
  <2>1. c.at = "resize" /\ lock' = lock + 1 /\ Goto(t, "signal")
    BY <1>14 DEF ResizeBad, Post
  <2>2. d.at = "signal" /\ d.op = c.op
    BY <1>1, <2>1, GotoIs, AtIs
  <2> QED
    BY <1>1, <2>1, <2>2 DEF Moves, StageOf, HeldBy, InSection
<1>7. CASE ReleaseBad(t)
  <2>1. c.at = "release" /\ lock' = lock + 1 /\ Goto(t, "raise")
    BY <1>7 DEF ReleaseBad, Post
  <2>2. d.at = "raise" /\ d.op = c.op
    BY <1>1, <2>1, GotoIs, AtIs
  <2> QED
    BY <1>1, <2>1, <2>2 DEF Moves, StageOf, HeldBy, InSection
<1>8. ~Raise(t) /\ ~ResizeRaise(t)
  BY DEF Raise, ResizeRaise
<1>9. CASE Shrink(t)
  <2>1. c.at = "resize" /\ lock' = lock + 1 /\ Return(t)
    BY <1>9 DEF Shrink, Post
  <2>2. d = Idle /\ HeldBy(c)
    BY <1>1, <2>1, ReturnIs DEF HeldBy, InSection
  <2> QED
    BY <2>1, <2>2, IdleHolds DEF Moves
<1>10. CASE Grow(t)
  <2>1. c.at = "resize" /\ lock' = lock /\ Goto(t, "malloc")
    BY <1>10 DEF Grow
  <2>2. d.at = "malloc" /\ d.op = c.op
    BY <1>1, <2>1, GotoIs, AtIs
  <2> QED
    BY <1>1, <2>1, <2>2 DEF Moves, StageOf, HeldBy, InSection
<1>11. CASE SameSize(t) \/ ReadSize(t)
  <2>1. lock' = lock /\ Return(t)
    BY <1>11 DEF SameSize, ReadSize
  <2>2. d = Idle
    BY <1>1, <2>1, ReturnIs
  <2> QED
    BY <2>1, <2>2, IdleHolds DEF Moves
<1>12. CASE Finish(t) \/ PrintStats(t)
  <2>1. c.at \in {"finish", "print"} /\ lock' = lock + 1 /\ Return(t)
    BY <1>12 DEF Finish, PrintStats, Post
  <2>2. d = Idle /\ HeldBy(c)
    BY <1>1, <2>1, ReturnIs DEF HeldBy, InSection
  <2> QED
    BY <2>1, <2>2, IdleHolds DEF Moves
<1>13. CASE Lookup(t)
  <2>1. c.at = "lookup" /\ lock' = lock + 1 /\ (Goto(t, "readSize") \/ Return(t))
    BY <1>13 DEF Lookup, Post
  <2>2. d.at \in {"readSize", "idle"} /\ HeldBy(c)
    BY <1>1, <2>1, ReturnIs, GotoIs, AtIs, IdleIs DEF HeldBy, InSection
  <2> QED
    BY <2>1, <2>2 DEF Moves, StageOf, HeldBy, InSection
<1> QED
  BY StepCases, <1>2, <1>3, <1>4, <1>5, <1>6, <1>7, <1>8, <1>9, <1>10, <1>11, <1>12, <1>13,
     <1>14

(* Every step keeps Exclusive.                                             *)
LEMMA StepExclusive ==
  ASSUME Serial, TypeOK, Exclusive, alive, NEW t \in Threads, Step(t)
  PROVE  Exclusive'
<1>1. CASE HandlesSegv
  BY <1>1 DEF Serial, Alone, Exclusive, Apart
<1>2. CASE ~HandlesSegv
  <2>1. alive' => Mutex'
    BY <1>2, StepMoves, MovesMutex, OthersStay DEF Exclusive
  <2> QED
    BY <2>1 DEF Exclusive, Mutex
<1> QED
  BY <1>1, <1>2

-----------------------------------------------------------------------------
(***************************************************************************)
(* The table and what the threads know of it while they hold the           *)
(* semaphore.                                                              *)
(***************************************************************************)

(* The region of m frames at s is the largest in W, and the lowest of      *)
(* those.                                                                  *)
BestFit(W, s, m) ==
  /\ s \in Frames /\ m \in Nat \ {0} /\ s + m <= NUM_OF_FRAMES
  /\ s..(s + m - 1) \subseteq W
  /\ \A u \in Frames : \A k \in 1..(NUM_OF_FRAMES - u) :
       u..(u + k - 1) \subseteq W => Beaten(u, k, m, s)

(* A largest region begins at s and holds size bytes.                      *)
Fits(W, s, size) == \E m \in Nat : BestFit(W, s, m) /\ CeilFrames(size) <= m

(* What a thread knows between its steps: the region it has found is still *)
(* the worst fit, and the size of a my_realloc is not 0.                   *)
Pending(t) ==
  /\ call[t].at = "mark" =>
       call[t].size # 0 /\ Fits(FreeSet, call[t].got, call[t].size)
  /\ call[t].at \in {"realloc", "resize"} => call[t].size # 0

LayoutInv == Layout /\ \A t \in Threads : Pending(t)

(* What a step that writes no flag leaves as it was.                       *)
LEMMA SameTable ==
  ASSUME TOTAL_FLAGS' = TOTAL_FLAGS
  PROVE  /\ FreeSet' = FreeSet /\ Starts' = Starts /\ Lengths' = Lengths
         /\ Layout' <=> Layout
         /\ \A u \in Threads : call'[u] = call[u] => (Pending(u)' <=> Pending(u))
<1>1. FreeSet' = FreeSet /\ Starts' = Starts /\ Lengths' = Lengths
  BY DEF FreeSet, Starts, Lengths
<1> QED
  BY <1>1 DEF Layout, Pending

(* Blocks and lengths through the sets.                                    *)
LEMMA TableIs ==
  /\ TOTAL_FLAGS \in Table => \A p : IsBlock(p) => Lengths[p] = TOTAL_FLAGS[p].num_of_frames
  /\ \A p : IsBlock(p) <=> p \in Starts \ FreeSet
  BY DEF Lengths, IsBlock, Starts, FreeSet

(* What a step does to the table, when the one of the blocks it may        *)
(* work on is there.                                                       *)
Reserves(s, n) ==
  /\ s \in Frames /\ n \in Nat \ {0} /\ s..(s + n - 1) \subseteq FreeSet
  /\ FreeSet' = FreeSet \ (s..(s + n - 1))
  /\ Starts' = Starts \cup {s}
  /\ Lengths' = [f \in Frames |-> IF f \in s..(s + n - 1) THEN n ELSE Lengths[f]]

Releases(i) ==
  /\ i \in Starts
  /\ LET R == Extent(i, Lengths)
     IN  /\ FreeSet' = FreeSet \cup R
         /\ Starts' = Starts \ {i} /\ Starts' = Starts \ R
         /\ Lengths' = [f \in Frames |-> IF f \in R THEN 0 ELSE Lengths[f]]

Trims(i, n) ==
  /\ i \in Starts /\ n \in Nat \ {0} /\ n < Lengths[i]
  /\ LET R == (i + n)..(i + Lengths[i] - 1)
     IN  /\ FreeSet' = FreeSet \cup R
         /\ Starts' = Starts /\ Starts' = Starts \ R
         /\ Lengths' = [f \in Frames |-> IF f = i THEN n ELSE IF f \in R THEN 0 ELSE Lengths[f]]

(* Reserving a free region keeps the layout.                               *)
LEMMA ReservesLayout ==
  ASSUME Layout, NEW s, NEW n, Reserves(s, n)
  PROVE  Layout'
  BY MarkTable DEF Layout, Reserves

(* So does releasing a block,                                              *)
LEMMA ReleasesLayout ==
  ASSUME Layout, NEW i, Releases(i)
  PROVE  Layout'
  BY FreeTable DEF Layout, Releases

(* and trimming one.                                                       *)
LEMMA TrimsLayout ==
  ASSUME Layout, NEW i, NEW n, Trims(i, n)
  PROVE  Layout'
  BY ShrinkTable DEF Layout, Trims

(* my_malloc reserves a free region.                                       *)
LEMMA MarkReserves ==
  ASSUME TypeOK, Layout, NEW t \in Threads, Pending(t), Mark(t)
  PROVE  Reserves(call[t].got, CeilFrames(call[t].size))
<1> DEFINE s == call[t].got
           n == CeilFrames(call[t].size)
<1>1. TOTAL_FLAGS \in Table /\ call[t].size \in Nat
  BY TypeIs, CallTyped DEF TypeParts
<1>2. call[t].at = "mark"
  BY DEF Mark
<1>3. n \in Nat \ {0}
  BY <1>1, <1>2, CeilIs DEF Pending
<1>4. PICK m \in Nat : BestFit(FreeSet, s, m) /\ n <= m
  BY <1>2 DEF Pending, Fits
<1>5. MarkRegion(s, n)
  BY DEF Mark, MarkRegion
<1> HIDE DEF s, n
<1>6. s \in Frames /\ s..(s + n - 1) \subseteq FreeSet
  BY <1>3, <1>4, PointersAre DEF BestFit
<1>7. s..(s + n - 1) \subseteq Frames
  BY <1>6 DEF FreeSet
<1>8. /\ FreeSet' = FreeSet \ (s..(s + n - 1))
      /\ Starts' = (Starts \ (s..(s + n - 1))) \cup {s}
      /\ Lengths' = [f \in Frames |-> IF f \in s..(s + n - 1) THEN n ELSE Lengths[f]]
  BY <1>1, <1>3, <1>5, <1>6, <1>7, MarkRegionIs
<1>9. Starts \cap (s..(s + n - 1)) = {}
  BY <1>6 DEF Layout, TableOK
<1>10. Reserves(s, n)
  BY <1>3, <1>6, <1>8, <1>9 DEF Reserves
<1> QED
  BY <1>10 DEF s, n

(* my_free releases a block, or nothing.                                   *)
LEMMA ReleaseReleases ==
  ASSUME TypeOK, Layout, NEW t \in Threads, Release(t)
  PROVE  TOTAL_FLAGS' = TOTAL_FLAGS \/ Releases(call[t].ptr)
<1> DEFINE i == call[t].ptr
           R == i..(i + TOTAL_FLAGS[i].num_of_frames - 1)
<1>1. CASE TOTAL_FLAGS' # TOTAL_FLAGS
  <2>1. IsBlock(i) /\ TOTAL_FLAGS' = Clear(R)
    BY <1>1 DEF Release
  <2>2. TOTAL_FLAGS \in Table
    BY TypeIs DEF TypeParts
  <2>3. i \in Starts /\ R = Extent(i, Lengths)
    BY <2>1, <2>2, TableIs DEF Extent
  <2> HIDE DEF R, i
  <2>4. R \in SUBSET Frames /\ Starts \ R = Starts \ {i}
    <3>1. TableOK(FreeSet, Starts, Lengths)
      BY DEF Layout
    <3> QED
      BY <2>3, <3>1, ExtentIs
  <2>5. Releases(i)
    BY <2>1, <2>2, <2>3, <2>4, ClearIs DEF Releases
  <2> QED
    BY <2>5 DEF i
<1> QED
  BY <1>1

(* my_realloc to fewer frames trims a block.                               *)
LEMMA ShrinkTrims ==
  ASSUME NoWrap, TypeOK, Layout, NEW t \in Threads, Pending(t), Shrink(t)
  PROVE  Trims(call[t].ptr, CeilFrames(call[t].size))
<1> DEFINE i == call[t].ptr
           n == CeilFrames(call[t].size)
           old == TOTAL_FLAGS[i].num_of_frames
           R == (i + n)..(i + old - 1)
<1>1. TOTAL_FLAGS \in Table /\ call[t].size \in Sizes \cup {0} /\ call[t].size \in Nat
  BY TypeIs, CallTyped DEF TypeParts
<1>2. call[t].size # 0
  BY DEF Shrink, Pending
<1>3. n \in Nat \ {0} /\ NumOfFrames(call[t].size) = n
  BY <1>1, <1>2, CeilIs, NumIs DEF NoWrap
<1>4. IsBlock(i) /\ n < old
  BY <1>3 DEF Shrink
<1>9. TrimRegion(R, i, n)
  BY <1>3 DEF Shrink, TrimRegion
<1>5. i \in Starts /\ i \in Frames /\ old = Lengths[i]
  BY <1>1, <1>4, TableIs, BlockIs
<1> HIDE DEF n, i, old
<1>6. R \in SUBSET Frames /\ i \notin R /\ Starts \ R = Starts
  <2>1. TableOK(FreeSet, Starts, Lengths) /\ n < Lengths[i]
    BY <1>4, <1>5 DEF Layout
  <2> DEFINE E == (i + n)..(i + Lengths[i] - 1)
  <2>2. E \subseteq Frames /\ i \notin E /\ Starts \ E = Starts
    BY <1>3, <1>5, <2>1, TrimmedIs
  <2> QED
    BY <1>5, <2>2
<1>10. TrimRegion(R, i, n)
  BY <1>9
<1>11. i \in Frames /\ n \in Nat
  BY <1>3, <1>5
<1> HIDE DEF R
<1>7. /\ FreeSet' = FreeSet \cup R
      /\ Starts' = Starts \ R
      /\ Lengths' = [f \in Frames |-> IF f = i THEN n ELSE IF f \in R THEN 0 ELSE Lengths[f]]
  BY <1>1, <1>6, <1>10, <1>11, TrimIs
<1>8. Trims(i, n)
  BY <1>3, <1>4, <1>5, <1>6, <1>7 DEF Trims, R
<1> QED
  BY <1>8 DEF i, n

(* Every step leaves the table alone, or is one of three.                  *)
LEMMA TableStep ==
  ASSUME NoWrap, TypeOK, LayoutInv, NEW t \in Threads, Step(t)
  PROVE  \/ TOTAL_FLAGS' = TOTAL_FLAGS
         \/ Mark(t) /\ Reserves(call[t].got, CeilFrames(call[t].size))
         \/ Release(t) /\ Releases(call[t].ptr)
         \/ Shrink(t) /\ Trims(call[t].ptr, CeilFrames(call[t].size))
<1>1. Layout /\ Pending(t)
  BY DEF LayoutInv
<1>2. \A op, p, size : Enter(t, op, p, size) => TOTAL_FLAGS' = TOTAL_FLAGS
  BY DEF Enter
<1>3. SemWait(t) \/ SearchFails(t) \/ Search(t) \/ ReleaseBad(t) \/ Raise(t) \/ ResizeBad(t)
        \/ ResizeRaise(t) => TOTAL_FLAGS' = TOTAL_FLAGS
  BY DEF SemWait, SearchFails, Search, ReleaseBad, Raise, ResizeBad, ResizeRaise
<1>4. Grow(t) \/ SameSize(t) \/ Finish(t) \/ Lookup(t) \/ ReadSize(t) \/ PrintStats(t)
        => TOTAL_FLAGS' = TOTAL_FLAGS
  BY DEF Grow, SameSize, Finish, Lookup, ReadSize, PrintStats
<1> QED
  BY StepCases, <1>1, <1>2, <1>3, <1>4, MarkReserves, ReleaseReleases, ShrinkTrims

-----------------------------------------------------------------------------
(***************************************************************************)
(* The inductive step.                                                     *)
(***************************************************************************)

(* Every step keeps the layout.                                            *)
LEMMA StepLayout ==
  ASSUME NoWrap, TypeOK, LayoutInv, NEW t \in Threads, Step(t)
  PROVE  Layout'
<1>1. Layout
  BY DEF LayoutInv
<1>2. CASE TOTAL_FLAGS' = TOTAL_FLAGS
  BY <1>1, <1>2, SameTable
<1> QED
  BY <1>1, <1>2, TableStep, ReservesLayout, ReleasesLayout, TrimsLayout

(* The region that the loop found is the worst fit. *)
LEMMA LargestFits ==
  ASSUME NEW size \in Nat, size # 0, size <= Largest.size * BYTES_PER_FRAME
  PROVE  Fits(FreeSet, Largest.start, size)
<1> DEFINE s == Largest.start
           m == Largest.size
<1>1. /\ m \in Nat \ {0} /\ s \in Frames /\ s + m <= NUM_OF_FRAMES
      /\ CeilFrames(size) <= m
  BY Found, CeilIs
<1>2. s..(s + m - 1) \subseteq FreeSet
  BY <1>1, LargestIs DEF Recorded
<1>3. \A u \in Frames : \A k \in 1..(NUM_OF_FRAMES - u) :
        u..(u + k - 1) \subseteq FreeSet => Beaten(u, k, m, s)
  BY LargestIs
<1> HIDE DEF s, m
<1>4. BestFit(FreeSet, s, m)
  BY <1>1, <1>2, <1>3 DEF BestFit
<1>5. Fits(FreeSet, s, size)
  BY <1>1, <1>4 DEF Fits
<1> QED
  BY <1>5 DEF s

(* The thread that takes the step. *)
LEMMA StepPending ==
  ASSUME TypeOK, NEW t \in Threads, Pending(t), Step(t)
  PROVE  Pending(t)'
<1> DEFINE c == call[t]
           d == call'[t]
<1>1. /\ call \in Calls /\ c.at \in At /\ c.got \in Pointers /\ c.size \in Nat
  BY TypeIs, CallTyped DEF TypeParts
<1> DEFINE Calm == d.at \notin {"mark", "realloc", "resize"}
<1>0. Calm => Pending(t)'
  BY DEF Pending
<1>11. d = Idle => Calm
  BY IdleIs
<1>2. ASSUME NEW op \in Ops, NEW p \in Pointers, NEW size \in Sizes, Enter(t, op, p, size)
      PROVE  Pending(t)'
  <2>1. d.at \in Ops /\ (d.at = "realloc" => d.size # 0)
    BY <1>1, <1>2, EnterIs
  <2>2. d.at \notin {"mark", "resize"}
    BY <2>1, OpsAre
  <2> QED
    BY <2>1, <2>2 DEF Pending
<1>3. CASE SemWait(t)
  <2>1. c.at \in Ops /\ Goto(t, Critical[c.at])
    BY <1>3 DEF SemWait
  <2>2. d.at = Critical[c.at] /\ d.size = c.size
    BY <1>1, <2>1, OpsAre, AtIs, GotoIs
  <2>3. d.at = "resize" => c.at = "realloc"
    BY <2>1, <2>2, OpsAre
  <2>4. d.at \notin {"mark", "realloc"}
    BY <2>1, <2>2, OpsAre
  <2> QED
    BY <2>2, <2>3, <2>4 DEF Pending
<1>4. CASE SearchFails(t) \/ Mark(t)
  <2>1. d = Idle \/ d.at \in {"finish", "free"}
    BY <1>1, <1>4, MallocedIs, PointersAre DEF SearchFails, Mark
  <2> QED
    BY <1>0, <1>11, <2>1
<1>5. CASE Search(t)
  <2>1. /\ d.at = "mark" /\ d.got = Largest.start /\ d.size = c.size
        /\ c.size # 0 /\ c.size <= Largest.size * BYTES_PER_FRAME
        /\ TOTAL_FLAGS' = TOTAL_FLAGS
    BY <1>1, <1>5 DEF Search, Calls, CallRecord
  <2>2. FreeSet' = FreeSet
    BY <2>1, SameTable
  <2>3. Fits(FreeSet, Largest.start, c.size)
    BY <1>1, <2>1, LargestFits
  <2> HIDE DEF c
  <2>4. Fits(FreeSet', d.got, d.size)
    BY <2>1, <2>2, <2>3
  <2> HIDE DEF d
  <2>5. d.size # 0 /\ d.at \notin {"realloc", "resize"}
    BY <2>1
  <2> QED
    BY <2>4, <2>5 DEF Pending, d
<1>6. CASE Release(t) \/ Raise(t)
  <2>1. d = Idle \/ d.at = "finish" \/ (d = c /\ c.at = "raise")
    BY <1>1, <1>6, FreedIs DEF Release, Raise
  <2> QED
    BY <1>0, <1>11, <2>1
<1>7. CASE ReleaseBad(t) \/ ResizeBad(t) \/ Grow(t)
  <2>1. d.at \in {"raise", "signal", "malloc"}
    BY <1>1, <1>7, GotoIs, AtIs DEF ReleaseBad, ResizeBad, Grow
  <2> QED
    BY <1>0, <2>1
<1>8. CASE ResizeRaise(t)
  <2>1. d = Idle \/ (d = c /\ c.at = "signal")
    BY <1>1, <1>8, ReturnIs DEF ResizeRaise
  <2> QED
    BY <1>0, <1>11, <2>1
<1>9. CASE Shrink(t) \/ SameSize(t) \/ Finish(t) \/ ReadSize(t) \/ PrintStats(t)
  <2>1. d = Idle
    BY <1>1, <1>9, ReturnIs DEF Shrink, SameSize, Finish, ReadSize, PrintStats
  <2> QED
    BY <1>0, <1>11, <2>1
<1>10. CASE Lookup(t)
  <2>1. d = Idle \/ d.at = "readSize"
    BY <1>1, <1>10, ReturnIs, GotoIs, AtIs DEF Lookup
  <2> QED
    BY <1>0, <1>11, <2>1
<1> QED
  BY StepCases, <1>2, <1>3, <1>4, <1>5, <1>6, <1>7, <1>8, <1>9, <1>10

(* A step that writes flags is inside, so no other thread has a region in  *)
(* mind.                                                                   *)
LEMMA StepLayoutInv ==
  ASSUME NoWrap, TypeOK, LayoutInv, Apart, NEW t \in Threads, Step(t)
  PROVE  LayoutInv'
<1>1. Layout'
  BY StepLayout
<1>2. ASSUME NEW u \in Threads PROVE Pending(u)'
  <2>1. CASE u = t
    BY <2>1, StepPending DEF LayoutInv
  <2>2. CASE u # t /\ TOTAL_FLAGS' = TOTAL_FLAGS
    <3>1. call'[u] = call[u]
      BY <2>2, OthersStay
    <3> QED
      BY <2>2, <3>1, SameTable DEF LayoutInv
  <2>3. CASE u # t /\ TOTAL_FLAGS' # TOTAL_FLAGS
    <3>1. call[t].at \in {"mark", "release", "resize"}
      BY <2>3, TableStep DEF Mark, Release, Shrink
    <3>2. HeldBy(call[t])
      BY <3>1 DEF HeldBy, InSection
    <3>3. call[u].at # "mark"
      BY <2>3, <3>2 DEF Apart, HeldBy, InSection
    <3>4. call'[u] = call[u]
      BY <2>3, OthersStay
    <3>5. Pending(u)
      BY DEF LayoutInv
    <3> QED
      BY <3>3, <3>4, <3>5 DEF Pending
  <2> QED
    BY <2>1, <2>2, <2>3
<1> QED
  BY <1>1, <1>2 DEF LayoutInv

-----------------------------------------------------------------------------
(***************************************************************************)
(* The theorems about the table and the semaphore.                         *)
(***************************************************************************)

(* The inductive invariant.                                                *)
FrameInv == TypeOK /\ Exclusive /\ LayoutInv

(* It holds when main has initialised the table,                           *)
LEMMA InitFrameInv == Init => FrameInv
<1> SUFFICES ASSUME Init PROVE FrameInv
  OBVIOUS
<1>1. Cleared \in Flag /\ Cleared.free /\ ~Cleared.start_frame
  BY DEF Cleared, Flag
<1>2. TypeParts
  BY <1>1, IdleIs DEF Init, TypeParts, Table, Calls
<1>3. \A t \in Threads : call[t] = Idle
  BY DEF Init
<1>4. Exclusive
  BY <1>3, IdleHolds DEF Init, Exclusive, Mutex, Apart
<1>5. FreeSet = Frames /\ Starts = {} /\ Lengths \in [Frames -> Nat]
  BY <1>1 DEF Init, FreeSet, Starts, Lengths, Cleared
<1>6. Layout
  BY <1>5 DEF Layout, TableOK
<1>7. \A t \in Threads : Pending(t)
  BY <1>3, IdleIs DEF Pending
<1> QED
  BY <1>2, <1>4, <1>6, <1>7, TypeIs DEF FrameInv, LayoutInv

(* Every variable keeps its type, for any callers and whether or not the   *)
(* program handles SIGSEGV.                                                *)
THEOREM TypeCorrect == Spec => []TypeOK
<1>1. Init => TypeOK
  BY InitFrameInv DEF FrameInv
<1>2. TypeOK /\ [Next]_vars => TypeOK'
  <2> SUFFICES ASSUME TypeOK, [Next]_vars PROVE TypeOK'
    OBVIOUS
  <2>1. CASE Next
    BY <2>1, StepTypeOK DEF Next
  <2>2. CASE UNCHANGED vars
    BY <2>2 DEF vars, TypeOK
  <2> QED
    BY <2>1, <2>2
<1> QED
  BY <1>1, <1>2, PTL DEF Spec

(* The sections of my_malloc, my_free and my_realloc never overlap as long *)
(* as no second sem_post of my_free can let another caller in.             *)
THEOREM Semaphore == ASSUME Serial PROVE Spec => [](TypeOK /\ Exclusive)
<1>1. Init => TypeOK /\ Exclusive
  BY InitFrameInv DEF FrameInv
<1>2. TypeOK /\ Exclusive /\ [Next]_vars => (TypeOK /\ Exclusive)'
  <2> SUFFICES ASSUME TypeOK, Exclusive, [Next]_vars PROVE (TypeOK /\ Exclusive)'
    OBVIOUS
  <2>1. CASE Next
    BY <2>1, StepTypeOK, StepExclusive DEF Next
  <2>2. CASE UNCHANGED vars
    BY <2>2 DEF vars, TypeOK, Exclusive, Mutex, Apart
  <2> QED
    BY <2>1, <2>2
<1> QED
  BY <1>1, <1>2, PTL DEF Spec

(* Mutex counts the threads inside.                                        *)
LEMMA MutexHolds ==
  ASSUME Mutex
  PROVE  lock + Cardinality({t \in Threads : Holds(t)}) <= 1
<1> DEFINE S == {t \in Threads : Holds(t)}
<1>1. CASE S = {}
  BY <1>1, FS_EmptySet DEF Mutex
<1>2. CASE S # {}
  <2>1. PICK t \in Threads : HeldBy(call[t])
    BY <1>2, HoldsIs
  <2>2. S = {t}
    BY <2>1, HoldsIs DEF Mutex, Apart
  <2>3. lock = 0
    BY <2>1 DEF Mutex
  <2> QED
    BY <2>2, <2>3, FS_Singleton
<1> QED
  BY <1>1, <1>2

(* Without a handler of SIGSEGV the semaphore admits one thread at a time, *)
(* and is 0 while one is inside.                                           *)
THEOREM OneInside == ASSUME ~HandlesSegv PROVE Spec => []MutualExclusion
<1>1. TypeOK /\ Exclusive => MutualExclusion
  BY MutexHolds DEF Exclusive, MutualExclusion
<1>2. Serial
  BY DEF Serial
<1> QED
  BY <1>1, <1>2, Semaphore, PTL

(* and every step keeps it.                                                *)
LEMMA NextFrameInv ==
  ASSUME Serial, NoWrap
  PROVE  FrameInv /\ [Next]_vars => FrameInv'
<1> SUFFICES ASSUME FrameInv, [Next]_vars PROVE FrameInv'
  OBVIOUS
<1>1. CASE Next
  BY <1>1, StepTypeOK, StepExclusive, StepLayoutInv DEF Next, FrameInv, Exclusive
<1>2. CASE UNCHANGED vars
  <2>1. TypeOK' /\ Exclusive'
    BY <1>2 DEF vars, FrameInv, TypeOK, Exclusive, Mutex, Apart
  <2>2. LayoutInv'
    BY <1>2, SameTable DEF vars, FrameInv, LayoutInv
  <2> QED
    BY <2>1, <2>2 DEF FrameInv
<1> QED
  BY <1>1, <1>2

(* The inductive invariant holds in every state.                           *)
THEOREM FrameInvariance == ASSUME Serial, NoWrap PROVE Spec => []FrameInv
  BY InitFrameInv, NextFrameInv, PTL DEF Spec

(* Blocks and their frames through the sets.                               *)
LEMMA BlocksAre ==
  ASSUME Layout
  PROVE  /\ Blocks = Starts
         /\ \A i \in Blocks : BlockFrames(i) = Extent(i, Lengths)
<1>1. Blocks = Starts
  BY DEF Blocks, IsBlock, Starts, FreeSet, Layout, TableOK
<1>2. \A i \in Blocks : TOTAL_FLAGS[i].num_of_frames = Lengths[i]
  BY DEF Blocks, Lengths
<1> QED
  BY <1>1, <1>2 DEF BlockFrames, Extent

(* The frames that are not free are exactly those of the blocks: none is   *)
(* lost, none is in two blocks (hw4.c:16).                                 *)
THEOREM FramesAccountedFor ==
  ASSUME Serial, NoWrap
  PROVE  Spec => []ReservedFramesHaveOneBlock
<1>1. FrameInv => ReservedFramesHaveOneBlock
  <2> SUFFICES ASSUME FrameInv, NEW f \in Frames
               PROVE  IF TOTAL_FLAGS[f].free
                      THEN ~TOTAL_FLAGS[f].start_frame
                             /\ \A i \in Blocks : f \notin BlockFrames(i)
                      ELSE \E i \in Blocks : /\ f \in BlockFrames(i)
                                             /\ \A j \in Blocks \ {i} : f \notin BlockFrames(j)
    BY DEF FrameInv, ReservedFramesHaveOneBlock
  <2>0. Layout /\ TableOK(FreeSet, Starts, Lengths)
    BY DEF FrameInv, LayoutInv, Layout
  <2>1. CASE f \in FreeSet
    <3>1. TOTAL_FLAGS[f].free
      BY <2>1, FreeFrame
    <3>2. ~TOTAL_FLAGS[f].start_frame
      BY <2>0, <2>1 DEF TableOK, Starts
    <3>3. \A i \in Blocks : f \notin BlockFrames(i)
      BY <2>0, <2>1, BlocksAre, ExtentIs
    <3> QED
      BY <3>1, <3>2, <3>3
  <2>2. CASE f \notin FreeSet
    <3>1. ~TOTAL_FLAGS[f].free
      BY <2>2, FreeFrame
    <3>2. PICK i \in Blocks : f \in BlockFrames(i)
      BY <2>0, <2>2, BlocksAre DEF TableOK
    <3>3. \A j \in Blocks \ {i} : f \notin BlockFrames(j)
      BY <2>0, <3>2, BlocksAre, BlocksDisjoint
    <3> QED
      BY <3>1, <3>2, <3>3
  <2> QED
    BY <2>1, <2>2
<1> QED
  BY <1>1, FrameInvariance, PTL

(* A step that writes a frame of a block is a my_free or a my_realloc of   *)
(* that block.                                                             *)
LEMMA StepOwn ==
  ASSUME NoWrap, FrameInv, NEW t \in Threads, Step(t),
         NEW i \in Blocks, NEW f \in BlockFrames(i) \cap Frames,
         TOTAL_FLAGS'[f] # TOTAL_FLAGS[f]
  PROVE  call[t].at \in {"release", "resize"} /\ call[t].ptr = i
<1>0. TypeOK /\ Layout /\ LayoutInv /\ Pending(t) /\ TableOK(FreeSet, Starts, Lengths)
  BY DEF FrameInv, LayoutInv, Layout
<1>1. i \in Starts /\ f \in Extent(i, Lengths)
  BY <1>0, BlocksAre
<1>2. f \notin FreeSet
  BY <1>0, <1>1 DEF TableOK
<1>3. CASE Mark(t) /\ Reserves(call[t].got, CeilFrames(call[t].size))
  <2>1. f \notin call[t].got..(call[t].got + CeilFrames(call[t].size) - 1)
    BY <1>2, <1>3 DEF Reserves
  <2> QED
    BY <1>3, <2>1 DEF Mark
<1>4. CASE Release(t) /\ Releases(call[t].ptr)
  <2> PICK p \in Starts : p = call[t].ptr
    BY <1>4 DEF Releases
  <2>1. call[t].at = "release" /\ TOTAL_FLAGS' = Clear(p..(p + TOTAL_FLAGS[p].num_of_frames - 1))
    BY <1>4 DEF Release
  <2>2. f \in p..(p + TOTAL_FLAGS[p].num_of_frames - 1)
    BY <2>1 DEF Clear
  <2>3. f \in Extent(p, Lengths)
    BY <2>2 DEF Extent, Lengths, Starts
  <2>4. i = p
    BY <1>0, <1>1, <2>3, BlocksDisjoint
  <2> QED
    BY <2>1, <2>4
<1>5. CASE Shrink(t) /\ Trims(call[t].ptr, CeilFrames(call[t].size))
  <2>1. call[t].at = "resize"
    BY <1>5 DEF Shrink
  <2> PICK p \in Starts : p = call[t].ptr
    BY <1>5 DEF Trims
  <2> PICK n \in Nat \ {0} : n = CeilFrames(call[t].size) /\ n < Lengths[p]
    BY <1>5 DEF Trims
  <2>2. NumOfFrames(call[t].size) = n
    <3>1. call[t].size \in Sizes \cup {0} /\ call[t].size \in Nat
      BY <1>0, TypeIs, CallTyped DEF TypeParts
    <3>2. call[t].size # 0
      BY <1>0, <2>1 DEF Pending
    <3> QED
      BY <3>1, <3>2, NumIs DEF NoWrap
  <2>3. f \in {p} \cup ((p + n)..(p + TOTAL_FLAGS[p].num_of_frames - 1))
    BY <1>5, <2>2 DEF Shrink, Clear
  <2>4. p \in Extent(p, Lengths) /\ p \in Int /\ p \in Frames
    <3>1. p \in Frames /\ Lengths[p] \in Nat /\ Lengths[p] > 0
      BY <1>0 DEF TableOK
    <3> QED
      BY <3>1, PointersAre DEF Extent
  <2>5. f \in Extent(p, Lengths)
    BY <2>3, <2>4 DEF Extent, Lengths
  <2>6. i = p
    BY <1>0, <1>1, <2>5, BlocksDisjoint
  <2> QED
    BY <2>1, <2>6
<1> QED
  BY <1>0, <1>3, <1>4, <1>5, TableStep

(* No frame of a block is written but by a my_free or my_realloc of its    *)
(* own address, whatever the other callers do.                             *)
THEOREM OwnBlock == ASSUME Serial, NoWrap PROVE Spec => BlockIsItsCallers
<1> DEFINE Own == \A i \in Blocks :
       (\E f \in BlockFrames(i) \cap Frames : TOTAL_FLAGS'[f] # TOTAL_FLAGS[f])
         => \E t \in Threads : call[t].at \in {"release", "resize"} /\ call[t].ptr = i
<1>1. FrameInv /\ [Next]_vars => [Own]_vars
  BY StepOwn DEF Next, vars
<1> QED
  BY <1>1, FrameInvariance, PTL DEF Spec, BlockIsItsCallers

-----------------------------------------------------------------------------
(***************************************************************************)
(* The refinement of Heap.                                                 *)
(***************************************************************************)

(* The blocks of Heap, as FrameAlloc maps them.                            *)
HeapBlocks == {[start |-> i, frames |-> TOTAL_FLAGS[i].num_of_frames] : i \in Blocks}
Block(i, n) == [start |-> i, frames |-> n]

(* They are those of the sets.                                             *)
LEMMA HeapBlocksAre ==
  ASSUME Layout
  PROVE  HeapBlocks = {Block(i, Lengths[i]) : i \in Starts}
<1>1. Blocks = Starts /\ \A i \in Blocks : TOTAL_FLAGS[i].num_of_frames = Lengths[i]
  BY BlocksAre DEF Blocks, Lengths
<1> QED
  BY <1>1 DEF HeapBlocks, Block

(* A nonempty set of naturals with a bound has a greatest element.         *)
LEMMA Greatest ==
  ASSUME NEW n \in Nat, NEW T \in SUBSET (0..n), T # {}
  PROVE  \E m \in T : \A k \in T : k <= m
<1> DEFINE D == {n - k : k \in T}
<1>1. D \in SUBSET Nat /\ D # {}
  OBVIOUS
<1>2. PICK d \in D : \A e \in D : d <= e
  BY <1>1, Least
<1>3. PICK m \in T : d = n - m
  BY <1>2
<1>4. ASSUME NEW k \in T PROVE k <= m
  <2>1. n - k \in D
    OBVIOUS
  <2>2. n - m <= n - k
    BY <1>2, <1>3, <2>1
  <2>3. n \in Int /\ m \in Int /\ k \in Int
    OBVIOUS
  <2> HIDE DEF D
  <2> QED
    BY <2>2, <2>3
<1> QED
  BY <1>4

(* The free frames of Heap are those of the table.                         *)
LEMMA FreeFramesAre ==
  ASSUME Layout
  PROVE  H!FreeFrames = FreeSet
<1> DEFINE E == UNION {H!Extent(b) : b \in HeapBlocks}
<1>1. \A i \in Starts : H!Extent(Block(i, Lengths[i])) = Extent(i, Lengths)
  BY DEF H!Extent, Block, Extent
<1>2. E = UNION {Extent(i, Lengths) : i \in Starts}
  BY <1>1, HeapBlocksAre
<1>3. UNION {Extent(i, Lengths) : i \in Starts} = Frames \ FreeSet
  BY ExtentIs DEF Layout, TableOK
<1>4. H!FreeFrames = Frames \ E
  BY DEF H!FreeFrames, H!Frames, Frames, HeapBlocks
<1>5. FreeSet \subseteq Frames
  BY DEF FreeSet
<1> QED
  BY <1>2, <1>3, <1>4, <1>5

(* Room is the length of the longest free region at a frame.               *)
LEMMA RoomIs ==
  ASSUME Layout, NEW s \in Frames
  PROVE  /\ H!Room(s) \in 0..(NUM_OF_FRAMES - s)
         /\ s..(s + H!Room(s) - 1) \subseteq FreeSet
         /\ \A k \in 0..(NUM_OF_FRAMES - s) :
              s..(s + k - 1) \subseteq FreeSet => k <= H!Room(s)
<1> DEFINE T == {k \in 0..(NUM_OF_FRAMES - s) : s..(s + k - 1) \subseteq FreeSet}
<1>1. H!Room(s) = CHOOSE x \in T : \A y \in T : x >= y
  BY FreeFramesAre DEF H!Room, H!Max
<1>2. NUM_OF_FRAMES - s \in Nat /\ s \in Nat
  BY FrameAssumption DEF Frames
<1>3. 0 \in T
  BY <1>2
<1>4. \E m \in T : \A k \in T : k <= m
  BY <1>2, <1>3, Greatest
<1>5. \E m \in T : \A k \in T : m >= k
  <2>1. T \subseteq Int
    BY <1>2
  <2> HIDE DEF T
  <2> QED
    BY <1>4, <2>1
<1>6. H!Room(s) \in T /\ \A y \in T : H!Room(s) >= y
  BY <1>1, <1>5
<1> QED
  BY <1>2, <1>6

(* The region that my_malloc found is the worst fit of Heap.               *)
LEMMA WorstFitIs ==
  ASSUME Layout, NEW s, NEW m, BestFit(FreeSet, s, m)
  PROVE  H!WorstFit = s /\ H!Room(s) = m
<1>0. /\ s \in Frames /\ m \in Nat \ {0} /\ s + m <= NUM_OF_FRAMES /\ s \in Nat
      /\ s..(s + m - 1) \subseteq FreeSet /\ NUM_OF_FRAMES \in Nat
  BY FrameAssumption DEF BestFit, Frames
<1>1. ASSUME NEW u \in Frames, H!Room(u) # 0
      PROVE  H!Room(u) < m \/ (H!Room(u) = m /\ u >= s)
  <2>1. H!Room(u) \in 1..(NUM_OF_FRAMES - u)
    BY <1>0, <1>1, RoomIs, PointersAre
  <2>2. Beaten(u, H!Room(u), m, s)
    BY <2>1, RoomIs DEF BestFit
  <2> QED
    BY <2>2 DEF Beaten
<1>2. H!Room(s) >= m
  BY <1>0, RoomIs
<1>3. H!Room(s) = m
  BY <1>0, <1>1, <1>2, RoomIs
<1>4. \A u \in Frames : H!Room(u) <= H!Room(s)
  <2> SUFFICES ASSUME NEW u \in Frames PROVE H!Room(u) <= m
    BY <1>3
  <2>1. H!Room(u) \in Int
    BY <1>0, RoomIs, PointersAre
  <2> QED
    BY <1>0, <1>1, <2>1
<1> DEFINE S == {v \in Frames : \A u \in Frames : H!Room(u) <= H!Room(v)}
<1>5. H!WorstFit = CHOOSE x \in S : \A y \in S : x =< y
  BY DEF H!WorstFit, H!Min, H!Frames, Frames
<1>6. s \in S
  BY <1>0, <1>4
<1>7. \A v \in S : s <= v
  <2> SUFFICES ASSUME NEW v \in S PROVE s <= v
    OBVIOUS
  <2>1. v \in Frames /\ H!Room(v) >= m /\ H!Room(v) \in Int /\ v \in Int
    BY <1>0, <1>3, RoomIs, PointersAre
  <2> QED
    BY <1>0, <1>1, <2>1
<1>8. \A v \in S : (\A y \in S : v <= y) => v = s
  <2>1. S \subseteq Int
    BY PointersAre
  <2> HIDE DEF S
  <2> QED
    BY <1>6, <1>7, <2>1
<1> HIDE DEF S
<1>9. H!WorstFit = s
  BY <1>5, <1>6, <1>7, <1>8
<1> QED
  BY <1>3, <1>9

(* Every step is a step of Heap or leaves its blocks alone.                *)
LEMMA StepIsHeap ==
  ASSUME NoWrap, FrameInv, NEW t \in Threads, Step(t), Layout'
  PROVE  H!Next \/ HeapBlocks' = HeapBlocks
<1>0. TypeOK /\ Layout /\ LayoutInv /\ Pending(t) /\ TableOK(FreeSet, Starts, Lengths)
  BY DEF FrameInv, LayoutInv, Layout
<1>1. HeapBlocks = {Block(i, Lengths[i]) : i \in Starts}
  BY <1>0, HeapBlocksAre
<1>2. HeapBlocks' = {Block(i, Lengths'[i]) : i \in Starts'}
  <2>1. Blocks' = Starts' 
    BY DEF Blocks, IsBlock, Starts, FreeSet, Layout, TableOK
  <2>2. \A i \in Blocks' : TOTAL_FLAGS'[i].num_of_frames = Lengths'[i]
    BY DEF Blocks, Lengths
  <2> QED
    BY <2>1, <2>2 DEF HeapBlocks, Block
<1>3. CASE TOTAL_FLAGS' = TOTAL_FLAGS
  BY <1>1, <1>2, <1>3, SameTable
<1>4. CASE Mark(t) /\ Reserves(call[t].got, CeilFrames(call[t].size))
  <2> DEFINE s == call[t].got
             n == CeilFrames(call[t].size)
  <2>1. PICK m \in Nat : BestFit(FreeSet, s, m) /\ n <= m
    BY <1>0, <1>4 DEF Mark, Pending, Fits
  <2>2. H!WorstFit = s /\ H!Room(s) = m
    BY <1>0, <2>1, WorstFitIs
  <2>3. /\ s \in Frames /\ n \in Nat \ {0}
        /\ s..(s + n - 1) \subseteq FreeSet
        /\ Starts' = Starts \cup {s}
        /\ Lengths' = [f \in Frames |-> IF f \in s..(s + n - 1) THEN n ELSE Lengths[f]]
    BY <1>4 DEF Reserves
  <2> HIDE DEF s, n
  <2>7. s \in s..(s + n - 1)
    BY <2>3, PointersAre
  <2>4. Lengths'[s] = n /\ \A i \in Starts : Lengths'[i] = Lengths[i]
    BY <1>0, <2>3, <2>7 DEF TableOK
  <2>5. HeapBlocks' = HeapBlocks \cup {Block(s, n)}
    BY <1>1, <1>2, <2>3, <2>4
  <2>6. n \in 1..H!Room(H!WorstFit)
    BY <2>1, <2>2, <2>3
  <2> QED
    BY <2>2, <2>5, <2>6 DEF H!Next, H!Alloc, Block, HeapBlocks
<1>5. CASE Release(t) /\ Releases(call[t].ptr)
  <2> DEFINE i == call[t].ptr
             R == Extent(i, Lengths)
             b == Block(i, Lengths[i])
  <2>1. /\ i \in Starts /\ Starts' = Starts \ {i} /\ Starts' = Starts \ R
        /\ Lengths' = [f \in Frames |-> IF f \in R THEN 0 ELSE Lengths[f]]
    BY <1>5 DEF Releases
  <2> HIDE DEF i, R
  <2>2. \A j \in Starts' : Lengths'[j] = Lengths[j]
    BY <1>0, <2>1 DEF TableOK
  <2>3. \A j \in Starts : b = Block(j, Lengths[j]) => j = i
    BY DEF Block
  <2>4. HeapBlocks' = HeapBlocks \ {b} /\ b \in HeapBlocks
    BY <1>1, <1>2, <2>1, <2>2, <2>3
  <2> QED
    BY <2>4 DEF H!Next, H!Free, HeapBlocks
<1>6. CASE Shrink(t) /\ Trims(call[t].ptr, CeilFrames(call[t].size))
  <2> DEFINE i == call[t].ptr
             n == CeilFrames(call[t].size)
             R == (i + n)..(i + Lengths[i] - 1)
             b == Block(i, Lengths[i])
  <2>1. /\ i \in Starts /\ n \in Nat \ {0} /\ n < Lengths[i]
        /\ Starts' = Starts /\ Starts' = Starts \ R
        /\ Lengths' = [f \in Frames |-> IF f = i THEN n ELSE IF f \in R THEN 0 ELSE Lengths[f]]
    BY <1>6 DEF Trims
  <2>0. i \in Frames /\ Lengths[i] \in Nat
    BY <1>0, <2>1, ExtentIs
  <2> HIDE DEF i, n, R
  <2>2. Lengths'[i] = n /\ \A j \in Starts \ {i} : Lengths'[j] = Lengths[j]
    BY <1>0, <2>0, <2>1 DEF TableOK
  <2>3. \A j \in Starts : b = Block(j, Lengths[j]) => j = i
    BY DEF Block
  <2>4. HeapBlocks' = (HeapBlocks \ {b}) \cup {Block(i, n)} /\ b \in HeapBlocks
    BY <1>1, <1>2, <2>1, <2>2, <2>3
  <2>5. Block(i, n) = [b EXCEPT !.frames = n] /\ b.frames = Lengths[i]
    BY DEF Block
  <2>6. n \in 1..(b.frames - 1)
    BY <2>0, <2>1, <2>5
  <2> HIDE DEF b
  <2> QED
    BY <2>4, <2>5, <2>6 DEF H!Next, H!Shrink, HeapBlocks
<1> QED
  BY <1>0, <1>3, <1>4, <1>5, <1>6, TableStep

(* The table implements Heap: blocks never overlap, each new one is the    *)
(* worst fit of the free frames at the moment it is marked (hw4.c:171),    *)
(* and blocks go whole or lose frames at their end.                        *)
THEOREM WorstFitHeap == ASSUME Serial, NoWrap PROVE Spec => IsHeap
<1>1. Init => H!Init
  <2> SUFFICES ASSUME Init PROVE HeapBlocks = {}
    BY DEF H!Init, HeapBlocks
  <2>1. \A f \in Frames : ~TOTAL_FLAGS[f].start_frame
    BY DEF Init, Cleared
  <2> QED
    BY <2>1 DEF HeapBlocks, Blocks, IsBlock
<1>2. FrameInv /\ FrameInv' /\ [Next]_vars => [H!Next]_HeapBlocks
  <2> SUFFICES ASSUME FrameInv, FrameInv', [Next]_vars
               PROVE  H!Next \/ HeapBlocks' = HeapBlocks
    OBVIOUS
  <2>1. CASE Next
    BY <2>1, StepIsHeap DEF Next, FrameInv, LayoutInv
  <2>2. CASE UNCHANGED vars
    BY <2>2 DEF vars, HeapBlocks, Blocks, IsBlock
  <2> QED
    BY <2>1, <2>2
<1>3. FrameInv /\ FrameInv' /\ [Next]_vars =>
        [H!Next]_{[start |-> i, frames |-> TOTAL_FLAGS[i].num_of_frames] : i \in Blocks}
  BY <1>2 DEF HeapBlocks
<1> QED
  BY <1>1, <1>3, FrameInvariance, PTL DEF Spec, IsHeap, H!Spec
=============================================================================
