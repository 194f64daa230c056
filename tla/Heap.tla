-------------------------------- MODULE Heap --------------------------------
(***************************************************************************)
(* What the allocator of hw4/hw4.c promises its callers: blocks of frames  *)
(* that do not overlap, each new one at the lowest address of a largest    *)
(* free region (worst fit), released whole or from their end.              *)
(***************************************************************************)
EXTENDS Naturals, FiniteSetsExt

CONSTANT N     (* frames *)

VARIABLE blocks

Frames == 0..(N - 1)

Extent(b) == b.start..(b.start + b.frames - 1)

FreeFrames == Frames \ UNION {Extent(b) : b \in blocks}

(* Length of the free region that begins at a frame. *)
Room(s) == Max({k \in 0..(N - s) : s..(s + k - 1) \subseteq FreeFrames})

WorstFit == Min({s \in Frames : \A u \in Frames : Room(u) <= Room(s)})

Init == blocks = {}

Alloc ==
  \E n \in 1..Room(WorstFit) :
    blocks' = blocks \cup {[start |-> WorstFit, frames |-> n]}

Free == \E b \in blocks : blocks' = blocks \ {b}

Shrink ==
  \E b \in blocks : \E n \in 1..(b.frames - 1) :
    blocks' = (blocks \ {b}) \cup {[b EXCEPT !.frames = n]}

Next == Alloc \/ Free \/ Shrink

Spec == Init /\ [][Next]_blocks
=============================================================================
