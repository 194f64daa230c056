---------------------------- MODULE PacketQueue -----------------------------
(***************************************************************************)
(* What proj2/xt_cs421net.c promises the driver that uses it: a first-in   *)
(* first-out queue of packets.  The packet at the head is handed out once, *)
(* or given up when no interrupt can be raised for it, and only then freed.*)
(***************************************************************************)
EXTENDS Naturals, Sequences

VARIABLES
  queue,        (* packets not freed yet, oldest first                       *)
  arrived,      (* packets that ever arrived; they are numbered from 1       *)
  settled,      (* the packet at the head was handed out or given up         *)
  delivered,    (* packets handed out, in that order                         *)
  givenUp       (* packets freed without being handed out                    *)

vars == <<queue, arrived, settled, delivered, givenUp>>

Init ==
  /\ queue = <<>> /\ arrived = 0 /\ settled = FALSE
  /\ delivered = <<>> /\ givenUp = {}

Arrive ==
  /\ arrived' = arrived + 1
  /\ queue' = Append(queue, arrived')
  /\ UNCHANGED <<settled, delivered, givenUp>>

Deliver ==
  /\ queue # <<>> /\ ~settled
  /\ settled' = TRUE
  /\ delivered' = Append(delivered, Head(queue))
  /\ UNCHANGED <<queue, arrived, givenUp>>

GiveUp ==
  /\ queue # <<>> /\ ~settled
  /\ settled' = TRUE
  /\ givenUp' = givenUp \cup {Head(queue)}
  /\ UNCHANGED <<queue, arrived, delivered>>

Free ==
  /\ queue # <<>> /\ settled
  /\ settled' = FALSE
  /\ queue' = Tail(queue)
  /\ UNCHANGED <<arrived, delivered, givenUp>>

Next == Arrive \/ Deliver \/ GiveUp \/ Free

Spec == Init /\ [][Next]_vars

-----------------------------------------------------------------------------
Entries(s) == {s[i] : i \in 1..Len(s)}

TypeOK ==
  /\ queue \in Seq(Nat)
  /\ arrived \in Nat
  /\ settled \in BOOLEAN
  /\ delivered \in Seq(Nat)
  /\ givenUp \in SUBSET Nat

(* No packet is handed out twice. *)
DeliveredOnce ==
  \A i, j \in 1..Len(delivered) : i # j => delivered[i] # delivered[j]

(* A packet that left the queue was handed out or given up. *)
NothingLost ==
  1..arrived \subseteq Entries(queue) \cup Entries(delivered) \cup givenUp

(* Freed is the number of packets that left the queue: the queue holds the *)
(* packets after them, those handed out are among them, and the head is    *)
(* among those handed out or given up exactly when it is settled.          *)
Freed == arrived - Len(queue)

Numbered ==
  /\ Len(queue) <= arrived
  /\ \A i \in 1..Len(queue) : queue[i] = Freed + i
  /\ settled => queue # <<>>
  /\ \A i \in 1..Len(delivered) :
       delivered[i] <= IF settled THEN Freed + 1 ELSE Freed
  /\ 1..(IF settled THEN Freed + 1 ELSE Freed)
       \subseteq Entries(delivered) \cup givenUp
=============================================================================
