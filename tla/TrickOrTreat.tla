---------------------------- MODULE TrickOrTreat ----------------------------
(***************************************************************************)
(* The simulation of hw3/hw3.c: groups of children walk from house to      *)
(* house and take candy, a neighbourhood thread adds candy, and main       *)
(* prints what the groups have.  A semaphore per house guards its candy,   *)
(* but findClosestHouse and printStatus read without it, one house or one  *)
(* group at a time: those reads are steps, and the two writes that move    *)
(* candy from a house to a group are two, in the order of the code.        *)
(*                                                                         *)
(* The file has its lines: with fewer group lines than G, main would join  *)
(* threads that it never created and print groups that were never set.     *)
(***************************************************************************)
EXTENDS Integers, FiniteSets, FiniteSetsExt

CONSTANTS
  num_of_houses, G, T,
  Distance,             (* Manhattan distance of two houses                  *)
  StartingHouse, NumOfKids,
  InitialCandy,
  Refills,              (* inputs: house and candy of a refill line          *)
  MaxRefills            (* Bound: refill lines in the file                   *)

Houses == 0..(num_of_houses - 1)
Groups == 0..(G - 1)

ASSUME SizeAssumption == num_of_houses \in Nat /\ G \in Nat /\ T \in Int
ASSUME InputAssumption ==
  /\ Distance \in [Houses \X Houses -> Nat]
  /\ StartingHouse \in [Groups -> Houses] /\ NumOfKids \in [Groups -> Nat]
  /\ InitialCandy \in [Houses -> Nat]
  /\ Refills \subseteq [house : Houses, candy : Nat] /\ MaxRefills \in Nat

VARIABLES
  houseCandy, locks,            (* numOfCandy and semaphore of each house    *)
  groupCandy, currHouse,        (* numOfCandy and currHouse of each group    *)
  at, next, closest, inHand,    (* the thread of each group: where it is,    *)
                                (* the house it looks at next, the best so   *)
                                (* far, and the candy it read or moves       *)
  why,                          (* history: why the group chose that house,  *)
                                (* and whether another took candy there since*)
  end_simulation,
  neighborhood, refill, seen, refills,   (* the refilling thread             *)
  main, current_time, printed, total,    (* main and its printStatus         *)
  supplied, before              (* history: candy put into the houses, and   *)
                                (* what the groups had when printing began   *)

groupVars == <<groupCandy, currHouse, at, next, closest, inHand, why>>
nbVars    == <<neighborhood, refill, seen, refills, supplied>>
mainVars  == <<main, current_time, printed, total, before>>
houseVars == <<houseCandy, locks>>
vars == <<houseVars, groupVars, end_simulation, nbVars, mainVars>>

None == -1
NoRefill == [house |-> None, candy |-> 0]

TypeOK ==
  /\ houseCandy \in [Houses -> Nat] /\ locks \in [Houses -> Nat]
  /\ groupCandy \in [Groups -> Nat] /\ currHouse \in [Groups -> Houses]
  /\ at \in [Groups -> {"unborn", "loop", "look", "travel", "wait", "inside",
                        "took", "added", "done"}]
  /\ next \in [Groups -> 0..num_of_houses]
  /\ closest \in [Groups -> Houses \cup {None}]
  /\ inHand \in [Groups -> Nat]
  /\ why \in [Groups -> {"none", "first", "enough", "robbed"}]
  /\ end_simulation \in BOOLEAN
  /\ neighborhood \in {"unborn", "loop", "wait", "inside", "done"}
  /\ refill \in Refills \cup {NoRefill} /\ seen \in Nat /\ refills \in 0..MaxRefills
  /\ main \in {"spawn", "loop", "print", "join", "done"}
  /\ current_time \in Nat /\ printed \in 0..G /\ total \in Nat
  /\ supplied \in Nat /\ before \in Nat

Sum(f, S) == MapThenSumSet(LAMBDA i : f[i], S)

-----------------------------------------------------------------------------
(***************************************************************************)
(* A group: ChildGroupFunction and, inside it, findClosestHouse.           *)
(***************************************************************************)
Go(g, from, to) ==
  /\ at[g] = from
  /\ at' = [at EXCEPT ![g] = to]
  /\ UNCHANGED <<end_simulation, nbVars, mainVars>>

LoopTest(g) ==
  /\ Go(g, "loop", IF end_simulation THEN "done" ELSE "look")
  /\ next' = [next EXCEPT ![g] = 0] /\ closest' = [closest EXCEPT ![g] = None]
  /\ why' = [why EXCEPT ![g] = "none"]
  /\ UNCHANGED <<houseVars, groupCandy, currHouse, inHand>>

Away(g, h) == Distance[currHouse[g], h]
Candidate(g, h) == h # StartingHouse[g] /\ h # currHouse[g]

Looks(g, better) ==
  /\ next[g] \in Houses
  /\ Go(g, "look", "look")
  /\ IF Candidate(g, next[g]) /\ (closest[g] = None \/ better)
     THEN /\ closest' = [closest EXCEPT ![g] = next[g]]
          /\ why' = [why EXCEPT ![g] = IF closest[g] = None THEN "first" ELSE "enough"]
     ELSE UNCHANGED <<closest, why>>
  /\ next' = [next EXCEPT ![g] = @ + 1]
  /\ UNCHANGED <<houseVars, groupCandy, currHouse, inHand>>

EnoughAt(g, h) == houseCandy[h] >= NumOfKids[g]

(* Fault: a house that is nearer is better, whatever candy it has. *)
LookForNear(g) == Looks(g, Away(g, next[g]) < Away(g, closest[g]))

Look(g) == Looks(g, /\ EnoughAt(g, next[g])
                    /\ Away(g, next[g]) < Away(g, closest[g]))

(* With fewer than three houses closest may be -1, and the program exits.  *)
Decide(g) ==
  /\ next[g] = num_of_houses /\ closest[g] # None
  /\ Go(g, "look", "travel")
  /\ UNCHANGED <<houseVars, groupCandy, currHouse, next, closest, inHand, why>>

Arrive(g) ==
  /\ Go(g, "travel", "wait")
  /\ currHouse' = [currHouse EXCEPT ![g] = closest[g]]
  /\ UNCHANGED <<houseVars, groupCandy, next, closest, inHand, why>>

(* sem_wait, and the candy is read. *)
Enters(g, free) ==
  LET h == closest[g] IN
  /\ Go(g, "wait", "inside")
  /\ free /\ locks' = [locks EXCEPT ![h] = IF @ = 0 THEN 0 ELSE @ - 1]
  /\ inHand' = [inHand EXCEPT ![g] = houseCandy[h]]
  /\ UNCHANGED <<houseCandy, groupCandy, currHouse, next, closest, why>>

(* Fault: nobody waits at the door. *)
EnterAtOnce(g) == Enters(g, TRUE)

Enter(g) == Enters(g, locks[closest[g]] > 0)

(* The house that the group is at is left with so much candy. *)
LeavesCandy(g, rest) ==
  /\ houseCandy' = [houseCandy EXCEPT ![closest[g]] = rest]
  /\ why' = [f \in Groups |->
       IF f # g /\ closest[f] = closest[g] /\ why[f] = "enough" THEN "robbed" ELSE why[f]]
  /\ UNCHANGED groupCandy

AddsCandy(g) ==
  /\ groupCandy' = [groupCandy EXCEPT ![g] = @ + inHand[g]]
  /\ UNCHANGED <<houseCandy, why>>

(* There is enough: first the house is reduced. *)
Take(g) ==
  /\ Go(g, "inside", "took")
  /\ inHand[g] >= NumOfKids[g]
  /\ LeavesCandy(g, inHand[g] - NumOfKids[g])
  /\ inHand' = [inHand EXCEPT ![g] = NumOfKids[g]]
  /\ UNCHANGED <<locks, currHouse, next, closest>>

(* There is not: first the group gets what there is. *)
AddRest(g) ==
  /\ Go(g, "inside", "added")
  /\ inHand[g] < NumOfKids[g]
  /\ AddsCandy(g)
  /\ UNCHANGED <<locks, currHouse, next, closest, inHand>>

(* The other write, and sem_post. *)
Leaves(g, n) ==
  /\ \/ Go(g, "took", "loop") /\ AddsCandy(g)
     \/ Go(g, "added", "loop") /\ LeavesCandy(g, 0)
  /\ inHand' = [inHand EXCEPT ![g] = 0]
  /\ locks' = [locks EXCEPT ![closest[g]] = @ + n]
  /\ UNCHANGED <<currHouse, next, closest>>

(* Fault: one branch forgets sem_post. *)
LeaveLocked(g) == Leaves(g, IF at[g] = "took" THEN 1 ELSE 0)

Leave(g) == Leaves(g, 1)

-----------------------------------------------------------------------------
(***************************************************************************)
(* neighborhoodFunction.                                                   *)
(***************************************************************************)
NbGo(from, to) ==
  /\ neighborhood = from
  /\ neighborhood' = to
  /\ UNCHANGED <<groupVars, mainVars>>

NbStop ==
  /\ NbGo("loop", "done")
  /\ end_simulation
  /\ UNCHANGED <<houseVars, end_simulation, refill, seen, refills, supplied>>

NbRead ==
  /\ NbGo("loop", "wait")
  /\ ~end_simulation /\ refills < MaxRefills
  /\ refill' \in Refills
  /\ refills' = refills + 1
  /\ UNCHANGED <<houseVars, end_simulation, seen, supplied>>

NbEof ==
  /\ NbGo("loop", "done")
  /\ ~end_simulation
  /\ end_simulation' = TRUE
  /\ UNCHANGED <<houseVars, refill, seen, refills, supplied>>

NbEnter ==
  /\ NbGo("wait", "inside")
  /\ locks[refill.house] > 0
  /\ locks' = [locks EXCEPT ![refill.house] = @ - 1]
  /\ seen' = houseCandy[refill.house]
  /\ UNCHANGED <<houseCandy, end_simulation, refill, refills, supplied>>

NbAdd ==
  /\ NbGo("inside", "loop")
  /\ houseCandy' = [houseCandy EXCEPT ![refill.house] = seen + refill.candy]
  /\ locks' = [locks EXCEPT ![refill.house] = @ + 1]
  /\ supplied' = supplied + refill.candy
  /\ refill' = NoRefill /\ seen' = 0
  /\ UNCHANGED <<end_simulation, refills>>

-----------------------------------------------------------------------------
(***************************************************************************)
(* main: it spawns the groups while it reads the file, prints the status   *)
(* every second from 0 to T and once more, and joins the groups.           *)
(* sem_destroy does nothing in the C library, to the waiters or the count. *)
(***************************************************************************)
MainGo(from, to) ==
  /\ main = from
  /\ main' = to
  /\ UNCHANGED houseVars

SpawnGroup(g) ==
  /\ MainGo("spawn", "spawn")
  /\ at[g] = "unborn" /\ \A f \in Groups : f < g => at[f] # "unborn"
  /\ at' = [at EXCEPT ![g] = "loop"]
  /\ UNCHANGED <<groupCandy, currHouse, next, closest, inHand, why, end_simulation,
                 nbVars, current_time, printed, total, before>>

SpawnNeighborhood ==
  /\ MainGo("spawn", "loop")
  /\ \A g \in Groups : at[g] # "unborn"
  /\ neighborhood' = "loop"
  /\ UNCHANGED <<groupVars, end_simulation, refill, seen, refills, supplied,
                 current_time, printed, total, before>>

(* Fault: the total goes on from the last status. *)
PrintBeginNoReset ==
  /\ MainGo("loop", "print")
  /\ end_simulation' = (end_simulation \/ current_time > T)
  /\ printed' = 0 /\ UNCHANGED total
  /\ before' = Sum(groupCandy, Groups)
  /\ UNCHANGED <<groupVars, nbVars, current_time>>

PrintBegin ==
  /\ MainGo("loop", "print")
  /\ end_simulation' = (end_simulation \/ current_time > T)
  /\ printed' = 0 /\ total' = 0
  /\ before' = Sum(groupCandy, Groups)
  /\ UNCHANGED <<groupVars, nbVars, current_time>>

PrintGroup ==
  /\ MainGo("print", "print")
  /\ printed < G
  /\ printed' = printed + 1
  /\ total' = total + groupCandy[printed]
  /\ UNCHANGED <<groupVars, end_simulation, nbVars, current_time, before>>

PrintEnd ==
  /\ MainGo("print", IF current_time > T THEN "join" ELSE "loop")
  /\ printed = G
  /\ current_time' = current_time + 1
  /\ UNCHANGED <<groupVars, end_simulation, nbVars, printed, total, before>>

(* The process ends, and with it the neighbourhood thread, which nobody    *)
(* joins.                                                                  *)
Join ==
  /\ MainGo("join", "done")
  /\ \A g \in Groups : at[g] = "done"
  /\ UNCHANGED <<groupVars, end_simulation, nbVars, current_time, printed,
                 total, before>>

-----------------------------------------------------------------------------
Init ==
  /\ houseCandy = InitialCandy /\ locks = [h \in Houses |-> 1]
  /\ groupCandy = [g \in Groups |-> 0] /\ currHouse = StartingHouse
  /\ at = [g \in Groups |-> "unborn"]
  /\ next = [g \in Groups |-> 0] /\ closest = [g \in Groups |-> None]
  /\ inHand = [g \in Groups |-> 0] /\ why = [g \in Groups |-> "none"]
  /\ end_simulation = FALSE
  /\ neighborhood = "unborn" /\ refill = NoRefill /\ seen = 0 /\ refills = 0
  /\ main = "spawn" /\ current_time = 0 /\ printed = 0 /\ total = 0
  /\ supplied = Sum(InitialCandy, Houses) /\ before = 0

Group(g) == \/ LoopTest(g) \/ Look(g) \/ Decide(g) \/ Arrive(g)
            \/ Enter(g) \/ Take(g) \/ AddRest(g) \/ Leave(g)
Neighborhood == NbStop \/ NbRead \/ NbEof \/ NbEnter \/ NbAdd
Main == \/ \E g \in Groups : SpawnGroup(g)
        \/ SpawnNeighborhood \/ PrintBegin \/ PrintGroup \/ PrintEnd \/ Join

Next == main # "done" /\ ((\E g \in Groups : Group(g)) \/ Neighborhood \/ Main)

Spec == Init /\ [][Next]_vars

(* Threads run; a semaphore need not be fair. *)
FairSpec ==
  /\ Spec
  /\ \A g \in Groups : WF_vars(main # "done" /\ Group(g))
  /\ WF_vars(main # "done" /\ Neighborhood) /\ WF_vars(Main)

-----------------------------------------------------------------------------
(* Each door is held by one thread at most. *)
Within == {"inside", "took", "added"}
AtDoor(h) == Cardinality({g \in Groups : at[g] \in Within /\ closest[g] = h})
               + (IF neighborhood = "inside" /\ refill.house = h THEN 1 ELSE 0)
DoorsExclusive == \A h \in Houses : locks[h] + AtDoor(h) = 1

(* Candy that was taken from a house and not yet added to the group, and   *)
(* candy that was added to the group and not yet taken from the house.     *)
Taken == [g \in Groups |-> IF at[g] = "took" THEN inHand[g] ELSE 0]
Twice == [g \in Groups |-> IF at[g] = "added" THEN inHand[g] ELSE 0]

(* No candy appears or vanishes, although every change of it is a read and *)
(* two later writes, in one branch the house's first and in the other the  *)
(* group's: the semaphore of the house covers them all.  In between, what  *)
(* each group has in hand is exactly what is missing or counts twice.      *)
CandyConserved ==
  /\ TypeOK /\ DoorsExclusive
  /\ supplied + Sum(Twice, Groups)
       = Sum(houseCandy, Houses) + Sum(groupCandy, Groups) + Sum(Taken, Groups)

(* The "Total candy" that printStatus adds up from unlocked reads is one   *)
(* that the groups had at some moment while it printed, or lies between    *)
(* two such: no less than when it began and no more than at its end.       *)
TotalIsBetween ==
  main = "print" /\ printed = G
    => before <= total /\ total <= Sum(groupCandy, Groups)

(* A group that prefers a house to its first candidate has read, without   *)
(* the semaphore, that there is enough candy, and may find less when it    *)
(* has travelled there.  Only another group that took candy from that very *)
(* house in the meantime can be the reason: no refill, no unfinished move  *)
(* of candy that was read, and no other house.                             *)
ShortOnlyIfRobbed ==
  \A g \in Groups :
    at[g] = "inside" /\ inHand[g] < NumOfKids[g] => why[g] # "enough"

(* The program ends for all groups and for main.                           *)
AllReturn == <>(main = "done" /\ \A g \in Groups : at[g] = "done")
=============================================================================
