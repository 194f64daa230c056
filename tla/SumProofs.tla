------------------------------ MODULE SumProofs ------------------------------
(***************************************************************************)
(* Theorems about the two systems whose properties are sums: the candy of  *)
(* hw3/hw3.c, for any number of houses and groups, any map and any file of *)
(* refills; and the score of a guess, for any number of colours.           *)
(***************************************************************************)
EXTENDS TrickOrTreat, Scores, FiniteSetTheorems, WellFoundedInduction, TLAPS

(***************************************************************************)
(* Sums over a finite set: how one changes when one of its terms does.     *)
(***************************************************************************)

(* A nonempty set of naturals has a least element.                         *)
LEMMA Least ==
  ASSUME NEW Ns \in SUBSET Nat, Ns # {}
  PROVE  \E m \in Ns : \A k \in Ns : m <= k
<1> DEFINE R == StrictSubsetOrdering(Nat)
           S == {0..n : n \in Ns}
<1>1. S \subseteq FiniteSubsetsOf(Nat)
  <2> SUFFICES ASSUME NEW n \in Ns PROVE 0..n \in FiniteSubsetsOf(Nat)
    OBVIOUS
  <2>1. IsFiniteSet(0..n)
    BY FS_Interval
  <2> QED
    BY <2>1 DEF FiniteSubsetsOf
<1>2. PICK X \in S : \A Y \in S : <<Y, X>> \notin R
  <2>1. IsWellFoundedOn(R, FiniteSubsetsOf(Nat))
    BY FS_StrictSubsetOrderingWellFounded
  <2>2. S # {}
    OBVIOUS
  <2> HIDE DEF R, S
  <2> QED
    BY <1>1, <2>1, <2>2, WFMin
<1>3. PICK m \in Ns : X = 0..m
  BY <1>2
<1>4. ASSUME NEW k \in Ns, k < m PROVE FALSE
  <2>1. 0..k \in S
    OBVIOUS
  <2>2. 0..k \subseteq 0..m /\ 0..k # 0..m /\ 0..k \in SUBSET Nat /\ 0..m \in SUBSET Nat
    BY <1>4
  <2>3. <<0..k, 0..m>> \in R
    BY <2>2 DEF StrictSubsetOrdering
  <2> QED
    BY <1>2, <1>3, <2>1, <2>3
<1> QED
  BY <1>4

(* A nonempty set of subsets of a finite set has a minimal one.            *)
LEMMA Minimal ==
  ASSUME NEW S, IsFiniteSet(S), NEW B \in SUBSET SUBSET S, B # {}
  PROVE  \E s \in B : \A r \in B : r \subseteq s => r = s
<1> DEFINE R == StrictSubsetOrdering(S)
<1>1. B \subseteq FiniteSubsetsOf(S)
  BY FS_Subset DEF FiniteSubsetsOf
<1>2. IsWellFoundedOn(R, FiniteSubsetsOf(S))
  BY FS_StrictSubsetOrderingWellFounded
<1>3. PICK s \in B : \A r \in B : <<r, s>> \notin R
  <2> HIDE DEF R
  <2> QED
    BY <1>1, <1>2, WFMin
<1>4. \A r \in B : r \subseteq s => r = s
  BY <1>3 DEF StrictSubsetOrdering
<1> QED
  BY <1>4

Some(s) == CHOOSE x \in s : TRUE

LEMMA SomeRemoved ==
  ASSUME NEW s, IsFiniteSet(s), s # {}
  PROVE  /\ Some(s) \in s /\ Cardinality(s) \in Nat /\ Cardinality(s) # 0
         /\ IsFiniteSet(s \ {Some(s)})
         /\ Cardinality(s \ {Some(s)}) = Cardinality(s) - 1
<1>1. Some(s) \in s
  BY DEF Some
<1>2. Cardinality(s) \in Nat /\ Cardinality(s) # 0
  BY FS_CardinalityType, FS_EmptySet
<1> QED
  BY <1>1, <1>2, FS_RemoveElement

(* g adds up f over the subsets of S with at most n elements.              *)
Small(S, n) == {s \in SUBSET S : Cardinality(s) <= n}
SumsTo(g, f, S, n) ==
  g = [s \in Small(S, n) |-> IF s = {} THEN 0 ELSE f[Some(s)] + g[s \ {Some(s)}]]
Sums(g, f, S) ==
  g = [s \in SUBSET S |-> IF s = {} THEN 0 ELSE f[Some(s)] + g[s \ {Some(s)}]]

LEMMA SumsExist ==
  ASSUME NEW f, NEW S, IsFiniteSet(S)
  PROVE  \E g : Sums(g, f, S)
<1> DEFINE Bad == {n \in Nat : ~ \E g : SumsTo(g, f, S, n)}
<1>1. \A s \in SUBSET S : /\ IsFiniteSet(s) /\ Cardinality(s) \in Nat
                          /\ Cardinality(s) <= Cardinality(S)
  BY FS_Subset, FS_CardinalityType
<1>2. Bad = {}
  <2> SUFFICES ASSUME Bad # {} PROVE FALSE
    OBVIOUS
  <2>1. PICK m \in Bad : \A k \in Bad : m <= k
    BY Least
  <2>2. m # 0
    <3> SUFFICES ASSUME m = 0 PROVE FALSE
      OBVIOUS
    <3> DEFINE g == [s \in Small(S, 0) |-> 0]
    <3>1. \A s \in Small(S, 0) : s = {}
      BY <1>1, FS_EmptySet DEF Small
    <3>2. SumsTo(g, f, S, 0)
      BY <3>1 DEF SumsTo
    <3> QED
      BY <2>1, <3>2
  <2>3. PICK g : SumsTo(g, f, S, m - 1)
    BY <2>1, <2>2
  <2> DEFINE Term(s, p) == IF s = {} THEN 0 ELSE f[Some(s)] + p[s \ {Some(s)}]
             h == [s \in Small(S, m) |-> Term(s, g)]
  <2>4. \A s \in Small(S, m) : s # {} => s \ {Some(s)} \in Small(S, m - 1)
    BY <1>1, <2>1, SomeRemoved DEF Small
  <2>5. \A s \in Small(S, m - 1) : s \in Small(S, m) /\ g[s] = Term(s, g)
    <3>1. \A s \in Small(S, m - 1) : s \in Small(S, m)
      BY <1>1, <2>1 DEF Small
    <3>2. \A s \in Small(S, m - 1) : g[s] = Term(s, g)
      BY <2>3 DEF SumsTo
    <3> QED
      BY <3>1, <3>2
  <2>6. \A s \in Small(S, m - 1) : h[s] = g[s]
    BY <2>5
  <2>7. \A s \in Small(S, m) : Term(s, g) = Term(s, h)
    BY <2>4, <2>6
  <2>8. h = [s \in Small(S, m) |-> Term(s, h)]
    BY <2>7
  <2>9. SumsTo(h, f, S, m)
    BY <2>8 DEF SumsTo
  <2> QED
    BY <2>1, <2>9
<1>3. PICK g : SumsTo(g, f, S, Cardinality(S))
  BY <1>1, <1>2
<1>4. Small(S, Cardinality(S)) = SUBSET S
  BY <1>1 DEF Small
<1> QED
  BY <1>3, <1>4 DEF SumsTo, Sums

LEMMA SumIs ==
  ASSUME NEW f, NEW S, IsFiniteSet(S)
  PROVE  \E g : Sums(g, f, S) /\ Sum(f, S) = g[S]
<1>1. Sum(f, S) = (CHOOSE g : Sums(g, f, S))[S]
  BY DEF Sum, MapThenSumSet, MapThenFoldSet, Sums, Some
<1> QED
  BY <1>1, SumsExist

NatTerms(f, S) == \A i \in S : f[i] \in Nat
SameBut(f1, f2, x, S) == \A i \in S \ {x} : f2[i] = f1[i]

(* Two functions that differ at x at most: so do their sums over every     *)
(* set, from the empty one up.                                             *)
LEMMA SumsDiffer ==
  ASSUME NEW f1, NEW f2, NEW x, NEW S, IsFiniteSet(S),
         NatTerms(f1, S), NatTerms(f2, S), SameBut(f1, f2, x, S),
         NEW g1, Sums(g1, f1, S), NEW g2, Sums(g2, f2, S)
  PROVE  \A s \in SUBSET S :
           /\ g1[s] \in Nat /\ g2[s] \in Nat
           /\ g2[s] = g1[s] + (IF x \in s THEN f2[x] - f1[x] ELSE 0)
<1> DEFINE Good(s) ==
      /\ g1[s] \in Nat /\ g2[s] \in Nat
      /\ g2[s] = g1[s] + (IF x \in s THEN f2[x] - f1[x] ELSE 0)
           Bad == {s \in SUBSET S : ~Good(s)}
<1> USE DEF NatTerms, SameBut
<1> SUFFICES ASSUME Bad # {} PROVE FALSE
  OBVIOUS
<1>1. PICK s \in Bad : \A r \in Bad : r \subseteq s => r = s
  <2>1. Bad \in SUBSET SUBSET S
    OBVIOUS
  <2> HIDE DEF Bad
  <2> QED
    BY <2>1, Minimal
<1>2. s # {}
  BY DEF Sums
<1> DEFINE y == Some(s)
           r == s \ {y}
<1>3. y \in s /\ r \in SUBSET S /\ r \notin Bad
  <2>1. IsFiniteSet(s)
    BY FS_Subset
  <2>2. y \in s
    BY <1>2, <2>1, SomeRemoved
  <2> QED
    BY <1>1, <2>2
<1>4. g1[s] = f1[y] + g1[r] /\ g2[s] = f2[y] + g2[r]
  BY <1>2 DEF Sums
<1>5. Good(r)
  BY <1>3
<1>6. f1[y] \in Nat /\ f2[y] \in Nat /\ (y # x => f2[y] = f1[y])
  BY <1>3
<1>7. x \in s => f1[x] \in Nat /\ f2[x] \in Nat
  OBVIOUS
<1>8. x \in s <=> y = x \/ x \in r
  BY <1>3
<1>9. y = x => x \notin r
  OBVIOUS
<1> HIDE DEF y, r
<1>10. Good(s)
  BY <1>4, <1>5, <1>6, <1>7, <1>8, <1>9
<1> QED
  BY <1>10

LEMMA SumAt ==
  ASSUME NEW f1, NEW f2, NEW S, NEW x \in S, IsFiniteSet(S),
         NatTerms(f1, S), NatTerms(f2, S), SameBut(f1, f2, x, S)
  PROVE  /\ Sum(f1, S) \in Nat /\ Sum(f2, S) \in Nat
         /\ Sum(f2, S) = Sum(f1, S) + f2[x] - f1[x]
<1>1. PICK g1 : Sums(g1, f1, S) /\ Sum(f1, S) = g1[S]
  BY SumIs
<1>2. PICK g2 : Sums(g2, f2, S) /\ Sum(f2, S) = g2[S]
  BY SumIs
<1>3. \A s \in SUBSET S :
        /\ g1[s] \in Nat /\ g2[s] \in Nat
        /\ g2[s] = g1[s] + (IF x \in s THEN f2[x] - f1[x] ELSE 0)
  BY <1>1, <1>2, SumsDiffer
<1>4. /\ g1[S] \in Nat /\ g2[S] \in Nat
      /\ g2[S] = g1[S] + (f2[x] - f1[x])
  BY <1>3
<1>5. f1[x] \in Nat /\ f2[x] \in Nat
  BY DEF NatTerms
<1> QED
  BY <1>1, <1>2, <1>4, <1>5

LEMMA SumZero ==
  ASSUME NEW f, NEW S, IsFiniteSet(S), \A i \in S : f[i] = 0
  PROVE  Sum(f, S) = 0
<1>1. PICK g : Sums(g, f, S) /\ Sum(f, S) = g[S]
  BY SumIs
<1> DEFINE Bad == {s \in SUBSET S : g[s] # 0}
<1> SUFFICES ASSUME Bad # {} PROVE FALSE
  BY <1>1
<1>2. PICK s \in Bad : \A r \in Bad : r \subseteq s => r = s
  <2>1. Bad \in SUBSET SUBSET S
    OBVIOUS
  <2> HIDE DEF Bad
  <2> QED
    BY <2>1, Minimal
<1>3. s # {}
  BY <1>1 DEF Sums
<1>4. Some(s) \in s /\ s \ {Some(s)} \in SUBSET S /\ s \ {Some(s)} \notin Bad
  <2>1. IsFiniteSet(s)
    BY FS_Subset
  <2>2. Some(s) \in s
    BY <1>3, <2>1, SomeRemoved
  <2> QED
    BY <1>2, <2>2
<1>5. g[s] = f[Some(s)] + g[s \ {Some(s)}]
  BY <1>1, <1>3 DEF Sums
<1> QED
  BY <1>4, <1>5

LEMMA SumType ==
  ASSUME NEW f, NEW S, IsFiniteSet(S), NatTerms(f, S)
  PROVE  Sum(f, S) \in Nat
<1>1. CASE S = {}
  BY <1>1, SumZero
<1>2. ASSUME NEW x \in S PROVE Sum(f, S) \in Nat
  BY SumAt DEF SameBut
<1> QED
  BY <1>1, <1>2

-----------------------------------------------------------------------------
(***************************************************************************)
(* The invariants.                                                         *)
(***************************************************************************)

Goes(g) == at[g] \in {"travel", "wait"} \cup Within => closest[g] \in Houses

GoesInv == \A g \in Groups : Goes(g)

(* A house that was chosen for its candy, and from which no other group    *)
(* has taken any since, still has it.                                      *)
Trusts(g) ==
  why[g] = "enough" =>
    /\ at[g] \in {"look", "travel", "wait"}
         => closest[g] \in Houses /\ houseCandy[closest[g]] >= NumOfKids[g]
    /\ at[g] = "inside" => inHand[g] >= NumOfKids[g]

TrustInv == \A g \in Groups : Trusts(g)

(* Whoever is inside has read what there still is.                         *)
DoorInv ==
  /\ DoorsExclusive
  /\ \A g \in Groups : at[g] \in {"inside", "added"} => inHand[g] = houseCandy[closest[g]]
  /\ neighborhood = "inside" => seen = houseCandy[refill.house]
  /\ neighborhood \in {"wait", "inside"} => refill \in Refills
  /\ main = "spawn" => neighborhood = "unborn"

CandyInv ==
  supplied + Sum(Twice, Groups)
    = Sum(houseCandy, Houses) + Sum(groupCandy, Groups) + Sum(Taken, Groups)

(* The groups that printStatus has not yet read have the rest of what they *)
(* had, and those that it has read have no less than it read.              *)
Unread == [g \in Groups |-> IF g < printed THEN 0 ELSE groupCandy[g]]
Read   == [g \in Groups |-> IF g < printed THEN groupCandy[g] ELSE 0]
TotalInv ==
  main = "print" => before <= total + Sum(Unread, Groups) /\ total <= Sum(Read, Groups)

IInv == TypeOK /\ GoesInv /\ DoorInv /\ TrustInv /\ CandyInv /\ TotalInv

LEMMA Sizes ==
  /\ IsFiniteSet(Groups) /\ Groups \subseteq Nat
  /\ IsFiniteSet(Houses) /\ Houses \subseteq Nat /\ num_of_houses \in Nat /\ G \in Nat
<1>1. 0 \in Int /\ G - 1 \in Int /\ num_of_houses - 1 \in Int
  BY SizeAssumption
<1> QED
  BY <1>1, FS_Interval, SizeAssumption DEF Groups, Houses

(***************************************************************************)
(* Types.                                                                  *)
(***************************************************************************)
LEMMA TypeStep == TypeOK /\ GoesInv /\ DoorInv /\ [Next]_vars => TypeOK'
<1> SUFFICES ASSUME TypeOK, GoesInv, DoorInv, [Next]_vars PROVE TypeOK'
  OBVIOUS
<1> USE DEF TypeOK
<1>1. ASSUME NEW g \in Groups, LoopTest(g) PROVE TypeOK'
  BY <1>1, Sizes DEF LoopTest, Go, nbVars, mainVars, houseVars
<1>2. ASSUME NEW g \in Groups, Look(g) PROVE TypeOK'
  <2>1. next[g] \in Houses
    BY <1>2 DEF Look, Looks
  <2>2. next[g] + 1 \in 0..num_of_houses
    BY <2>1, SizeAssumption DEF Houses
  <2> QED
    BY <1>2, <2>1, <2>2 DEF Look, Looks, Go, nbVars, mainVars, houseVars
<1>3. ASSUME NEW g \in Groups, Decide(g) PROVE TypeOK'
  BY <1>3 DEF Decide, Go, nbVars, mainVars, houseVars
<1>4. ASSUME NEW g \in Groups, Arrive(g) PROVE TypeOK'
  <2>1. closest[g] \in Houses
    BY <1>4 DEF Arrive, Go, GoesInv, Goes
  <2> QED
    BY <1>4, <2>1 DEF Arrive, Go, nbVars, mainVars, houseVars
<1>5. ASSUME NEW g \in Groups, Enter(g) PROVE TypeOK'
  <2>1. closest[g] \in Houses
    BY <1>5 DEF Enter, Enters, Go, GoesInv, Goes
  <2> QED
    BY <1>5, <2>1 DEF Enter, Enters, Go, nbVars, mainVars
<1>6. ASSUME NEW g \in Groups, Take(g) PROVE TypeOK'
  <2>1. inHand[g] - NumOfKids[g] \in Nat /\ NumOfKids[g] \in Nat
    <3>1. inHand[g] \in Nat /\ NumOfKids[g] \in Nat
      BY ONLY InputAssumption, inHand \in [Groups -> Nat], g \in Groups
    <3>2. inHand[g] >= NumOfKids[g]
      BY <1>6 DEF Take
    <3> QED
      BY ONLY <3>1, <3>2
  <2>2. closest[g] \in Houses
    BY <1>6 DEF Take, Go, GoesInv, Goes, Within
  <2>3. why' \in [Groups -> {"none", "first", "enough", "robbed"}]
    BY <1>6 DEF Take, LeavesCandy
  <2> QED
    BY <1>6, <2>1, <2>2, <2>3 DEF Take, LeavesCandy, Go, nbVars, mainVars
<1>7. ASSUME NEW g \in Groups, AddRest(g) PROVE TypeOK'
  BY <1>7 DEF AddRest, AddsCandy, Go, nbVars, mainVars
<1>18. ASSUME NEW g \in Groups, Leave(g) PROVE TypeOK'
  <2>1. closest[g] \in Houses
    BY <1>18 DEF Leave, Leaves, Go, GoesInv, Goes, Within
  <2>2. CASE Go(g, "took", "loop") /\ AddsCandy(g)
    BY <1>18, <2>1, <2>2 DEF Leave, Leaves, AddsCandy, Go, nbVars, mainVars
  <2>3. CASE Go(g, "added", "loop") /\ LeavesCandy(g, 0)
    <3>1. why' \in [Groups -> {"none", "first", "enough", "robbed"}]
      BY <2>3 DEF LeavesCandy
    <3> QED
      BY <1>18, <2>1, <2>3, <3>1 DEF Leave, Leaves, LeavesCandy, Go, nbVars, mainVars
  <2> QED
    BY <1>18, <2>2, <2>3 DEF Leave, Leaves
<1>8. CASE NbStop \/ NbEof
  BY <1>8 DEF NbStop, NbEof, NbGo, groupVars, mainVars, houseVars
<1>9. CASE NbRead
  <2>1. refills + 1 \in 0..MaxRefills
    BY <1>9, InputAssumption DEF NbRead
  <2> QED
    BY <1>9, <2>1 DEF NbRead, NbGo, groupVars, mainVars, houseVars
<1>10. CASE NbEnter
  <2>1. refill \in Refills /\ refill.house \in Houses
    BY <1>10, InputAssumption DEF NbEnter, NbGo, DoorInv
  <2> QED
    BY <1>10, <2>1 DEF NbEnter, NbGo, groupVars, mainVars
<1>11. CASE NbAdd
  <2>1. refill.house \in Houses /\ refill.candy \in Nat
    BY <1>11, InputAssumption DEF NbAdd, NbGo, DoorInv
  <2> QED
    BY <1>11, <2>1 DEF NbAdd, NbGo, groupVars, mainVars
<1>12. ASSUME NEW g \in Groups, SpawnGroup(g) PROVE TypeOK'
  BY <1>12 DEF SpawnGroup, MainGo, nbVars, houseVars
<1>13. CASE SpawnNeighborhood
  BY <1>13 DEF SpawnNeighborhood, MainGo, groupVars, houseVars
<1>14. CASE PrintBegin
  <2>1. before' \in Nat
    BY <1>14, Sizes, SumType DEF PrintBegin, NatTerms
  <2>2. end_simulation' \in BOOLEAN
    BY <1>14 DEF PrintBegin
  <2> QED
    BY <1>14, <2>1, <2>2, Sizes DEF PrintBegin, MainGo, groupVars, nbVars, houseVars
<1>15. CASE PrintGroup
  <2>1. printed \in Groups
    BY <1>15, Sizes DEF PrintGroup, Groups
  <2> QED
    BY <1>15, <2>1, Sizes DEF PrintGroup, MainGo, groupVars, nbVars, houseVars
<1>16. CASE PrintEnd \/ Join
  BY <1>16 DEF PrintEnd, Join, MainGo, groupVars, nbVars, houseVars
<1>17. CASE UNCHANGED vars
  BY <1>17 DEF vars, groupVars, nbVars, mainVars, houseVars
<1> QED
  BY <1>1, <1>2, <1>3, <1>4, <1>5, <1>6, <1>7, <1>8, <1>9, <1>10, <1>11, <1>12, <1>13,
     <1>14, <1>15, <1>16, <1>17, <1>18 DEF Next, Group, Neighborhood, Main

(* A group that goes somewhere goes to a house.                            *)
LEMMA GoesStep == TypeOK /\ GoesInv /\ [Next]_vars => GoesInv'
<1> SUFFICES ASSUME TypeOK, GoesInv, [Next]_vars PROVE GoesInv'
  OBVIOUS
<1>1. CASE UNCHANGED <<at, closest>>
  BY <1>1 DEF GoesInv, Goes
<1>2. ASSUME NEW g \in Groups, Group(g) PROVE GoesInv'
  <2>1. ASSUME NEW f \in Groups, f # g PROVE Goes(f)'
    <3>1. at'[f] = at[f] /\ closest'[f] = closest[f]
      BY <1>2, <2>1 DEF TypeOK, Group, LoopTest, Look, Looks, Decide, Arrive, Enter, Enters,
                        Take, AddRest, Leave, Leaves, Go
    <3> QED
      BY <3>1 DEF GoesInv, Goes
  <2>2. CASE LoopTest(g) \/ Look(g) \/ Leave(g)
    <3>1. at'[g] \in {"done", "look", "loop"}
      BY <2>2 DEF LoopTest, Look, Looks, Leave, Leaves, Go, TypeOK
    <3> QED
      BY <2>1, <3>1 DEF GoesInv, Goes, Within
  <2>3. CASE Decide(g)
    <3>1. UNCHANGED closest /\ closest[g] \in Houses
      BY <2>3 DEF Decide, TypeOK
    <3> QED
      BY <2>1, <3>1 DEF GoesInv, Goes
  <2>4. CASE Arrive(g) \/ Enter(g) \/ Take(g) \/ AddRest(g)
    <3>1. at[g] \in {"travel", "wait"} \cup Within /\ UNCHANGED closest
      BY <2>4 DEF Arrive, Enter, Enters, Take, AddRest, Go, Within
    <3>2. closest[g] \in Houses
      BY <3>1 DEF GoesInv, Goes
    <3> QED
      BY <2>1, <3>1, <3>2 DEF GoesInv, Goes
  <2> QED
    BY <1>2, <2>2, <2>3, <2>4 DEF Group
<1>3. ASSUME NEW g \in Groups, SpawnGroup(g) PROVE GoesInv'
  <2>1. at' = [at EXCEPT ![g] = "loop"] /\ UNCHANGED closest
    BY <1>3 DEF SpawnGroup
  <2> QED
    BY <2>1 DEF GoesInv, Goes, Within, TypeOK
<1>4. CASE Neighborhood \/ SpawnNeighborhood \/ PrintBegin \/ PrintGroup \/ PrintEnd \/ Join
           \/ UNCHANGED vars
  BY <1>1, <1>4 DEF Neighborhood, NbStop, NbRead, NbEof, NbEnter, NbAdd, NbGo,
                    SpawnNeighborhood, PrintBegin, PrintGroup, PrintEnd, Join, groupVars, vars
<1> QED
  BY <1>2, <1>3, <1>4 DEF Next, Main

(***************************************************************************)
(* The doors: with the semaphore, a house has one thread inside at most,   *)
(* so what that thread has read of the candy is still true.                *)
(***************************************************************************)
Holders(h) == {g \in Groups : at[g] \in Within /\ closest[g] = h}
Refiller(h) == IF neighborhood = "inside" /\ refill.house = h THEN 1 ELSE 0

LEMMA DoorCount ==
  /\ \A h : AtDoor(h) = Cardinality(Holders(h)) + Refiller(h)
  /\ \A h : AtDoor(h)' = Cardinality(Holders(h)') + Refiller(h)'
  /\ \A h : IsFiniteSet(Holders(h)) /\ Cardinality(Holders(h)) \in Nat
  /\ \A h : Refiller(h) \in Nat /\ Refiller(h)' \in Nat
<1>1. \A h : IsFiniteSet(Holders(h))
  <2> SUFFICES ASSUME NEW h PROVE IsFiniteSet(Holders(h))
    OBVIOUS
  <2>1. Holders(h) \subseteq Groups
    BY DEF Holders
  <2> QED
    BY <2>1, Sizes, FS_Subset
<1> QED
  BY <1>1, FS_CardinalityType DEF AtDoor, Holders, Refiller

(* Who is inside is there alone.                                           *)
LEMMA Alone ==
  ASSUME TypeOK, DoorsExclusive, NEW h \in Houses, NEW g \in Holders(h)
  PROVE  /\ Holders(h) = {g} /\ Cardinality(Holders(h)) = 1 /\ Refiller(h) = 0
         /\ locks[h] = 0
<1>1. Cardinality(Holders(h)) # 0
  BY DoorCount, FS_EmptySet
<1>2. locks[h] \in Nat /\ locks[h] + (Cardinality(Holders(h)) + Refiller(h)) = 1
  BY DoorCount DEF TypeOK, DoorsExclusive
<1>3. Cardinality(Holders(h)) = 1 /\ Refiller(h) = 0 /\ locks[h] = 0
  BY <1>1, <1>2, DoorCount
<1>4. \E x : Holders(h) = {x}
  BY <1>3, DoorCount, FS_Singleton
<1> QED
  BY <1>3, <1>4

LEMMA RefillerAlone ==
  ASSUME TypeOK, DoorsExclusive, NEW h \in Houses, Refiller(h) = 1
  PROVE  Holders(h) = {} /\ Cardinality(Holders(h)) = 0 /\ locks[h] = 0
<1>1. locks[h] \in Nat /\ locks[h] + (Cardinality(Holders(h)) + Refiller(h)) = 1
  BY DoorCount DEF TypeOK, DoorsExclusive
<1>2. Cardinality(Holders(h)) = 0 /\ locks[h] = 0
  BY <1>1, DoorCount
<1> QED
  BY <1>2, DoorCount, FS_EmptySet

(* Nobody enters or leaves a house.                                        *)
LEMMA DoorsSame ==
  ASSUME DoorsExclusive, UNCHANGED locks, \A h \in Houses : Holders(h)' = Holders(h),
         \A h \in Houses : Refiller(h)' = Refiller(h)
  PROVE  DoorsExclusive'
  BY DoorCount DEF DoorsExclusive

(* The conjuncts of DoorInv that are about reads.                          *)
ReadsTrue ==
  /\ \A g \in Groups : at[g] \in {"inside", "added"} => inHand[g] = houseCandy[closest[g]]
  /\ neighborhood = "inside" => seen = houseCandy[refill.house]

Bounds == /\ neighborhood \in {"wait", "inside"} => refill \in Refills
          /\ main = "spawn" => neighborhood = "unborn"

LEMMA DoorGroupStep ==
  ASSUME TypeOK, GoesInv, DoorInv, NEW g \in Groups, Group(g)
  PROVE  DoorInv'
<1>1. UNCHANGED <<neighborhood, refill, seen, main>>
  BY DEF Group, LoopTest, Look, Looks, Decide, Arrive, Enter, Enters, Take, AddRest, Leave,
         Leaves, Go, nbVars, mainVars
<1>2. Bounds' /\ \A h \in Houses : Refiller(h)' = Refiller(h)
  BY <1>1 DEF DoorInv, Bounds, Refiller
<1> SUFFICES DoorsExclusive' /\ ReadsTrue'
  BY <1>2 DEF DoorInv, ReadsTrue, Bounds
<1>3. CASE LoopTest(g) \/ Look(g)
  <2>1. /\ UNCHANGED <<houseCandy, locks, inHand>>
        /\ at[g] \notin Within /\ at'[g] \notin Within
        /\ \A f \in Groups \ {g} : at'[f] = at[f] /\ closest'[f] = closest[f]
    BY <1>3 DEF LoopTest, Look, Looks, Go, houseVars, TypeOK, Within
  <2>2. \A h \in Houses : Holders(h)' = Holders(h)
    BY <2>1 DEF Holders
  <2>3. DoorsExclusive'
    BY <1>2, <2>1, <2>2, DoorsSame DEF DoorInv
  <2>4. ReadsTrue'
    BY <1>1, <2>1 DEF ReadsTrue, DoorInv, Within
  <2> QED
    BY <2>3, <2>4
<1>4. CASE Decide(g) \/ Arrive(g)
  <2>1. /\ UNCHANGED <<houseCandy, locks, inHand, closest>>
        /\ at[g] \notin Within /\ at'[g] \notin Within
        /\ \A f \in Groups \ {g} : at'[f] = at[f]
    BY <1>4 DEF Decide, Arrive, Go, houseVars, TypeOK, Within
  <2>2. \A h \in Houses : Holders(h)' = Holders(h)
    BY <2>1 DEF Holders
  <2>3. DoorsExclusive'
    BY <1>2, <2>1, <2>2, DoorsSame DEF DoorInv
  <2>4. ReadsTrue'
    BY <1>1, <2>1 DEF ReadsTrue, DoorInv, Within
  <2> QED
    BY <2>3, <2>4
<1>5. CASE Enter(g)
  <2> PICK d \in Houses : d = closest[g]
    BY <1>5 DEF Enter, Enters, Go, GoesInv, Goes, Within
  <2>1. /\ locks[d] \in Nat /\ locks[d] > 0
        /\ at[g] = "wait" /\ at'[g] = "inside" /\ UNCHANGED <<houseCandy, closest>>
        /\ \A f \in Groups \ {g} : at'[f] = at[f] /\ inHand'[f] = inHand[f]
        /\ inHand'[g] = houseCandy[d]
        /\ locks'[d] = locks[d] - 1 /\ \A h \in Houses \ {d} : locks'[h] = locks[h]
    BY <1>5 DEF Enter, Enters, Go, TypeOK
  <2>2. ReadsTrue'
    BY <1>1, <2>1 DEF ReadsTrue, DoorInv
  <2>3. Holders(d)' = Holders(d) \cup {g} /\ g \notin Holders(d)
    BY <2>1 DEF Holders, Within
  <2>4. \A h \in Houses \ {d} : Holders(h)' = Holders(h)
    BY <2>1 DEF Holders, Within
  <2>5. Cardinality(Holders(d)') = Cardinality(Holders(d)) + 1
    BY <2>3, DoorCount, FS_AddElement
  <2>6. DoorsExclusive'
    <3>1. locks[d] + (Cardinality(Holders(d)) + Refiller(d)) = 1
      BY <2>1, DoorCount DEF DoorInv, DoorsExclusive
    <3>2. locks'[d] + (Cardinality(Holders(d)') + Refiller(d)') = 1
      BY <1>2, <2>1, <2>5, <3>1, DoorCount
    <3>3. \A h \in Houses : h # d => locks'[h] + AtDoor(h)' = 1
      BY <1>2, <2>1, <2>4, DoorCount DEF DoorInv, DoorsExclusive
    <3>4. locks'[d] + AtDoor(d)' = 1
      BY <3>2, DoorCount
    <3>5. \A h \in Houses : locks'[h] + AtDoor(h)' = 1
      BY <3>3, <3>4
    <3> QED
      BY <3>5 DEF DoorsExclusive
  <2> QED
    BY <2>2, <2>6
<1>6. CASE Take(g) \/ AddRest(g)
  <2> PICK d \in Houses : d = closest[g]
    BY <1>6 DEF Take, AddRest, Go, GoesInv, Goes, Within
  <2>1. /\ at[g] = "inside" /\ at'[g] \in {"took", "added"} /\ UNCHANGED <<locks, closest>>
        /\ \A f \in Groups \ {g} : at'[f] = at[f] /\ inHand'[f] = inHand[f]
        /\ \A h \in Houses \ {d} : houseCandy'[h] = houseCandy[h]
        /\ at'[g] = "added" => houseCandy'[d] = houseCandy[d] /\ inHand'[g] = inHand[g]
    BY <1>6 DEF Take, AddRest, LeavesCandy, AddsCandy, Go, TypeOK
  <2>2. \A h \in Houses : Holders(h)' = Holders(h)
    BY <2>1 DEF Holders, Within
  <2>3. DoorsExclusive'
    BY <1>2, <2>1, <2>2, DoorsSame DEF DoorInv
  <2>4. g \in Holders(d)
    BY <2>1 DEF Holders, Within
  <2>5. Holders(d) = {g} /\ Refiller(d) = 0
    BY <2>1, <2>4, Alone DEF DoorInv
  <2>6. ASSUME NEW f \in Groups, at'[f] \in {"inside", "added"}
        PROVE  inHand'[f] = houseCandy'[closest'[f]]
    <3>1. CASE f = g
      BY <2>1, <2>6, <3>1 DEF DoorInv
    <3>2. CASE f # g
      <4>1. at[f] \in {"inside", "added"}
        BY <2>1, <2>6, <3>2
      <4>2. closest[f] \in Houses /\ closest[f] # d
        BY <2>5, <3>2, <4>1 DEF Holders, GoesInv, Goes, Within
      <4> QED
        BY <2>1, <3>2, <4>1, <4>2 DEF DoorInv
    <3> QED
      BY <3>1, <3>2
  <2>7. ASSUME neighborhood' = "inside" PROVE seen' = houseCandy'[refill'.house]
    <3>1. refill.house \in Houses /\ refill.house # d
      BY <1>1, <2>5, <2>7, InputAssumption DEF DoorInv, Refiller
    <3> QED
      BY <1>1, <2>1, <2>7, <3>1 DEF DoorInv
  <2> QED
    BY <2>3, <2>6, <2>7 DEF ReadsTrue
<1>7. CASE Leave(g)
  <2> PICK d \in Houses : d = closest[g]
    BY <1>7 DEF Leave, Leaves, Go, GoesInv, Goes, Within
  <2>1. /\ locks[d] \in Nat /\ at[g] \in {"took", "added"} /\ at'[g] = "loop"
        /\ UNCHANGED closest
        /\ \A f \in Groups \ {g} : at'[f] = at[f] /\ inHand'[f] = inHand[f]
        /\ \A h \in Houses \ {d} : houseCandy'[h] = houseCandy[h]
        /\ locks'[d] = locks[d] + 1 /\ \A h \in Houses \ {d} : locks'[h] = locks[h]
    BY <1>7 DEF Leave, Leaves, LeavesCandy, AddsCandy, Go, TypeOK
  <2>2. g \in Holders(d) /\ Holders(d)' = Holders(d) \ {g}
    BY <2>1 DEF Holders, Within
  <2>3. Holders(d) = {g} /\ Refiller(d) = 0
    BY <2>2, Alone DEF DoorInv
  <2>4. \A h \in Houses \ {d} : Holders(h)' = Holders(h)
    BY <2>1 DEF Holders, Within
  <2>5. Cardinality(Holders(d)') = Cardinality(Holders(d)) - 1
    BY <2>2, DoorCount, FS_RemoveElement
  <2>6. DoorsExclusive'
    <3>1. locks[d] + (Cardinality(Holders(d)) + Refiller(d)) = 1
      BY <2>1, DoorCount DEF DoorInv, DoorsExclusive
    <3>2. locks'[d] + (Cardinality(Holders(d)') + Refiller(d)') = 1
      BY <1>2, <2>1, <2>5, <3>1, DoorCount
    <3>3. \A h \in Houses : h # d => locks'[h] + AtDoor(h)' = 1
      BY <1>2, <2>1, <2>4, DoorCount DEF DoorInv, DoorsExclusive
    <3>4. locks'[d] + AtDoor(d)' = 1
      BY <3>2, DoorCount
    <3>5. \A h \in Houses : locks'[h] + AtDoor(h)' = 1
      BY <3>3, <3>4
    <3> QED
      BY <3>5 DEF DoorsExclusive
  <2>7. ASSUME NEW f \in Groups, at'[f] \in {"inside", "added"}
        PROVE  inHand'[f] = houseCandy'[closest'[f]]
    <3>1. f # g /\ at[f] \in {"inside", "added"}
      BY <2>1, <2>7
    <3>2. closest[f] \in Houses /\ closest[f] # d
      BY <2>3, <3>1 DEF Holders, GoesInv, Goes, Within
    <3> QED
      BY <2>1, <3>1, <3>2 DEF DoorInv
  <2>8. ASSUME neighborhood' = "inside" PROVE seen' = houseCandy'[refill'.house]
    <3>1. refill.house \in Houses /\ refill.house # d
      BY <1>1, <2>3, <2>8, InputAssumption DEF DoorInv, Refiller
    <3> QED
      BY <1>1, <2>1, <2>8, <3>1 DEF DoorInv
  <2> QED
    BY <2>6, <2>7, <2>8 DEF ReadsTrue
<1> QED
  BY <1>3, <1>4, <1>5, <1>6, <1>7 DEF Group

LEMMA DoorNbStep == TypeOK /\ GoesInv /\ DoorInv /\ Neighborhood => DoorInv'
<1> SUFFICES ASSUME TypeOK, GoesInv, DoorInv, Neighborhood PROVE DoorInv'
  OBVIOUS
<1>1. UNCHANGED <<at, closest, inHand, main>> /\ main # "spawn"
  BY DEF Neighborhood, NbStop, NbRead, NbEof, NbEnter, NbAdd, NbGo, groupVars, mainVars, DoorInv
<1>2. \A h : Holders(h)' = Holders(h)
  BY <1>1 DEF Holders
<1>3. CASE NbStop \/ NbRead \/ NbEof
  <2>1. UNCHANGED <<houseCandy, locks>> /\ neighborhood # "inside" /\ neighborhood' # "inside"
    BY <1>3 DEF NbStop, NbRead, NbEof, NbGo, houseVars
  <2>2. DoorsExclusive'
    BY <1>2, <2>1, DoorsSame DEF DoorInv, Refiller
  <2>3. neighborhood' = "wait" => refill' \in Refills
    BY <1>3 DEF NbStop, NbRead, NbEof, NbGo
  <2> QED
    BY <1>1, <2>1, <2>2, <2>3 DEF DoorInv
<1>4. CASE NbEnter
  <2> PICK d \in Houses : d = refill.house
    BY <1>4, InputAssumption DEF NbEnter, NbGo, DoorInv
  <2>1. /\ locks[d] \in Nat /\ neighborhood = "wait" /\ neighborhood' = "inside"
        /\ UNCHANGED <<houseCandy, refill>> /\ refill \in Refills /\ seen' = houseCandy[d]
        /\ locks'[d] = locks[d] - 1 /\ \A h \in Houses \ {d} : locks'[h] = locks[h]
    BY <1>4 DEF NbEnter, NbGo, TypeOK, DoorInv
  <2>2. Refiller(d) = 0 /\ Refiller(d)' = 1
    BY <2>1 DEF Refiller
  <2>3. \A h \in Houses \ {d} : Refiller(h)' = Refiller(h)
    BY <2>1 DEF Refiller
  <2>4. locks[d] + (Cardinality(Holders(d)) + Refiller(d)) = 1
    BY DoorCount DEF DoorInv, DoorsExclusive
  <2>5. locks'[d] + (Cardinality(Holders(d)') + Refiller(d)') = 1
    BY <1>2, <2>1, <2>2, <2>4, DoorCount
  <2>6. \A h \in Houses \ {d} : locks'[h] + AtDoor(h)' = 1
    BY <1>2, <2>1, <2>3, DoorCount DEF DoorInv, DoorsExclusive
  <2>7. DoorsExclusive'
    BY <2>5, <2>6, DoorCount DEF DoorsExclusive
  <2> QED
    BY <1>1, <2>1, <2>7 DEF DoorInv
<1>5. CASE NbAdd
  <2> PICK d \in Houses : d = refill.house
    BY <1>5, InputAssumption DEF NbAdd, NbGo, DoorInv
  <2>1. /\ locks[d] \in Nat /\ neighborhood = "inside" /\ neighborhood' = "loop"
        /\ \A h \in Houses \ {d} : houseCandy'[h] = houseCandy[h]
        /\ locks'[d] = locks[d] + 1 /\ \A h \in Houses \ {d} : locks'[h] = locks[h]
    BY <1>5 DEF NbAdd, NbGo, TypeOK
  <2>2. Refiller(d) = 1 /\ Refiller(d)' = 0
    BY <2>1 DEF Refiller
  <2>3. \A h \in Houses \ {d} : Refiller(h)' = Refiller(h)
    BY <2>1 DEF Refiller
  <2>4. locks[d] + (Cardinality(Holders(d)) + Refiller(d)) = 1
    BY DoorCount DEF DoorInv, DoorsExclusive
  <2>5. locks'[d] + (Cardinality(Holders(d)') + Refiller(d)') = 1
    BY <1>2, <2>1, <2>2, <2>4, DoorCount
  <2>6. \A h \in Houses \ {d} : locks'[h] + AtDoor(h)' = 1
    BY <1>2, <2>1, <2>3, DoorCount DEF DoorInv, DoorsExclusive
  <2>7. DoorsExclusive'
    BY <2>5, <2>6, DoorCount DEF DoorsExclusive
  <2>8. Holders(d) = {}
    BY <2>2, RefillerAlone DEF DoorInv
  <2>9. ASSUME NEW g \in Groups, at[g] \in {"inside", "added"}
        PROVE  inHand[g] = houseCandy'[closest[g]]
    <3>1. closest[g] \in Houses /\ closest[g] # d
      BY <2>8, <2>9 DEF Holders, GoesInv, Goes, Within
    <3> QED
      BY <2>1, <2>9, <3>1 DEF DoorInv
  <2> QED
    BY <1>1, <2>1, <2>7, <2>9 DEF DoorInv
<1> QED
  BY <1>3, <1>4, <1>5 DEF Neighborhood

LEMMA DoorStep == TypeOK /\ GoesInv /\ DoorInv /\ [Next]_vars => DoorInv'
<1> SUFFICES ASSUME TypeOK, GoesInv, DoorInv, [Next]_vars PROVE DoorInv'
  OBVIOUS
<1>1. ASSUME NEW g \in Groups, SpawnGroup(g) PROVE DoorInv'
  <2>1. /\ UNCHANGED <<houseCandy, locks, closest, inHand, neighborhood, refill, seen, main>>
        /\ at[g] = "unborn" /\ at' = [at EXCEPT ![g] = "loop"]
    BY <1>1 DEF SpawnGroup, MainGo, houseVars, nbVars
  <2>2. \A h \in Houses : Holders(h)' = Holders(h)
    BY <2>1 DEF Holders, Within, TypeOK
  <2>3. DoorsExclusive'
    BY <2>1, <2>2, DoorsSame DEF DoorInv, Refiller
  <2> QED
    BY <2>1, <2>3 DEF DoorInv, TypeOK
<1>2. CASE SpawnNeighborhood
  <2>1. /\ UNCHANGED <<houseCandy, locks, at, closest, inHand>>
        /\ neighborhood = "unborn" /\ neighborhood' = "loop" /\ main' = "loop"
    BY <1>2 DEF SpawnNeighborhood, MainGo, houseVars, groupVars, DoorInv
  <2>2. DoorsExclusive'
    BY <2>1, DoorsSame DEF DoorInv, Refiller, Holders
  <2> QED
    BY <2>1, <2>2 DEF DoorInv
<1>3. CASE PrintBegin \/ PrintGroup \/ PrintEnd \/ Join \/ UNCHANGED vars
  <2>1. /\ UNCHANGED <<houseCandy, locks, at, closest, inHand, neighborhood, refill, seen>>
        /\ main' = "spawn" => main = "spawn"
    BY <1>3 DEF PrintBegin, PrintGroup, PrintEnd, Join, MainGo, houseVars, groupVars, nbVars,
                mainVars, vars
  <2>2. DoorsExclusive'
    BY <2>1, DoorsSame DEF DoorInv, Refiller, Holders
  <2> QED
    BY <2>1, <2>2 DEF DoorInv
<1> QED
  BY <1>1, <1>2, <1>3, DoorGroupStep, DoorNbStep DEF Next, Main

(***************************************************************************)
(* What a group read when it chose.  Candy is taken by a group, which then *)
(* is the others' robber, and added by a refill.                           *)
(***************************************************************************)

(* A group for which nothing changed, and whose house has no less.         *)
LEMMA TrustSame ==
  ASSUME TypeOK, NEW g \in Groups, Trusts(g),
         at'[g] = at[g], closest'[g] = closest[g], inHand'[g] = inHand[g],
         why'[g] = "enough" =>
           /\ why[g] = "enough"
           /\ closest[g] \in Houses =>
                /\ houseCandy'[closest[g]] \in Nat
                /\ houseCandy'[closest[g]] >= houseCandy[closest[g]]
  PROVE  Trusts(g)'
<1>1. NumOfKids[g] \in Nat /\ \A h \in Houses : houseCandy[h] \in Nat
  BY InputAssumption DEF TypeOK
<1> QED
  BY <1>1 DEF Trusts

LEMMA TrustGroupStep ==
  ASSUME TypeOK, TypeOK', GoesInv, DoorInv, TrustInv, NEW g \in Groups, Group(g)
  PROVE  TrustInv'
<1>1. \A h \in Houses : houseCandy[h] \in Nat /\ houseCandy'[h] \in Nat
  BY DEF TypeOK
<1>2. ASSUME UNCHANGED houseCandy, \A f \in Groups \ {g} : why'[f] = why[f], Trusts(g)'
      PROVE  TrustInv'
  <2>1. ASSUME NEW f \in Groups, f # g PROVE Trusts(f)'
    <3>1. at'[f] = at[f] /\ closest'[f] = closest[f] /\ inHand'[f] = inHand[f]
      BY <2>1 DEF TypeOK, Group, LoopTest, Look, Looks, Decide, Arrive, Enter, Enters, Take,
                  AddRest, Leave, Leaves, Go
    <3>2. closest[f] \in Houses => houseCandy'[closest[f]] >= houseCandy[closest[f]]
      BY <1>1, <1>2
    <3> QED
      BY <1>1, <1>2, <2>1, <3>1, <3>2, TrustSame DEF TrustInv
  <2> QED
    BY <1>2, <2>1 DEF TrustInv
<1>3. ASSUME NEW n, LeavesCandy(g, n), closest[g] \in Houses, UNCHANGED closest,
             at'[g] \in {"took", "loop"}
      PROVE  TrustInv'
  <2>1. ASSUME NEW f \in Groups, f # g PROVE Trusts(f)'
    <3>1. at'[f] = at[f] /\ closest'[f] = closest[f] /\ inHand'[f] = inHand[f]
      BY <2>1 DEF TypeOK, Group, LoopTest, Look, Looks, Decide, Arrive, Enter, Enters, Take,
                  AddRest, Leave, Leaves, Go
    <3>2. why'[f] = "enough" => why[f] = "enough" /\ closest[f] # closest[g]
      BY <1>3, <2>1 DEF LeavesCandy
    <3>3. \A h \in Houses : h # closest[g] => houseCandy'[h] = houseCandy[h]
      BY <1>3 DEF LeavesCandy, TypeOK
    <3>4. why'[f] = "enough" =>
            /\ why[f] = "enough"
            /\ closest[f] \in Houses =>
                 /\ houseCandy'[closest[f]] \in Nat
                 /\ houseCandy'[closest[f]] >= houseCandy[closest[f]]
      BY <1>1, <3>2, <3>3
    <3> QED
      BY <3>1, <3>4, TrustSame DEF TrustInv
  <2>2. Trusts(g)'
    BY <1>3 DEF Trusts
  <2> QED
    BY <2>1, <2>2 DEF TrustInv
<1>4. CASE LoopTest(g)
  <2>1. why'[g] = "none" /\ UNCHANGED houseCandy /\ \A f \in Groups \ {g} : why'[f] = why[f]
    BY <1>4 DEF LoopTest, houseVars, TypeOK
  <2> QED
    BY <1>2, <2>1 DEF Trusts
<1>5. CASE Look(g)
  <2>1. /\ at[g] = "look" /\ at'[g] = "look" /\ UNCHANGED houseCandy
        /\ \A f \in Groups \ {g} : why'[f] = why[f]
        /\ next[g] \in Houses
    BY <1>5 DEF Look, Looks, Go, houseVars, TypeOK
  <2>2. CASE UNCHANGED <<closest, why>>
    BY <1>2, <2>1, <2>2 DEF TrustInv, Trusts
  <2>3. CASE closest' = [closest EXCEPT ![g] = next[g]] /\ why'[g] = "first"
    BY <1>2, <2>1, <2>3 DEF Trusts
  <2>4. CASE closest' = [closest EXCEPT ![g] = next[g]] /\ EnoughAt(g, next[g])
    <3>1. closest'[g] = next[g] /\ houseCandy'[next[g]] >= NumOfKids[g]
      BY <2>1, <2>4 DEF EnoughAt, TypeOK
    <3> QED
      BY <1>2, <2>1, <3>1 DEF Trusts
  <2> QED
    BY <1>5, <2>2, <2>3, <2>4 DEF Look, Looks, TypeOK
<1>6. CASE Decide(g) \/ Arrive(g)
  <2>1. /\ at[g] \in {"look", "travel"} /\ at'[g] \in {"travel", "wait"}
        /\ UNCHANGED <<houseCandy, closest, why>>
    BY <1>6 DEF Decide, Arrive, Go, houseVars, TypeOK
  <2> QED
    BY <1>2, <2>1 DEF TrustInv, Trusts
<1>7. CASE Enter(g)
  <2>1. /\ at[g] = "wait" /\ at'[g] = "inside" /\ inHand'[g] = houseCandy[closest[g]]
        /\ UNCHANGED <<houseCandy, why>>
    BY <1>7 DEF Enter, Enters, Go, TypeOK
  <2> QED
    BY <1>2, <2>1 DEF TrustInv, Trusts
<1>8. CASE Take(g)
  <2>1. /\ closest[g] \in Houses /\ at'[g] = "took" /\ UNCHANGED closest
        /\ LeavesCandy(g, inHand[g] - NumOfKids[g])
    BY <1>8 DEF Take, Go, GoesInv, Goes, Within, TypeOK
  <2> QED
    BY <1>3, <2>1
<1>9. CASE AddRest(g)
  <2>1. at'[g] = "added" /\ UNCHANGED <<houseCandy, why>>
    BY <1>9 DEF AddRest, AddsCandy, Go, TypeOK
  <2> QED
    BY <1>2, <2>1 DEF Trusts
<1>10. CASE Leave(g)
  <2>1. /\ closest[g] \in Houses /\ at'[g] = "loop" /\ UNCHANGED closest
        /\ AddsCandy(g) \/ LeavesCandy(g, 0)
    BY <1>10 DEF Leave, Leaves, Go, GoesInv, Goes, Within, TypeOK
  <2>2. CASE AddsCandy(g)
    BY <1>2, <2>1, <2>2 DEF AddsCandy, Trusts
  <2> QED
    BY <1>3, <2>1, <2>2
<1> QED
  BY <1>4, <1>5, <1>6, <1>7, <1>8, <1>9, <1>10 DEF Group

LEMMA TrustStep ==
  TypeOK /\ GoesInv /\ DoorInv /\ TrustInv /\ TypeOK' /\ [Next]_vars => TrustInv'
<1> SUFFICES ASSUME TypeOK, GoesInv, DoorInv, TrustInv, TypeOK', [Next]_vars
             PROVE  TrustInv'
  OBVIOUS
<1>1. \A h \in Houses : houseCandy[h] \in Nat /\ houseCandy'[h] \in Nat
  BY DEF TypeOK
<1>2. ASSUME NEW g \in Groups, SpawnGroup(g) PROVE TrustInv'
  <2>1. at' = [at EXCEPT ![g] = "loop"] /\ UNCHANGED <<houseCandy, closest, inHand, why>>
    BY <1>2 DEF SpawnGroup, MainGo, houseVars
  <2> QED
    BY <2>1 DEF TrustInv, Trusts, TypeOK
<1>3. CASE NbAdd
  <2> PICK d \in Houses, c \in Nat : d = refill.house /\ c = refill.candy
    BY <1>3, InputAssumption DEF NbAdd, NbGo, DoorInv
  <2>1. /\ houseCandy' = [houseCandy EXCEPT ![d] = seen + c]
        /\ UNCHANGED <<at, closest, inHand, why>> /\ houseCandy[d] = seen
    BY <1>3 DEF NbAdd, NbGo, groupVars, DoorInv
  <2>2. \A h \in Houses : houseCandy'[h] >= houseCandy[h]
    BY <1>1, <2>1 DEF TypeOK
  <2>3. ASSUME NEW g \in Groups PROVE Trusts(g)'
    <3>1. closest[g] \in Houses => /\ houseCandy'[closest[g]] \in Nat
                                   /\ houseCandy'[closest[g]] >= houseCandy[closest[g]]
      BY <1>1, <2>2
    <3> QED
      BY <2>1, <3>1, TrustSame DEF TrustInv
  <2> QED
    BY <2>3 DEF TrustInv
<1>4. CASE UNCHANGED <<houseCandy, at, closest, inHand, why>>
  BY <1>4 DEF TrustInv, Trusts
<1>5. CASE NbStop \/ NbRead \/ NbEof \/ NbEnter \/ SpawnNeighborhood \/ PrintBegin
           \/ PrintGroup \/ PrintEnd \/ Join \/ UNCHANGED vars
  BY <1>4, <1>5 DEF NbStop, NbRead, NbEof, NbEnter, NbGo, SpawnNeighborhood, PrintBegin,
                    PrintGroup, PrintEnd, Join, MainGo, groupVars, houseVars, vars
<1> QED
  BY <1>2, <1>3, <1>5, TrustGroupStep DEF Next, Neighborhood, Main

(***************************************************************************)
(* The candy.                                                              *)
(***************************************************************************)
LEMMA Terms ==
  TypeOK => /\ NatTerms(houseCandy, Houses) /\ NatTerms(groupCandy, Groups)
            /\ NatTerms(Taken, Groups) /\ NatTerms(Twice, Groups)
            /\ NatTerms(Unread, Groups) /\ NatTerms(Read, Groups)
  BY DEF TypeOK, NatTerms, Taken, Twice, Unread, Read

(* One step of a group moves candy: n to or from a term of each sum.       *)
LEMMA HouseSum ==
  ASSUME TypeOK, TypeOK', NEW d \in Houses, SameBut(houseCandy, houseCandy', d, Houses)
  PROVE  Sum(houseCandy', Houses) = Sum(houseCandy, Houses) + houseCandy'[d] - houseCandy[d]
<1>1. NatTerms(houseCandy, Houses) /\ NatTerms(houseCandy', Houses)
  BY DEF NatTerms, TypeOK
<1> QED
  BY <1>1, SumAt, Sizes

LEMMA GroupSums ==
  ASSUME TypeOK, TypeOK', NEW g \in Groups,
         \A f \in Groups \ {g} : /\ at'[f] = at[f] /\ inHand'[f] = inHand[f]
                                 /\ groupCandy'[f] = groupCandy[f]
  PROVE  /\ Sum(groupCandy', Groups) = Sum(groupCandy, Groups) + groupCandy'[g] - groupCandy[g]
         /\ Sum(Taken', Groups) = Sum(Taken, Groups) + Taken'[g] - Taken[g]
         /\ Sum(Twice', Groups) = Sum(Twice, Groups) + Twice'[g] - Twice[g]
<1>1. /\ NatTerms(groupCandy, Groups) /\ NatTerms(groupCandy', Groups)
      /\ NatTerms(Taken, Groups) /\ NatTerms(Taken', Groups)
      /\ NatTerms(Twice, Groups) /\ NatTerms(Twice', Groups)
  BY DEF NatTerms, TypeOK, Taken, Twice
<1>2. /\ SameBut(groupCandy, groupCandy', g, Groups)
      /\ SameBut(Taken, Taken', g, Groups) /\ SameBut(Twice, Twice', g, Groups)
  BY DEF SameBut, Taken, Twice
<1> QED
  BY <1>1, <1>2, SumAt, Sizes

LEMMA CandyStep ==
  TypeOK /\ GoesInv /\ DoorInv /\ CandyInv /\ TypeOK' /\ [Next]_vars => CandyInv'
<1> SUFFICES ASSUME TypeOK, GoesInv, DoorInv, CandyInv, TypeOK', [Next]_vars
             PROVE  CandyInv'
  OBVIOUS
<1>1. /\ Sum(houseCandy, Houses) \in Nat /\ Sum(groupCandy, Groups) \in Nat
      /\ Sum(Taken, Groups) \in Nat /\ Sum(Twice, Groups) \in Nat /\ supplied \in Nat
      /\ supplied + Sum(Twice, Groups)
           = Sum(houseCandy, Houses) + Sum(groupCandy, Groups) + Sum(Taken, Groups)
  BY Terms, Sizes, SumType DEF CandyInv, TypeOK
<1>2. CASE UNCHANGED <<supplied, houseCandy, groupCandy, Taken, Twice>>
  BY <1>2 DEF CandyInv
<1>3. ASSUME NEW g \in Groups, LoopTest(g) \/ Look(g) \/ Decide(g) \/ Arrive(g) \/ Enter(g)
      PROVE  CandyInv'
  <2>1. UNCHANGED <<supplied, houseCandy, groupCandy>>
    BY <1>3 DEF LoopTest, Look, Looks, Decide, Arrive, Enter, Enters, Go, houseVars, nbVars
  <2>2. /\ at[g] \notin {"took", "added"} /\ at'[g] \notin {"took", "added"}
        /\ \A f \in Groups \ {g} : at'[f] = at[f] /\ inHand'[f] = inHand[f]
    BY <1>3 DEF LoopTest, Look, Looks, Decide, Arrive, Enter, Enters, Go, TypeOK
  <2>3. UNCHANGED <<Taken, Twice>>
    BY <2>2 DEF Taken, Twice
  <2> QED
    BY <1>2, <2>1, <2>3
<1>4. ASSUME NEW g \in Groups, Take(g) PROVE CandyInv'
  <2> PICK d \in Houses, k \in Nat : d = closest[g] /\ k = NumOfKids[g]
    BY <1>4, InputAssumption DEF Take, Go, GoesInv, Goes, Within
  <2>1. /\ at[g] = "inside" /\ at'[g] = "took" /\ inHand'[g] = k
        /\ houseCandy' = [houseCandy EXCEPT ![d] = inHand[g] - k]
        /\ UNCHANGED <<groupCandy, supplied>>
        /\ \A f \in Groups \ {g} : at'[f] = at[f] /\ inHand'[f] = inHand[f]
    BY <1>4 DEF Take, LeavesCandy, Go, TypeOK, nbVars
  <2>2. houseCandy[d] = inHand[g] /\ houseCandy[d] \in Nat /\ houseCandy'[d] = houseCandy[d] - k
    BY <2>1 DEF DoorInv, TypeOK
  <2>3. Sum(houseCandy', Houses) = Sum(houseCandy, Houses) + houseCandy'[d] - houseCandy[d]
    <3>1. SameBut(houseCandy, houseCandy', d, Houses)
      BY <2>1 DEF SameBut, TypeOK
    <3> QED
      BY <3>1, HouseSum
  <2>4. Taken[g] = 0 /\ Taken'[g] = k /\ Twice[g] = 0 /\ Twice'[g] = 0
    BY <2>1 DEF Taken, Twice
  <2>5. /\ Sum(Taken', Groups) = Sum(Taken, Groups) + Taken'[g] - Taken[g]
        /\ Sum(Twice', Groups) = Sum(Twice, Groups) + Twice'[g] - Twice[g]
    BY <2>1, GroupSums
  <2>6. supplied' + Sum(Twice', Groups)
          = Sum(houseCandy', Houses) + Sum(groupCandy', Groups) + Sum(Taken', Groups)
    BY <1>1, <2>1, <2>2, <2>3, <2>4, <2>5
  <2> QED
    BY <2>6 DEF CandyInv
<1>5. ASSUME NEW g \in Groups, AddRest(g) PROVE CandyInv'
  <2>1. /\ at[g] = "inside" /\ at'[g] = "added" /\ UNCHANGED <<houseCandy, supplied, inHand>>
        /\ groupCandy' = [groupCandy EXCEPT ![g] = groupCandy[g] + inHand[g]]
        /\ \A f \in Groups \ {g} : at'[f] = at[f]
    BY <1>5 DEF AddRest, AddsCandy, Go, TypeOK, nbVars
  <2>2. inHand[g] \in Nat /\ groupCandy[g] \in Nat /\ groupCandy'[g] = groupCandy[g] + inHand[g]
    BY <2>1 DEF TypeOK
  <2>3. Taken[g] = 0 /\ Taken'[g] = 0 /\ Twice[g] = 0 /\ Twice'[g] = inHand[g]
    BY <2>1 DEF Taken, Twice
  <2>4. \A f \in Groups \ {g} : groupCandy'[f] = groupCandy[f]
    BY <2>1 DEF TypeOK
  <2>5. /\ Sum(groupCandy', Groups) = Sum(groupCandy, Groups) + groupCandy'[g] - groupCandy[g]
        /\ Sum(Taken', Groups) = Sum(Taken, Groups) + Taken'[g] - Taken[g]
        /\ Sum(Twice', Groups) = Sum(Twice, Groups) + Twice'[g] - Twice[g]
    BY <2>1, <2>4, GroupSums
  <2>6. supplied' + Sum(Twice', Groups)
          = Sum(houseCandy', Houses) + Sum(groupCandy', Groups) + Sum(Taken', Groups)
    BY <1>1, <2>1, <2>2, <2>3, <2>5
  <2> QED
    BY <2>6 DEF CandyInv
<1>10. ASSUME NEW g \in Groups, Leave(g), Go(g, "took", "loop"), AddsCandy(g) PROVE CandyInv'
  <2>1. /\ at[g] = "took" /\ at'[g] = "loop" /\ UNCHANGED <<houseCandy, supplied>>
        /\ groupCandy' = [groupCandy EXCEPT ![g] = groupCandy[g] + inHand[g]]
        /\ \A f \in Groups \ {g} : at'[f] = at[f] /\ inHand'[f] = inHand[f]
    BY <1>10 DEF Leave, Leaves, AddsCandy, Go, TypeOK, nbVars
  <2>2. inHand[g] \in Nat /\ groupCandy[g] \in Nat /\ groupCandy'[g] = groupCandy[g] + inHand[g]
    BY <2>1 DEF TypeOK
  <2>3. Taken[g] = inHand[g] /\ Taken'[g] = 0 /\ Twice[g] = 0 /\ Twice'[g] = 0
    BY <2>1 DEF Taken, Twice
  <2>4. \A f \in Groups \ {g} : groupCandy'[f] = groupCandy[f]
    BY <2>1 DEF TypeOK
  <2>5. /\ Sum(groupCandy', Groups) = Sum(groupCandy, Groups) + groupCandy'[g] - groupCandy[g]
        /\ Sum(Taken', Groups) = Sum(Taken, Groups) + Taken'[g] - Taken[g]
        /\ Sum(Twice', Groups) = Sum(Twice, Groups) + Twice'[g] - Twice[g]
    BY <2>1, <2>4, GroupSums
  <2>6. supplied' + Sum(Twice', Groups)
          = Sum(houseCandy', Houses) + Sum(groupCandy', Groups) + Sum(Taken', Groups)
    BY <1>1, <2>1, <2>2, <2>3, <2>5
  <2> QED
    BY <2>6 DEF CandyInv
<1>11. ASSUME NEW g \in Groups, Leave(g), Go(g, "added", "loop"), LeavesCandy(g, 0)
       PROVE  CandyInv'
  <2> PICK d \in Houses : d = closest[g]
    BY <1>11 DEF Go, GoesInv, Goes, Within
  <2>1. /\ at[g] = "added" /\ at'[g] = "loop" /\ UNCHANGED <<groupCandy, supplied>>
        /\ houseCandy' = [houseCandy EXCEPT ![d] = 0]
        /\ \A f \in Groups \ {g} : at'[f] = at[f] /\ inHand'[f] = inHand[f]
    BY <1>11 DEF Leave, Leaves, LeavesCandy, Go, TypeOK, nbVars
  <2>2. houseCandy[d] = inHand[g] /\ houseCandy[d] \in Nat /\ houseCandy'[d] = 0
    BY <2>1 DEF DoorInv, TypeOK
  <2>3. Sum(houseCandy', Houses) = Sum(houseCandy, Houses) + houseCandy'[d] - houseCandy[d]
    <3>1. SameBut(houseCandy, houseCandy', d, Houses)
      BY <2>1 DEF SameBut, TypeOK
    <3> QED
      BY <3>1, HouseSum
  <2>4. Taken[g] = 0 /\ Taken'[g] = 0 /\ Twice[g] = inHand[g] /\ Twice'[g] = 0
    BY <2>1 DEF Taken, Twice
  <2>5. /\ Sum(Taken', Groups) = Sum(Taken, Groups) + Taken'[g] - Taken[g]
        /\ Sum(Twice', Groups) = Sum(Twice, Groups) + Twice'[g] - Twice[g]
    BY <2>1, GroupSums
  <2>6. supplied' + Sum(Twice', Groups)
          = Sum(houseCandy', Houses) + Sum(groupCandy', Groups) + Sum(Taken', Groups)
    BY <1>1, <2>1, <2>2, <2>3, <2>4, <2>5
  <2> QED
    BY <2>6 DEF CandyInv
<1>12. ASSUME NEW g \in Groups, Leave(g) PROVE CandyInv'
  BY <1>10, <1>11, <1>12 DEF Leave, Leaves
<1>6. CASE NbStop \/ NbRead \/ NbEof \/ NbEnter
  <2>1. UNCHANGED <<supplied, houseCandy, groupCandy, at, inHand>>
    BY <1>6 DEF NbStop, NbRead, NbEof, NbEnter, NbGo, groupVars, houseVars
  <2> QED
    BY <1>2, <2>1 DEF Taken, Twice
<1>7. CASE NbAdd
  <2> PICK d \in Houses, c \in Nat : d = refill.house /\ c = refill.candy
    BY <1>7, InputAssumption DEF NbAdd, NbGo, DoorInv
  <2>1. /\ houseCandy' = [houseCandy EXCEPT ![d] = seen + c]
        /\ supplied' = supplied + c /\ UNCHANGED <<groupCandy, at, inHand>>
    BY <1>7 DEF NbAdd, NbGo, groupVars
  <2>2. houseCandy[d] = seen /\ houseCandy[d] \in Nat
    BY <1>7 DEF NbAdd, NbGo, DoorInv, TypeOK
  <2>3. Sum(houseCandy', Houses) = Sum(houseCandy, Houses) + houseCandy'[d] - houseCandy[d]
    <3>1. SameBut(houseCandy, houseCandy', d, Houses)
      BY <2>1 DEF SameBut, TypeOK
    <3> QED
      BY <3>1, HouseSum
  <2>4. houseCandy'[d] = houseCandy[d] + c
    BY <2>1, <2>2 DEF TypeOK
  <2>5. UNCHANGED <<Taken, Twice>>
    BY <2>1 DEF Taken, Twice
  <2>6. supplied' + Sum(Twice', Groups)
          = Sum(houseCandy', Houses) + Sum(groupCandy', Groups) + Sum(Taken', Groups)
    BY <1>1, <2>1, <2>2, <2>3, <2>4, <2>5
  <2> QED
    BY <2>6 DEF CandyInv
<1>8. ASSUME NEW g \in Groups, SpawnGroup(g) PROVE CandyInv'
  <2>1. /\ UNCHANGED <<supplied, houseCandy, groupCandy, inHand>>
        /\ at[g] = "unborn" /\ at' = [at EXCEPT ![g] = "loop"]
    BY <1>8 DEF SpawnGroup, MainGo, houseVars, nbVars
  <2>2. UNCHANGED <<Taken, Twice>>
    BY <2>1 DEF Taken, Twice, TypeOK
  <2> QED
    BY <1>2, <2>1, <2>2
<1>9. CASE SpawnNeighborhood \/ PrintBegin \/ PrintGroup \/ PrintEnd \/ Join \/ UNCHANGED vars
  <2>1. UNCHANGED <<supplied, houseCandy, groupCandy, at, inHand>>
    BY <1>9 DEF SpawnNeighborhood, PrintBegin, PrintGroup, PrintEnd, Join, MainGo, groupVars,
                houseVars, nbVars, vars
  <2> QED
    BY <1>2, <2>1 DEF Taken, Twice
<1> QED
  BY <1>3, <1>4, <1>5, <1>6, <1>7, <1>8, <1>9, <1>12 DEF Next, Group, Neighborhood, Main

(***************************************************************************)
(* The total that is printed.                                              *)
(***************************************************************************)
LEMMA TotalStep == TypeOK /\ TotalInv /\ TypeOK' /\ [Next]_vars => TotalInv'
<1> SUFFICES ASSUME TypeOK, TotalInv, TypeOK', [Next]_vars, main' = "print"
             PROVE  before' <= total' + Sum(Unread', Groups) /\ total' <= Sum(Read', Groups)
  BY DEF TotalInv
<1>1. /\ NatTerms(Unread, Groups) /\ NatTerms(Read, Groups)
      /\ NatTerms(Unread', Groups) /\ NatTerms(Read', Groups)
  BY DEF NatTerms, Unread, Read, TypeOK
<1>2. /\ Sum(Unread, Groups) \in Nat /\ Sum(Read, Groups) \in Nat
      /\ total \in Nat /\ before \in Nat
  BY <1>1, Sizes, SumType DEF TypeOK
<1>3. CASE UNCHANGED <<main, groupCandy, printed, total, before>>
  BY <1>3 DEF TotalInv, Unread, Read
<1>4. ASSUME NEW g \in Groups, Group(g), ~AddsCandy(g)
      PROVE  UNCHANGED <<main, groupCandy, printed, total, before>>
  BY <1>4 DEF Group, LoopTest, Look, Looks, Decide, Arrive, Enter, Enters, Take, LeavesCandy,
              AddRest, Leave, Leaves, Go, mainVars
<1>5. ASSUME NEW g \in Groups, Group(g), AddsCandy(g)
      PROVE  before' <= total' + Sum(Unread', Groups) /\ total' <= Sum(Read', Groups)
  <2>1. /\ groupCandy' = [groupCandy EXCEPT ![g] = groupCandy[g] + inHand[g]]
        /\ UNCHANGED <<main, printed, total, before>>
    BY <1>5 DEF AddsCandy, Group, LoopTest, Look, Looks, Decide, Arrive, Enter, Enters, Take,
                AddRest, Leave, Leaves, Go, mainVars
  <2>2. Unread'[g] >= Unread[g] /\ Read'[g] >= Read[g]
    BY <2>1, Sizes DEF Unread, Read, TypeOK
  <2>3. SameBut(Unread, Unread', g, Groups) /\ SameBut(Read, Read', g, Groups)
    BY <2>1 DEF SameBut, Unread, Read, TypeOK
  <2>4. /\ Sum(Unread', Groups) = Sum(Unread, Groups) + Unread'[g] - Unread[g]
        /\ Sum(Read', Groups) = Sum(Read, Groups) + Read'[g] - Read[g]
    BY <1>1, <2>3, SumAt, Sizes
  <2>5. Unread[g] \in Nat /\ Unread'[g] \in Nat /\ Read[g] \in Nat /\ Read'[g] \in Nat
    BY <1>1 DEF NatTerms
  <2> QED
    BY <1>2, <2>1, <2>2, <2>4, <2>5 DEF TotalInv
<1>6. CASE Neighborhood
  <2>1. UNCHANGED <<main, groupCandy, printed, total, before>>
    BY <1>6 DEF Neighborhood, NbStop, NbRead, NbEof, NbEnter, NbAdd, NbGo, groupVars, mainVars
  <2> QED
    BY <1>3, <2>1
<1>7. ASSUME NEW g \in Groups PROVE ~SpawnGroup(g)
  BY DEF SpawnGroup, MainGo
<1>8. CASE PrintBegin
  <2>1. /\ UNCHANGED groupCandy /\ printed' = 0 /\ total' = 0
        /\ before' = Sum(groupCandy, Groups)
    BY <1>8 DEF PrintBegin, groupVars
  <2>2. Unread' = groupCandy
    BY <2>1, Sizes DEF Unread, TypeOK
  <2>3. Sum(Read', Groups) \in Nat /\ Sum(groupCandy, Groups) \in Nat
    BY <1>1, Terms, Sizes, SumType
  <2> QED
    BY <2>1, <2>2, <2>3
<1>9. CASE PrintGroup
  <2> PICK p \in Groups : p = printed
    BY <1>9, Sizes DEF PrintGroup, TypeOK, Groups
  <2>1. /\ UNCHANGED <<main, groupCandy, before>> /\ printed' = p + 1
        /\ total' = total + groupCandy[p] /\ main = "print" /\ p \in Nat
        /\ groupCandy[p] \in Nat
    BY <1>9, Sizes DEF PrintGroup, MainGo, groupVars, TypeOK
  <2>2. \A g \in Groups : g < printed' <=> g < p \/ g = p
    BY <2>1, Sizes
  <2>3. Unread[p] = groupCandy[p] /\ Unread'[p] = 0 /\ Read[p] = 0 /\ Read'[p] = groupCandy[p]
    BY <2>1, <2>2 DEF Unread, Read
  <2>4. SameBut(Unread, Unread', p, Groups) /\ SameBut(Read, Read', p, Groups)
    BY <2>1, <2>2 DEF SameBut, Unread, Read
  <2>5. /\ Sum(Unread', Groups) = Sum(Unread, Groups) + Unread'[p] - Unread[p]
        /\ Sum(Read', Groups) = Sum(Read, Groups) + Read'[p] - Read[p]
    BY <1>1, <2>4, SumAt, Sizes
  <2> QED
    BY <1>2, <2>1, <2>3, <2>5 DEF TotalInv
<1>10. CASE SpawnNeighborhood \/ PrintEnd \/ Join
  BY <1>10 DEF SpawnNeighborhood, PrintEnd, Join, MainGo
<1>11. CASE UNCHANGED vars
  BY <1>3, <1>11 DEF vars, groupVars, mainVars
<1> QED
  BY <1>3, <1>4, <1>5, <1>6, <1>7, <1>8, <1>9, <1>10, <1>11 DEF Next, Main

(* When all groups have been read, the total is between the sums.          *)
LEMMA TotalBetween == TypeOK /\ TotalInv => TotalIsBetween
<1> SUFFICES ASSUME TypeOK, TotalInv, main = "print", printed = G
             PROVE  before <= total /\ total <= Sum(groupCandy, Groups)
  BY DEF TotalIsBetween
<1>1. \A g \in Groups : g < printed
  BY SizeAssumption DEF Groups
<1>2. Sum(Unread, Groups) = 0
  <2>1. \A g \in Groups : Unread[g] = 0
    BY <1>1 DEF Unread
  <2> QED
    BY <2>1, SumZero, Sizes
<1>3. Read = groupCandy
  BY <1>1 DEF Read, TypeOK
<1> QED
  BY <1>2, <1>3 DEF TotalInv, TypeOK

-----------------------------------------------------------------------------
LEMMA InitInv == Init => IInv
<1> SUFFICES ASSUME Init PROVE IInv
  OBVIOUS
<1>1. TypeOK
  <2>1. supplied \in Nat
    BY Sizes, SumType, InputAssumption DEF Init, NatTerms
  <2>2. next \in [Groups -> 0..num_of_houses]
    BY SizeAssumption DEF Init
  <2>3. printed \in 0..G /\ refills \in 0..MaxRefills
    BY SizeAssumption, InputAssumption DEF Init
  <2>4. closest \in [Groups -> Houses \cup {None}] /\ refill \in Refills \cup {NoRefill}
    BY DEF Init
  <2>5. houseCandy \in [Houses -> Nat] /\ currHouse \in [Groups -> Houses]
    BY InputAssumption DEF Init
  <2>6. locks \in [Houses -> Nat] /\ groupCandy \in [Groups -> Nat] /\ inHand \in [Groups -> Nat]
    BY DEF Init
  <2>7. end_simulation \in BOOLEAN
    BY DEF Init
  <2> QED
    BY <2>1, <2>2, <2>3, <2>4, <2>5, <2>6, <2>7 DEF Init, TypeOK
<1>2. GoesInv
  BY DEF Init, GoesInv, Goes, Within
<1>3. \A h : Holders(h) = {}
  BY DEF Init, Holders, Within
<1>4. DoorsExclusive
  BY <1>3, DoorCount, FS_EmptySet DEF Init, DoorsExclusive, Refiller
<1>5. DoorInv
  BY <1>4 DEF Init, DoorInv
<1>6. CandyInv
  <2>1. Sum(groupCandy, Groups) = 0
    BY SumZero, Sizes DEF Init
  <2>2. Sum(Taken, Groups) = 0 /\ Sum(Twice, Groups) = 0
    <3>1. \A g \in Groups : Taken[g] = 0 /\ Twice[g] = 0
      BY DEF Init, Taken, Twice
    <3> QED
      BY <3>1, SumZero, Sizes
  <2>3. supplied = Sum(houseCandy, Houses) /\ supplied \in Nat
    BY <1>1 DEF Init, TypeOK
  <2> QED
    BY <2>1, <2>2, <2>3 DEF CandyInv
<1>7. TotalInv /\ TrustInv
  BY DEF Init, TotalInv, TrustInv, Trusts
<1> QED
  BY <1>1, <1>2, <1>5, <1>6, <1>7 DEF IInv

THEOREM Invariance == Spec => []IInv
<1>1. IInv /\ [Next]_vars => IInv'
  BY TypeStep, GoesStep, DoorStep, TrustStep, CandyStep, TotalStep DEF IInv
<1> QED
  BY <1>1, InitInv, PTL DEF Spec

(* No candy appears or vanishes, whatever the threads read before they     *)
(* write (CandyConserved), and no door lets two in.                        *)
THEOREM Conserved == Spec => []CandyConserved
<1>1. IInv => CandyConserved
  BY DEF IInv, DoorInv, CandyInv, CandyConserved
<1> QED
  BY <1>1, Invariance, PTL

(* The total of printStatus, from unlocked reads, lies between what the    *)
(* groups had when it began and what they have at its end.                 *)
THEOREM TotalSeen == Spec => []TotalIsBetween
<1>1. IInv => TotalIsBetween
  BY TotalBetween DEF IInv
<1> QED
  BY <1>1, Invariance, PTL

(* A group that preferred a house for its candy and finds too little was   *)
(* robbed of it by another group (ShortOnlyIfRobbed).                      *)
THEOREM ShortOfCandy == Spec => []ShortOnlyIfRobbed
<1>1. IInv => ShortOnlyIfRobbed
  <2> SUFFICES ASSUME IInv, NEW g \in Groups, at[g] = "inside", why[g] = "enough"
               PROVE  ~(inHand[g] < NumOfKids[g])
    BY DEF ShortOnlyIfRobbed
  <2>1. inHand[g] >= NumOfKids[g]
    BY DEF IInv, TrustInv, Trusts
  <2>2. inHand[g] \in Nat /\ NumOfKids[g] \in Nat
    BY InputAssumption DEF IInv, TypeOK
  <2> QED
    BY <2>1, <2>2
<1> QED
  BY <1>1, Invariance, PTL

-----------------------------------------------------------------------------
(***************************************************************************)
(* The scores.  Either way of scoring counts every peg of the code that it *)
(* marks once, so what it shows is the number of marks; and that is the    *)
(* sum over the colours of the marks of that colour.                       *)
(***************************************************************************)
LEMMA PegsAre ==
  ASSUME NEW M \in SUBSET Pegs
  PROVE  /\ Pegs = 1..4 /\ IsFiniteSet(M) /\ Cardinality(M) \in 0..4
         /\ Cardinality(Pegs) = 4
<1>1. Pegs = 1..4
  BY DEF Pegs, NUM_PEGS
<1>2. IsFiniteSet(Pegs) /\ Cardinality(Pegs) = 4
  <2>1. PICK a \in Int, b \in Int : a = 1 /\ b = 4
    OBVIOUS
  <2>2. Pegs = a..b
    BY <1>1, <2>1
  <2>3. IsFiniteSet(a..b)
    BY FS_Interval
  <2>4. \A i, j \in Int : i <= j => Cardinality(i..j) = j - i + 1
    BY FS_Interval
  <2>5. a \in Int /\ b \in Int /\ a <= b
    BY <2>1
  <2>6. Cardinality(a..b) = b - a + 1
    BY <2>4, <2>5, Zenon
  <2>7. b - a + 1 = 4
    BY <2>1
  <2>8. Cardinality(Pegs) = 4
    BY <2>2, <2>6, <2>7, Zenon
  <2>9. IsFiniteSet(Pegs)
    BY <2>2, <2>3, Zenon
  <2> QED
    BY <2>8, <2>9
<1>3. IsFiniteSet(M) /\ Cardinality(M) <= 4
  BY <1>2, FS_Subset
<1>4. Cardinality(M) \in Nat
  BY <1>3, FS_CardinalityType
<1> QED
  BY <1>1, <1>2, <1>3, <1>4

LEMMA FirstIs ==
  ASSUME NEW J \in SUBSET Pegs, J # {}
  PROVE  FirstOf(J) \in J
<1> SUFFICES \E j \in J : \A k \in J : j <= k
  BY DEF FirstOf
<1>1. J \subseteq {1, 2, 3, 4}
  BY PegsAre
<1>2. CASE 1 \in J
  BY <1>1, <1>2
<1>3. CASE 1 \notin J /\ 2 \in J
  BY <1>1, <1>3
<1>4. CASE 1 \notin J /\ 2 \notin J /\ 3 \in J
  BY <1>1, <1>4
<1>5. CASE 1 \notin J /\ 2 \notin J /\ 3 \notin J
  <2>1. J = {4}
    BY <1>1, <1>5
  <2> QED
    BY <2>1
<1> QED
  BY <1>2, <1>3, <1>4, <1>5

LEMMA MinIs ==
  ASSUME NEW a \in Nat, NEW b \in Nat
  PROVE  Min({a, b}) = IF a <= b THEN a ELSE b
<1>1. \E x \in {a, b} : \A y \in {a, b} : x <= y
  OBVIOUS
<1>2. Min({a, b}) \in {a, b} /\ \A y \in {a, b} : Min({a, b}) <= y
  BY <1>1 DEF Min
<1> QED
  BY <1>2

(* Both codes are made of the colours.                                     *)
Coloured == target_code \in Codes /\ user_guess \in Codes

(* The pegs of the code and of the guess of colour c.                      *)
InCode(c)  == {j \in Pegs : target_code[j] = c}
InGuess(c) == {i \in Pegs : user_guess[i] = c}
InBoth     == {i \in Pegs : target_code[i] = user_guess[i]}

Marks(M) == [c \in Colors |-> Cardinality(M \cap InCode(c))]

LEMMA ColorsAre == IsFiniteSet(Colors)
<1>1. 0 \in Int /\ NumColors - 1 \in Int
  BY ColorsAssumption
<1> QED
  BY <1>1, FS_Interval DEF Colors

LEMMA MarksType ==
  ASSUME NEW M \in SUBSET Pegs
  PROVE  NatTerms(Marks(M), Colors)
<1>1. \A c : M \cap InCode(c) \in SUBSET Pegs
  OBVIOUS
<1> QED
  BY <1>1, PegsAre DEF NatTerms, Marks

(* Every marked peg of the code has one colour: the marks of the colours   *)
(* add up to the marks.                                                    *)
LEMMA MarksAddUp ==
  ASSUME Coloured, NEW M \in SUBSET Pegs
  PROVE  Sum(Marks(M), Colors) = Cardinality(M)
<1> DEFINE Bad == {N \in SUBSET M : Sum(Marks(N), Colors) # Cardinality(N)}
<1> SUFFICES ASSUME Bad # {} PROVE FALSE
  OBVIOUS
<1>1. PICK N \in Bad : \A r \in Bad : r \subseteq N => r = N
  <2>1. Bad \in SUBSET SUBSET M /\ IsFiniteSet(M)
    BY PegsAre
  <2> HIDE DEF Bad
  <2> QED
    BY <2>1, Minimal
<1>2. N \in SUBSET Pegs /\ IsFiniteSet(N)
  BY PegsAre
<1>3. ASSUME N = {} PROVE FALSE
  <2>1. \A c \in Colors : Marks(N)[c] = 0
    BY <1>3, FS_EmptySet DEF Marks
  <2> QED
    BY <1>1, <1>3, <2>1, SumZero, ColorsAre, FS_EmptySet
<1> DEFINE m == Some(N)
           R == N \ {m}
           c == target_code[m]
<1>4. /\ m \in N /\ IsFiniteSet(R) /\ Cardinality(R) = Cardinality(N) - 1
      /\ Cardinality(N) \in Nat
  BY <1>2, <1>3, SomeRemoved
<1>5. R \in SUBSET Pegs /\ R \in SUBSET M /\ R # N
  BY <1>4
<1>6. Sum(Marks(R), Colors) = Cardinality(R)
  BY <1>1, <1>4, <1>5
<1>7. c \in Colors
  BY <1>2, <1>4 DEF Coloured, Codes
<1> HIDE DEF Bad, m, R, c
<1>8. SameBut(Marks(R), Marks(N), c, Colors)
  <2> SUFFICES ASSUME NEW d \in Colors \ {c} PROVE N \cap InCode(d) = R \cap InCode(d)
    BY DEF SameBut, Marks
  <2> QED
    BY DEF InCode, R, c
<1>9. Marks(N)[c] = Marks(R)[c] + 1
  <2>1. N \cap InCode(c) = (R \cap InCode(c)) \cup {m} /\ m \notin R \cap InCode(c)
    BY <1>2, <1>4 DEF InCode, R, c
  <2>2. R \cap InCode(c) \in SUBSET Pegs
    BY <1>5
  <2>3. Cardinality((R \cap InCode(c)) \cup {m}) = Cardinality(R \cap InCode(c)) + 1
    BY <2>1, <2>2, PegsAre, FS_AddElement
  <2> QED
    BY <1>7, <2>1, <2>3 DEF Marks
<1>10. Sum(Marks(N), Colors)
         = Sum(Marks(R), Colors) + Marks(N)[c] - Marks(R)[c]
  BY <1>2, <1>5, <1>7, <1>8, MarksType, SumAt, ColorsAre
<1>11. Marks(R)[c] \in Nat
  BY <1>5, <1>7, MarksType DEF NatTerms
<1>12. Sum(Marks(N), Colors) = Cardinality(N)
  BY <1>4, <1>6, <1>9, <1>10, <1>11
<1> QED
  BY <1>1, <1>12 DEF Bad

(* The loop of proj2, when it has looked at some of the pegs of the guess. *)
(* Besides the black pegs it has marked first places of colours for which  *)
(* there is a peg of the guess that is not black.                          *)
WhiteFor(m, i) ==
  i \notin InBoth /\ InCode(user_guess[i]) # {} /\ m = FirstOf(InCode(user_guess[i]))

Looked(s) ==
  /\ s.white \in Nat /\ s.marked \in SUBSET Pegs /\ InBoth \subseteq s.marked
  /\ Cardinality(InBoth) + s.white = Cardinality(s.marked)
  /\ \A m \in s.marked \ InBoth : \E i \in Pegs : WhiteFor(m, i)

LEMMA BlackIs ==
  /\ Black(target_code, user_guess) = InBoth
  /\ NumBlack(target_code, user_guess) = Cardinality(InBoth)
  /\ \A i : Places(target_code, user_guess, i) = InCode(user_guess[i])
  BY DEF Black, NumBlack, Places, InBoth, InCode

LEMMA LookStep ==
  ASSUME NEW s, Looked(s), NEW i \in Pegs
  PROVE  Looked(LookUp(target_code, user_guess, i, s))
<1> DEFINE J == InCode(user_guess[i])
           m == FirstOf(J)
           t == [white |-> s.white + 1, marked |-> s.marked \cup {m}]
<1>1. LookUp(target_code, user_guess, i, s)
        = IF i \notin s.marked /\ J # {} /\ m \notin s.marked THEN t ELSE s
  BY BlackIs DEF LookUp
<1>2. ASSUME i \notin s.marked, J # {}, m \notin s.marked PROVE Looked(t)
  <2>1. J \in SUBSET Pegs
    BY DEF InCode
  <2>2. m \in Pegs
    BY <1>2, <2>1, FirstIs
  <2>3. s.marked \in SUBSET Pegs
    BY DEF Looked
  <2>4. Cardinality(s.marked \cup {m}) = Cardinality(s.marked) + 1
    BY <1>2, <2>3, PegsAre, FS_AddElement
  <2>5. InBoth \in SUBSET Pegs
    BY DEF InBoth
  <2>6. Cardinality(InBoth) \in Nat /\ Cardinality(s.marked) \in Nat
    BY <2>3, <2>5, PegsAre
  <2>7. WhiteFor(m, i)
    BY <1>2 DEF Looked, WhiteFor
  <2>8. t.white = s.white + 1 /\ t.marked = s.marked \cup {m}
    OBVIOUS
  <2> HIDE DEF J, m, t
  <2>9. t.white \in Nat /\ Cardinality(InBoth) + t.white = Cardinality(t.marked)
    BY <2>4, <2>6, <2>8 DEF Looked
  <2>10. t.marked \in SUBSET Pegs /\ InBoth \subseteq t.marked
    BY <2>2, <2>3, <2>8 DEF Looked
  <2>11. \A k \in t.marked \ InBoth : \E j \in Pegs : WhiteFor(k, j)
    BY <2>7, <2>8 DEF Looked
  <2> QED
    BY <2>9, <2>10, <2>11 DEF Looked
<1> QED
  BY <1>1, <1>2

LEMMA LookStart == Looked(Unscored(target_code, user_guess))
<1>1. Unscored(target_code, user_guess) = [white |-> 0, marked |-> InBoth]
  BY BlackIs DEF Unscored
<1>2. InBoth \in SUBSET Pegs
  BY DEF InBoth
<1>3. Cardinality(InBoth) \in Nat
  BY <1>2, PegsAre
<1> QED
  BY <1>1, <1>2, <1>3 DEF Looked

LEMMA LookedAtAll ==
  \E s : Looked(s) /\ NumWhite(target_code, user_guess) = s.white
<1> DEFINE L(i, s) == LookUp(target_code, user_guess, i, s)
           s0 == Unscored(target_code, user_guess)
           s1 == L(1, s0)
           s2 == L(2, s1)
           s3 == L(3, s2)
           s4 == L(4, s3)
<1>1. {1, 2, 3, 4} \subseteq Pegs
  BY DEF Pegs, NUM_PEGS
<1>2. NumWhite(target_code, user_guess) = s4.white
  BY DEF NumWhite
<1>3. \A i \in Pegs : \A s : Looked(s) => Looked(L(i, s))
  BY LookStep
<1>4. Looked(s0)
  BY LookStart
<1> HIDE DEF L, s0
<1>5. Looked(s4)
  BY <1>1, <1>3, <1>4
<1> QED
  BY <1>2, <1>5

(* The loop of proj1, when it has looked at the first n pegs of the guess: *)
(* it has marked every place that has one of their colours.                *)
Swept(s, n) ==
  /\ s.white \in Nat
  /\ s.marked = InBoth \cup UNION {InCode(user_guess[i]) : i \in 1..n}
  /\ Cardinality(InBoth) + s.white = Cardinality(s.marked)

LEMMA SweepStep ==
  ASSUME NEW s, NEW n \in 1..4, Swept(s, n - 1)
  PROVE  Swept(MarkAll(target_code, user_guess, n, s), n)
<1> DEFINE J == InCode(user_guess[n]) \ s.marked
           t == [white |-> s.white + Cardinality(J), marked |-> s.marked \cup J]
<1>1. MarkAll(target_code, user_guess, n, s) = t
  BY BlackIs DEF MarkAll
<1>2. InBoth \in SUBSET Pegs /\ s.marked \in SUBSET Pegs /\ J \in SUBSET Pegs
  BY DEF Swept, InBoth, InCode
<1>3. Cardinality(s.marked \cup J) = Cardinality(s.marked) + Cardinality(J)
  <2>1. IsFiniteSet(s.marked) /\ IsFiniteSet(J)
    BY <1>2, PegsAre
  <2>2. Cardinality(s.marked \cap J) = 0
    <3>1. s.marked \cap J = {}
      OBVIOUS
    <3> QED
      BY <3>1, FS_EmptySet
  <2>3. Cardinality(s.marked \cup J)
          = Cardinality(s.marked) + Cardinality(J) - Cardinality(s.marked \cap J)
    BY <2>1, FS_Union
  <2>4. Cardinality(s.marked) \in Nat /\ Cardinality(J) \in Nat
    BY <2>1, FS_CardinalityType
  <2> HIDE DEF J
  <2> QED
    BY <2>2, <2>3, <2>4
<1>4. Cardinality(InBoth) \in Nat /\ Cardinality(s.marked) \in Nat /\ Cardinality(J) \in Nat
  BY <1>2, PegsAre
<1>5. s.marked \cup J = InBoth \cup UNION {InCode(user_guess[i]) : i \in 1..n}
  <2>1. 1..n = 1..(n - 1) \cup {n}
    OBVIOUS
  <2> QED
    BY <2>1 DEF Swept
<1>6. t.white = s.white + Cardinality(J) /\ t.marked = s.marked \cup J
  OBVIOUS
<1> HIDE DEF J, t
<1>7. t.white \in Nat /\ Cardinality(InBoth) + t.white = Cardinality(t.marked)
  BY <1>3, <1>4, <1>6 DEF Swept
<1> QED
  BY <1>1, <1>5, <1>6, <1>7 DEF Swept

LEMMA SweptAll ==
  \E s : Swept(s, 4) /\ NumWhiteProj1(target_code, user_guess) = s.white
<1> DEFINE M(i, s) == MarkAll(target_code, user_guess, i, s)
           s0 == Unscored(target_code, user_guess)
           s1 == M(1, s0)
           s2 == M(2, s1)
           s3 == M(3, s2)
           s4 == M(4, s3)
<1>1. NumWhiteProj1(target_code, user_guess) = s4.white
  BY DEF NumWhiteProj1
<1>2. \A i \in 1..4 : \A s : Swept(s, i - 1) => Swept(M(i, s), i)
  BY SweepStep
<1>3. Swept(s0, 0)
  <2>1. s0 = [white |-> 0, marked |-> InBoth]
    BY BlackIs DEF Unscored
  <2>2. InBoth \in SUBSET Pegs
    BY DEF InBoth
  <2>3. Cardinality(InBoth) \in Nat /\ 1..0 = {}
    BY <2>2, PegsAre
  <2> QED
    BY <2>1, <2>3 DEF Swept
<1> HIDE DEF M, s0
<1>4. Swept(s1, 1)
  BY <1>2, <1>3
<1>5. Swept(s2, 2)
  BY <1>2, <1>4
<1>6. Swept(s3, 3)
  BY <1>2, <1>5
<1>7. Swept(s4, 4)
  BY <1>2, <1>6
<1> QED
  BY <1>1, <1>7

(* The pegs that both codes have of a colour, by the rules, and their sum. *)
CommonPegs(c) == IF Cardinality(InCode(c)) <= Cardinality(InGuess(c))
                 THEN Cardinality(InCode(c)) ELSE Cardinality(InGuess(c))
Commons == [c \in Colors |-> CommonPegs(c)]

LEMMA CommonIs ==
  /\ \A c : /\ Uses(target_code, c) = Cardinality(InCode(c))
            /\ Uses(user_guess, c) = Cardinality(InGuess(c))
            /\ Common(c) = CommonPegs(c)
            /\ Cardinality(InCode(c)) \in Nat /\ Cardinality(InGuess(c)) \in Nat
  /\ NatTerms(Commons, Colors)
<1>1. ASSUME NEW c
      PROVE  /\ Uses(target_code, c) = Cardinality(InCode(c))
             /\ Uses(user_guess, c) = Cardinality(InGuess(c))
             /\ Common(c) = CommonPegs(c)
             /\ Cardinality(InCode(c)) \in Nat /\ Cardinality(InGuess(c)) \in Nat
  <2>1. /\ Uses(target_code, c) = Cardinality(InCode(c))
        /\ Uses(user_guess, c) = Cardinality(InGuess(c))
    BY DEF Uses, InCode, InGuess
  <2>2. InCode(c) \in SUBSET Pegs /\ InGuess(c) \in SUBSET Pegs
    BY DEF InCode, InGuess
  <2>3. Cardinality(InCode(c)) \in Nat /\ Cardinality(InGuess(c)) \in Nat
    BY <2>2, PegsAre
  <2> QED
    BY <2>1, <2>3, MinIs DEF Common, CommonPegs
<1> QED
  BY <1>1 DEF NatTerms, Commons, CommonPegs

(* Matches adds up Commons. *)
LEMMA MatchesIs ==
  \E g : Sums(g, Commons, Colors) /\ Matches = g[Colors]
<1> DEFINE P(g) == g = [s \in SUBSET Colors |->
                          IF s = {} THEN 0 ELSE Common(Some(s)) + g[s \ {Some(s)}]]
<1>1. Matches = (CHOOSE g : P(g))[Colors]
  BY DEF Matches, MapThenSumSet, MapThenFoldSet, Some
<1>2. ASSUME NEW g PROVE P(g) <=> Sums(g, Commons, Colors)
  <2>1. \A s \in SUBSET Colors :
          s # {} => Commons[Some(s)] = Common(Some(s))
    BY CommonIs DEF Commons, Some
  <2> QED
    BY <2>1 DEF Sums
<1>3. \E g : P(g)
  BY <1>2, SumsExist, ColorsAre
<1> HIDE DEF P
<1> QED
  BY <1>1, <1>2, <1>3

(* Term by term no greater, so is the sum.                                 *)
LEMMA SumsOrdered ==
  ASSUME NEW f1, NEW f2, NEW S, IsFiniteSet(S), NatTerms(f1, S), NatTerms(f2, S),
         \A i \in S : f1[i] <= f2[i],
         NEW g1, Sums(g1, f1, S), NEW g2, Sums(g2, f2, S)
  PROVE  g1[S] \in Nat /\ g2[S] \in Nat /\ g1[S] <= g2[S]
<1> DEFINE Good(s) == g1[s] \in Nat /\ g2[s] \in Nat /\ g1[s] <= g2[s]
           Bad == {s \in SUBSET S : ~Good(s)}
<1> USE DEF NatTerms
<1> SUFFICES ASSUME Bad # {} PROVE FALSE
  OBVIOUS
<1>1. PICK s \in Bad : \A r \in Bad : r \subseteq s => r = s
  <2>1. Bad \in SUBSET SUBSET S
    OBVIOUS
  <2> HIDE DEF Bad
  <2> QED
    BY <2>1, Minimal
<1>2. s # {}
  BY DEF Sums
<1> DEFINE y == Some(s)
           r == s \ {y}
<1>3. y \in s /\ r \in SUBSET S /\ r \notin Bad
  <2>1. IsFiniteSet(s)
    BY FS_Subset
  <2>2. y \in s
    BY <1>2, <2>1, SomeRemoved
  <2> QED
    BY <1>1, <2>2
<1>4. g1[s] = f1[y] + g1[r] /\ g2[s] = f2[y] + g2[r]
  BY <1>2 DEF Sums
<1>5. Good(r)
  BY <1>3
<1>6. f1[y] \in Nat /\ f2[y] \in Nat /\ f1[y] <= f2[y]
  BY <1>3
<1> HIDE DEF y, r
<1>7. Good(s)
  BY <1>4, <1>5, <1>6
<1> QED
  BY <1>7

(* Marks that each colour has no more, or no fewer, of than both codes     *)
(* have in common.                                                         *)
LEMMA MarksAgainstRules ==
  ASSUME Coloured, NEW M \in SUBSET Pegs
  PROVE  /\ Matches \in Nat
         /\ (\A c \in Colors : Cardinality(M \cap InCode(c)) <= CommonPegs(c))
              => Cardinality(M) <= Matches
         /\ (\A c \in Colors : CommonPegs(c) <= Cardinality(M \cap InCode(c)))
              => Matches <= Cardinality(M)
<1>1. PICK g1 : Sums(g1, Marks(M), Colors) /\ Cardinality(M) = g1[Colors]
  BY SumIs, ColorsAre, MarksAddUp
<1>2. PICK g2 : Sums(g2, Commons, Colors) /\ Matches = g2[Colors]
  BY MatchesIs
<1>3. NatTerms(Marks(M), Colors) /\ NatTerms(Commons, Colors)
  BY MarksType, CommonIs
<1>4. \A c \in Colors : /\ Marks(M)[c] = Cardinality(M \cap InCode(c))
                              /\ Commons[c] = CommonPegs(c) /\ Commons[c] \in Nat
  BY <1>3 DEF Marks, Commons, NatTerms
<1>5. Matches \in Nat
  <2>1. \A c \in Colors : Commons[c] <= Commons[c]
    <3>1. \A n \in Nat : n <= n
      OBVIOUS
    <3> QED
      BY <1>4, <3>1
  <2> QED
    BY <1>2, <1>3, <2>1, SumsOrdered, ColorsAre
<1>6. ASSUME \A c \in Colors : Cardinality(M \cap InCode(c)) <= CommonPegs(c)
      PROVE  Cardinality(M) <= Matches
  <2>1. \A c \in Colors : Marks(M)[c] <= Commons[c]
    BY <1>4, <1>6
  <2> QED
    BY <1>1, <1>2, <1>3, <2>1, SumsOrdered, ColorsAre
<1>7. ASSUME \A c \in Colors : CommonPegs(c) <= Cardinality(M \cap InCode(c))
      PROVE  Matches <= Cardinality(M)
  <2>1. \A c \in Colors : Commons[c] <= Marks(M)[c]
    BY <1>4, <1>7
  <2> QED
    BY <1>1, <1>2, <1>3, <2>1, SumsOrdered, ColorsAre
<1> QED
  BY <1>5, <1>6, <1>7

(* What proj2 marks of a colour: no more than black pegs and one, and the  *)
(* one only if the guess has another peg of the colour.                    *)
LEMMA LookedFits ==
  ASSUME NEW s, Looked(s), NEW c
  PROVE  Cardinality(s.marked \cap InCode(c)) <= CommonPegs(c)
<1> DEFINE F == s.marked \cap InCode(c)
           B == InBoth \cap InCode(c)
<1>1. /\ F \in SUBSET Pegs /\ B \in SUBSET Pegs
      /\ InCode(c) \in SUBSET Pegs /\ InGuess(c) \in SUBSET Pegs
      /\ InBoth \subseteq s.marked
  BY DEF Looked, InBoth, InCode, InGuess
<1>2. /\ IsFiniteSet(F) /\ Cardinality(F) \in Nat
      /\ IsFiniteSet(B) /\ Cardinality(B) \in Nat
      /\ IsFiniteSet(InCode(c)) /\ Cardinality(InCode(c)) \in Nat
      /\ IsFiniteSet(InGuess(c)) /\ Cardinality(InGuess(c)) \in Nat
  BY <1>1, PegsAre
<1>3. Cardinality(F) <= Cardinality(InCode(c))
  BY <1>2, FS_Subset
<1>4. B \subseteq InGuess(c)
  BY DEF InBoth, InCode, InGuess
<1>5. CASE F \subseteq B
  <2>1. F \subseteq InGuess(c)
    BY <1>4, <1>5
  <2>2. Cardinality(F) <= Cardinality(InGuess(c))
    BY <1>2, <2>1, FS_Subset
  <2> QED
    BY <1>2, <1>3, <2>2 DEF CommonPegs
<1>6. CASE ~(F \subseteq B)
  <2> DEFINE m == FirstOf(InCode(c))
  <2>1. ASSUME NEW k \in F \ B PROVE k = m /\ \E i \in InGuess(c) : i \notin B
    <3>1. PICK i \in Pegs : WhiteFor(k, i)
      BY <2>1 DEF Looked
    <3>2. InCode(user_guess[i]) # {} /\ k = FirstOf(InCode(user_guess[i])) /\ i \notin InBoth
      BY <3>1 DEF WhiteFor
    <3>3. InCode(user_guess[i]) \in SUBSET Pegs
      BY DEF InCode
    <3>4. k \in InCode(user_guess[i])
      BY <3>2, <3>3, FirstIs
    <3>5. user_guess[i] = c
      BY <2>1, <3>4 DEF InCode
    <3> QED
      BY <3>2, <3>5 DEF InGuess
  <2>2. PICK k \in F \ B : TRUE
    BY <1>6
  <2>3. k = m /\ \E i \in InGuess(c) : i \notin B
    BY <2>1
  <2>4. PICK i \in InGuess(c) : i \notin B
    BY <2>3
  <2> HIDE DEF m
  <2>5. F \subseteq B \cup {m} /\ m \notin B
    BY <2>1, <2>2, <2>3
  <2> HIDE DEF F, B
  <2>6. /\ IsFiniteSet(B \cup {m}) /\ Cardinality(B \cup {m}) = Cardinality(B) + 1
        /\ Cardinality(B \cup {i}) = Cardinality(B) + 1
    BY <1>2, <2>4, <2>5, FS_AddElement
  <2>7. Cardinality(F) <= Cardinality(B \cup {m})
    BY <2>5, <2>6, FS_Subset
  <2>8. Cardinality(B \cup {i}) <= Cardinality(InGuess(c))
    BY <1>2, <1>4, <2>4, FS_Subset
  <2> QED
    BY <1>2, <1>3, <2>6, <2>7, <2>8 DEF CommonPegs, F
<1> QED
  BY <1>5, <1>6

(* What proj1 marks of a colour: all or, when the guess does not use it,   *)
(* nothing.                                                                *)
LEMMA SweptFits ==
  ASSUME NEW s, Swept(s, 4), NEW c
  PROVE  /\ s.marked \in SUBSET Pegs
         /\ CommonPegs(c) <= Cardinality(s.marked \cap InCode(c))
         /\ Cardinality(InCode(c)) <= 1 /\ Cardinality(InGuess(c)) <= 1
              => Cardinality(s.marked \cap InCode(c)) <= CommonPegs(c)
<1>1. Pegs = 1..4
  BY PegsAre
<1>2. s.marked \in SUBSET Pegs
  BY DEF Swept, InBoth, InCode
<1>3. /\ IsFiniteSet(InCode(c)) /\ Cardinality(InCode(c)) \in Nat
      /\ IsFiniteSet(InGuess(c)) /\ Cardinality(InGuess(c)) \in Nat
  BY PegsAre DEF InCode, InGuess
<1>4. CASE InGuess(c) = {}
  <2>1. s.marked \cap InCode(c) = {}
    <3>1. ASSUME NEW m \in s.marked, m \in InCode(c) PROVE FALSE
      BY <1>1, <1>4, <3>1 DEF Swept, InBoth, InCode, InGuess
    <3> QED
      BY <3>1
  <2>2. CommonPegs(c) = 0 /\ Cardinality(s.marked \cap InCode(c)) = 0
    BY <1>3, <1>4, <2>1, FS_EmptySet DEF CommonPegs
  <2> QED
    BY <1>2, <2>2
<1>5. CASE InGuess(c) # {}
  <2>1. PICK i \in 1..4 : user_guess[i] = c
    BY <1>1, <1>5 DEF InGuess
  <2>2. s.marked \cap InCode(c) = InCode(c)
    BY <2>1 DEF Swept
  <2>3. Cardinality(InGuess(c)) # 0
    BY <1>3, <1>5, FS_EmptySet
  <2> QED
    BY <1>2, <1>3, <2>2, <2>3 DEF CommonPegs
<1> QED
  BY <1>4, <1>5

LEMMA Proj2Fits == ASSUME Coloured PROVE NeverOverscores
<1>1. PICK s : Looked(s) /\ NumWhite(target_code, user_guess) = s.white
  BY LookedAtAll
<1>2. black + white = Cardinality(s.marked) /\ s.marked \in SUBSET Pegs
  BY <1>1, BlackIs DEF black, white, Looked
<1>3. \A c \in Colors : Cardinality(s.marked \cap InCode(c)) <= CommonPegs(c)
  BY <1>1, LookedFits
<1>4. Cardinality(s.marked) <= Matches
  BY <1>2, <1>3, MarksAgainstRules
<1> QED
  BY <1>2, <1>4 DEF NeverOverscores

LEMMA Proj1Fits == ASSUME Coloured PROVE OverscoresRepeatsOnlyProj1
<1>1. PICK s : Swept(s, 4) /\ NumWhiteProj1(target_code, user_guess) = s.white
  BY SweptAll
<1>2. s.marked \in SUBSET Pegs
  BY <1>1, SweptFits
<1> DEFINE shown == black + whiteProj1
<1>3. shown = Cardinality(s.marked)
  BY <1>1, BlackIs DEF black, whiteProj1, Swept
<1>4. \A c \in Colors : CommonPegs(c) <= Cardinality(s.marked \cap InCode(c))
  BY <1>1, SweptFits
<1>5. Matches \in Nat /\ Matches <= Cardinality(s.marked)
  BY <1>2, <1>4, MarksAgainstRules
<1>6. Cardinality(s.marked) \in 0..4 /\ NUM_PEGS = 4
  BY <1>2, PegsAre DEF NUM_PEGS
<1>7. ASSUME NoRepeats PROVE shown = Matches
  <2>1. \A c \in Colors : Cardinality(InCode(c)) <= 1 /\ Cardinality(InGuess(c)) <= 1
    BY <1>7, CommonIs DEF NoRepeats
  <2>2. \A c \in Colors : Cardinality(s.marked \cap InCode(c)) <= CommonPegs(c)
    BY <1>1, <2>1, SweptFits
  <2>3. Cardinality(s.marked) <= Matches
    BY <1>2, <2>2, MarksAgainstRules
  <2> QED
    BY <1>3, <1>5, <1>6, <2>3
<1> HIDE DEF shown
<1>8. shown \in Matches..NUM_PEGS
  BY <1>3, <1>5, <1>6
<1> QED
  BY <1>7, <1>8 DEF OverscoresRepeatsOnlyProj1, shown

LEMMA ColouredAlways == GuessSpec => []Coloured
<1>1. GuessInit => Coloured
  BY DEF GuessInit, Coloured
<1>2. Coloured /\ [GuessNext]_<<target_code, user_guess>> => Coloured'
  BY DEF Coloured, GuessNext, Codes
<1> QED
  BY <1>1, <1>2, PTL DEF GuessSpec

(* For any number of colours proj2 never shows more pegs than the rules    *)
(* allow (NeverOverscores): of a colour it marks the black pegs and at     *)
(* most one more.                                                          *)
THEOREM Proj2Scores == GuessSpec => []NeverOverscores
<1>1. Coloured => NeverOverscores
  BY Proj2Fits
<1> QED
  BY <1>1, ColouredAlways, PTL

(* For any number of colours proj1 shows no fewer pegs than the rules      *)
(* allow and no more than there are, and exactly those when no colour      *)
(* repeats (OverscoresRepeatsOnlyProj1): it marks every peg of a colour    *)
(* that the guess uses.                                                    *)
THEOREM Proj1Scores == GuessSpec => []OverscoresRepeatsOnlyProj1
<1>1. Coloured => OverscoresRepeatsOnlyProj1
  BY Proj1Fits
<1> QED
  BY <1>1, ColouredAlways, PTL
=============================================================================
