--------------------------- MODULE CS421NetProofs ---------------------------
(***************************************************************************)
(* Theorems about the virtual network device, for any number of CPUs.      *)
(***************************************************************************)
EXTENDS CS421Net, FiniteSetTheorems, TLAPS

LEMMA InitTypeOK == Init => TypeOK
<1> SUFFICES ASSUME Init PROVE TypeOK
  OBVIOUS
<1>1. <<>> \in Seq(Nat \ {NULL}) /\ <<>> \in Seq(Nat) /\ {} \in SUBSET Nat
  OBVIOUS
<1> QED
  BY <1>1 DEF Init, Idle, TypeOK, NULL, FilterPc, WorkerPc, BottomPc, DriverPc

LEMMA LoadedTypeOK == LoadedInit => TypeOK
<1> SUFFICES ASSUME LoadedInit PROVE TypeOK
  OBVIOUS
<1>1. <<>> \in Seq(Nat \ {NULL}) /\ <<>> \in Seq(Nat) /\ {} \in SUBSET Nat
  OBVIOUS
<1> QED
  BY <1>1 DEF LoadedInit, Idle, TypeOK, NULL, FilterPc, WorkerPc, BottomPc,
              DriverPc

LEMMA StepTypeOK == TypeOK /\ [Next]_vars => TypeOK'
<1> SUFFICES ASSUME TypeOK, [Next]_vars PROVE TypeOK'
  OBVIOUS
<1> USE CompleteAllAssumption
        DEF TypeOK, NULL, FilterPc, WorkerPc, BottomPc, DriverPc,
            filterVars, workVars, bottomVars, driverVars, FilterStep, AddTo, WorkStep, TriggerTo,
            Leaves, BottomStep, Acknowledge, DriverStep, Switch,
            SetRetrieved, FreeList
<1>1. ASSUME NEW c \in CPUs, Filter(c) PROVE TypeOK'
  <2>1. CASE Capture(c)
    BY <2>1 DEF Capture
  <2>2. CASE AddTail(c)
    BY <2>2 DEF AddTail
  <2>3. CASE QueueWork(c)
    BY <2>3 DEF QueueWork
  <2> QED
    BY <1>1, <2>1, <2>2, <2>3 DEF Filter
<1>2. CASE Worker
  <2>1. CASE StartWork
    BY <2>1 DEF StartWork
  <2>2. CASE TriggerIrq
    BY <2>2 DEF TriggerIrq
  <2>3. CASE TriggerFails
    <3>1. {list[i] : i \in 1..Len(list) \cap {1}} \in SUBSET Nat
      OBVIOUS
    <3> QED
      BY <2>3, <3>1 DEF TriggerFails
  <2>4. CASE WaitRetrieved
    BY <2>4 DEF WaitRetrieved
  <2>5. CASE ReinitRetrieved
    BY <2>5 DEF ReinitRetrieved
  <2>6. CASE RemoveOldest
    BY <2>6 DEF RemoveOldest
  <2> QED
    BY <1>2, <2>1, <2>2, <2>3, <2>4, <2>5, <2>6 DEF Worker
<1>3. CASE Bottom
  <2>1. CASE RunBottom
    BY <2>1 DEF RunBottom
  <2>2. CASE GetOldest
    <3>1. CASE list = <<>>
      <4>1. BottomStep("fetch", "idle") /\ oldest' = 0
              /\ UNCHANGED <<fetched, retrieved, irq>>
        BY <2>2, <3>1 DEF GetOldest
      <4> QED
        BY <4>1
    <3>2. CASE list # <<>>
      <4>1. Head(list) \in Nat
        BY <3>2
      <4>2. Append(fetched, Head(list)) \in Seq(Nat)
        BY <4>1
      <4> QED
        BY <2>2, <3>2, <4>1, <4>2 DEF GetOldest
    <3> QED
      BY <3>1, <3>2
  <2>3. CASE CompleteRetrieved
    BY <2>3 DEF CompleteRetrieved
  <2>4. CASE ReadLen
    BY <2>4 DEF ReadLen
  <2>5. CASE UseData
    BY <2>5 DEF UseData
  <2> QED
    BY <1>3, <2>1, <2>2, <2>3, <2>4, <2>5 DEF Bottom
<1>4. CASE Probe
  <2>1. CASE RequestIrq
    BY <2>1 DEF RequestIrq
  <2>2. CASE EnableCapture
    BY <2>2 DEF EnableCapture
  <2>3. CASE EnableReinit
    BY <2>3 DEF EnableReinit
  <2> QED
    BY <1>4, <2>1, <2>2, <2>3 DEF Probe
<1>5. CASE Remove
  <2>1. CASE DisableCapture
    BY <2>1 DEF DisableCapture
  <2>2. CASE DisableComplete
    BY <2>2 DEF DisableComplete
  <2>3. CASE FreeIrq
    BY <2>3 DEF FreeIrq
  <2>4. CASE IrqFreed
    BY <2>4 DEF IrqFreed
  <2> QED
    BY <1>5, <2>1, <2>2, <2>3, <2>4 DEF Remove
<1>6. CASE Exit
  <2>1. CASE ExitUnregister
    BY <2>1 DEF ExitUnregister
  <2>2. CASE ExitComplete
    BY <2>2 DEF ExitComplete
  <2>3. CASE ExitCancel
    BY <2>3 DEF ExitCancel
  <2>4. CASE ExitFree
    <3>1. <<>> \in Seq(Nat \ {NULL})
      OBVIOUS
    <3> QED
      BY <2>4, <3>1 DEF ExitFree
  <2> QED
    BY <1>6, <2>1, <2>2, <2>3, <2>4 DEF Exit
<1>7. CASE UNCHANGED vars
  BY <1>7 DEF vars
<1> QED
  BY <1>1, <1>2, <1>3, <1>4, <1>5, <1>6, <1>7 DEF Next, NetNext

(* Every variable keeps its type. *)
THEOREM TypeCorrect == Spec => []TypeOK
  BY InitTypeOK, StepTypeOK, PTL DEF Spec

-----------------------------------------------------------------------------
(***************************************************************************)
(* WorkerHasEntry.  How a step of filter_tg changes the number of CPUs     *)
(* between list_add_tail and queue_work.                                   *)
(***************************************************************************)
LEMMA AddedFinite ==
  IsFiniteSet(In("added")) /\ Cardinality(In("added")) \in Nat
<1>1. In("added") \subseteq CPUs
  BY DEF In
<1> QED
  BY <1>1, CPUsAssumption, FS_Subset, FS_CardinalityType

LEMMA OneMoreAdded ==
  ASSUME TypeOK, NEW c \in CPUs, filter[c] # "added",
         filter' = [filter EXCEPT ![c] = "added"]
  PROVE  Cardinality(In("added"))' = Cardinality(In("added")) + 1
<1>1. c \notin In("added") /\ In("added")' = In("added") \cup {c}
  BY DEF TypeOK, In
<1> QED
  BY <1>1, AddedFinite, FS_AddElement

LEMMA OneLessAdded ==
  ASSUME TypeOK, NEW c \in CPUs, filter[c] = "added",
         filter' = [filter EXCEPT ![c] = "idle"]
  PROVE  Cardinality(In("added"))' = Cardinality(In("added")) - 1
<1>1. c \in In("added") /\ In("added")' = In("added") \ {c}
  BY DEF TypeOK, In
<1> QED
  BY <1>1, AddedFinite, FS_RemoveElement

LEMMA SameAdded ==
  ASSUME filter' = filter \/ \E c \in CPUs : filter[c] = "idle"
                     /\ filter' = [filter EXCEPT ![c] = "captured"],
         TypeOK
  PROVE  Cardinality(In("added"))' = Cardinality(In("added"))
<1>1. In("added")' = In("added")
  BY DEF TypeOK, In
<1> QED
  BY <1>1

(* Appending pays for the work before it is queued, a work is queued only  *)
(* once, and it frees one entry: the steps of the device keep the balance. *)
LEMMA NetKeepsEntries ==
  TypeOK /\ WorkerHasEntry /\ NetNext => WorkerHasEntry'
<1> SUFFICES ASSUME TypeOK, WorkerHasEntry, NetNext PROVE WorkerHasEntry'
  OBVIOUS
<1> DEFINE n == Cardinality(In("added"))
<1>n. n \in Nat
  BY AddedFinite
<1>l. Len(list) \in Nat
  BY DEF TypeOK
<1> USE DEF WorkerHasEntry, WorksOwed, filterVars, workVars, driverVars,
            FilterStep, AddTo, WorkStep, TriggerTo,
            Leaves, BottomStep, Acknowledge, DriverStep, Switch,
            SetRetrieved, FreeList
<1>1. ASSUME NEW c \in CPUs, Filter(c) PROVE WorkerHasEntry'
  <2>1. CASE Capture(c)
    <3>1. n' = n
      BY <2>1, SameAdded DEF Capture
    <3> HIDE DEF n
    <3> QED
      BY <2>1, <3>1 DEF Capture, n
  <2>2. CASE AddTail(c)
    <3>1. n' = n + 1
      BY <2>2, OneMoreAdded DEF AddTail
    <3>2. Len(list') = Len(list) + 1
      BY <2>2 DEF AddTail, TypeOK
    <3> QED
      BY <2>2, <3>1, <3>2, <1>n, <1>l DEF AddTail
  <2>3. CASE QueueWork(c)
    <3>1. n' = n - 1
      BY <2>3, OneLessAdded DEF QueueWork
    <3> QED
      BY <2>3, <3>1, <1>n, <1>l DEF QueueWork
  <2> QED
    BY <1>1, <2>1, <2>2, <2>3 DEF Filter
<1>2. CASE Worker
  <2>0. n' = n
    BY <1>2, SameAdded DEF Worker, StartWork, TriggerIrq, TriggerFails,
                           WaitRetrieved, ReinitRetrieved, RemoveOldest
  <2>1. CASE StartWork
    BY <2>0, <2>1, <1>n, <1>l DEF StartWork
  <2>2. CASE TriggerIrq \/ TriggerFails \/ WaitRetrieved \/ ReinitRetrieved
    BY <2>0, <2>2, <1>n, <1>l
       DEF TriggerIrq, TriggerFails, WaitRetrieved, ReinitRetrieved
  <2>3. CASE RemoveOldest
    <3>1. Len(list') = IF list = <<>> THEN Len(list) ELSE Len(list) - 1
      BY <2>3 DEF RemoveOldest, TypeOK
    <3>2. Len(list) >= 1
      BY <2>3, <1>n, <1>l DEF RemoveOldest
    <3> QED
      BY <2>0, <2>3, <3>1, <3>2, <1>n, <1>l DEF RemoveOldest
  <2> QED
    BY <1>2, <2>1, <2>2, <2>3 DEF Worker
<1>3. CASE Bottom
  <2>1. n' = n
    BY <1>3, SameAdded DEF Bottom, RunBottom, GetOldest, CompleteRetrieved,
                           ReadLen, UseData
  <2> QED
    BY <1>3, <2>1, <1>n, <1>l DEF Bottom, RunBottom, GetOldest,
                           CompleteRetrieved, ReadLen, UseData
<1> QED
  BY <1>1, <1>2, <1>3 DEF NetNext

(* Capture is on only between enable and disable, and cs421net_exit has    *)
(* stopped every other actor when it frees the list.                       *)
DriverOK ==
  /\ enabled => driver \in {"enabling", "loaded"}
  /\ driver \in {"unregistered", "completed", "cancelled", "exited"}
       => \A c \in CPUs : filter[c] = "idle"
  /\ driver \in {"cancelled", "exited"} => ~pending
  /\ driver = "exited" => worker = "idle"

EntryInv == TypeOK /\ DriverOK /\ WorkerHasEntry

LEMMA StepDriverOK == TypeOK /\ DriverOK /\ [Next]_vars => DriverOK'
<1> SUFFICES ASSUME TypeOK, DriverOK, [Next]_vars PROVE DriverOK'
  OBVIOUS
<1> USE DEF DriverOK, filterVars, workVars, bottomVars, driverVars,
            FilterStep, AddTo, WorkStep, TriggerTo,
            Leaves, BottomStep, Acknowledge, DriverStep, Switch,
            SetRetrieved, FreeList
<1>1. ASSUME NEW c \in CPUs, Filter(c) PROVE DriverOK'
  BY <1>1 DEF Filter, Capture, AddTail, QueueWork, TypeOK
<1>2. CASE Worker
  BY <1>2 DEF Worker, StartWork, TriggerIrq, TriggerFails, WaitRetrieved,
              ReinitRetrieved, RemoveOldest
<1>3. CASE Bottom
  BY <1>3 DEF Bottom, RunBottom, GetOldest, CompleteRetrieved, ReadLen, UseData
<1>4. CASE Probe
  BY <1>4 DEF Probe, RequestIrq, EnableCapture, EnableReinit
<1>5. CASE Remove
  BY <1>5 DEF Remove, DisableCapture, DisableComplete, FreeIrq, IrqFreed
<1>6. CASE Exit
  BY <1>6 DEF Exit, ExitUnregister, ExitComplete, ExitCancel, ExitFree, In
<1>7. CASE UNCHANGED vars
  BY <1>7 DEF vars
<1> QED
  BY <1>1, <1>2, <1>3, <1>4, <1>5, <1>6, <1>7 DEF Next, NetNext

LEMMA DriverKeepsEntries ==
  TypeOK /\ DriverOK /\ WorkerHasEntry /\ (Probe \/ Remove \/ Exit)
    => WorkerHasEntry'
<1> SUFFICES ASSUME TypeOK, DriverOK, WorkerHasEntry, Probe \/ Remove \/ Exit
             PROVE WorkerHasEntry'
  OBVIOUS
<1> DEFINE n == Cardinality(In("added"))
<1>n. n \in Nat
  BY AddedFinite
<1>l. Len(list) \in Nat
  BY DEF TypeOK
<1> USE DEF WorkerHasEntry, WorksOwed, filterVars, workVars, driverVars,
            FilterStep, AddTo, WorkStep, TriggerTo,
            Leaves, BottomStep, Acknowledge, DriverStep, Switch,
            SetRetrieved, FreeList
<1>0. filter' = filter
  BY DEF Probe, RequestIrq, EnableCapture, EnableReinit, Remove,
         DisableCapture, DisableComplete, FreeIrq, IrqFreed, Exit,
         ExitUnregister, ExitComplete, ExitCancel, ExitFree
<1>1. n' = n
  BY <1>0, SameAdded
<1>2. CASE Probe
  BY <1>1, <1>2, <1>n, <1>l DEF Probe, RequestIrq, EnableCapture, EnableReinit
<1>3. CASE Remove
  BY <1>1, <1>3, <1>n, <1>l
     DEF Remove, DisableCapture, DisableComplete, FreeIrq, IrqFreed
<1>4. CASE ExitUnregister \/ ExitComplete \/ ExitCancel
  BY <1>1, <1>4, <1>n, <1>l DEF ExitUnregister, ExitComplete, ExitCancel
<1>5. CASE ExitFree
  <2>1. In("added") = {}
    BY <1>5 DEF DriverOK, ExitFree, In
  <2>2. n = 0
    BY <2>1, FS_EmptySet
  <2>3. ~pending' /\ worker' = "idle"
    BY <1>5 DEF DriverOK, ExitFree
  <2>4. Len(list') = 0
    BY <1>5 DEF ExitFree
  <2> QED
    BY <1>1, <2>2, <2>3, <2>4
<1> QED
  BY <1>2, <1>3, <1>4, <1>5 DEF Exit

LEMMA EntryInvariance == Spec => []EntryInv
<1>1. Init => EntryInv
  <2> SUFFICES ASSUME Init PROVE EntryInv
    OBVIOUS
  <2>1. In("added") = {}
    BY DEF Init, Idle, In
  <2>2. Cardinality(In("added")) = 0 /\ Len(list) = 0
    BY <2>1, FS_EmptySet DEF Init, Idle
  <2>3. WorkerHasEntry
    BY <2>2 DEF Init, Idle, WorkerHasEntry, WorksOwed
  <2> QED
    BY <2>3, InitTypeOK DEF EntryInv, DriverOK, Init, Idle
<1>2. EntryInv /\ [Next]_vars => EntryInv'
  <2> SUFFICES ASSUME EntryInv, [Next]_vars PROVE EntryInv'
    OBVIOUS
  <2>1. CASE UNCHANGED vars
    BY <2>1, StepTypeOK, StepDriverOK
       DEF EntryInv, WorkerHasEntry, WorksOwed, In, vars
  <2> QED
    BY <2>1, StepTypeOK, StepDriverOK, NetKeepsEntries, DriverKeepsEntries
       DEF EntryInv, Next
<1> QED
  BY <1>1, <1>2, PTL DEF Spec

(* Works never outnumber the entries they will free, over every load,      *)
(* removal and exit.                                                       *)
THEOREM EntriesForWorks == Spec => []WorkerHasEntry
  BY EntryInvariance, PTL DEF EntryInv

-----------------------------------------------------------------------------
(***************************************************************************)
(* While the driver stays loaded.                                          *)
(***************************************************************************)
SteadyInv == TypeOK /\ WorkerHasEntry /\ handler /\ Lockstep

LEMMA SteadyInit == LoadedInit => SteadyInv
<1> SUFFICES ASSUME LoadedInit PROVE SteadyInv
  OBVIOUS
<1>1. In("added") = {}
  BY DEF LoadedInit, Idle, In
<1>2. Cardinality(In("added")) = 0 /\ Len(list) = 0
  BY <1>1, FS_EmptySet DEF LoadedInit, Idle
<1>3. WorkerHasEntry
  BY <1>2 DEF LoadedInit, Idle, WorkerHasEntry, WorksOwed
<1>4. handler /\ Lockstep
  BY DEF LoadedInit, Idle, Lockstep
<1> QED
  BY <1>3, <1>4, LoadedTypeOK DEF SteadyInv

LEMMA LockstepStep ==
  TypeOK /\ WorkerHasEntry /\ handler /\ Lockstep /\ NetNext
    => handler' /\ Lockstep'
<1> SUFFICES ASSUME TypeOK, WorkerHasEntry, handler, Lockstep, NetNext
             PROVE handler' /\ Lockstep'
  OBVIOUS
<1> USE DEF Lockstep, TypeOK, WorkerPc, BottomPc, filterVars, workVars,
            bottomVars, driverVars, FilterStep, AddTo, WorkStep, TriggerTo,
            Leaves, BottomStep, Acknowledge, DriverStep, Switch,
            SetRetrieved, FreeList
<1>1. ASSUME NEW c \in CPUs, Filter(c) PROVE handler' /\ Lockstep'
  <2>1. UNCHANGED <<worker, retrieved, handler, irq, bottom>>
    BY <1>1 DEF Filter, Capture, AddTail, QueueWork
  <2> QED
    BY <2>1
<1>2. CASE Worker
  <2>1. CASE StartWork
    BY <2>1 DEF StartWork
  <2>2. CASE TriggerIrq
    BY <2>2 DEF TriggerIrq
  <2>3. CASE TriggerFails
    BY <2>3 DEF TriggerFails
  <2>4. CASE WaitRetrieved
    BY <2>4 DEF WaitRetrieved
  <2>5. CASE ReinitRetrieved
    BY <2>5 DEF ReinitRetrieved
  <2>6. CASE RemoveOldest
    BY <2>6 DEF RemoveOldest
  <2> QED
    BY <1>2, <2>1, <2>2, <2>3, <2>4, <2>5, <2>6 DEF Worker
<1>3. CASE Bottom
  <2>1. CASE RunBottom
    BY <2>1 DEF RunBottom
  <2>2. CASE GetOldest
    <3>1. worker = "wait"
      BY <2>2 DEF GetOldest
    <3>2. list # <<>>
      BY <3>1, AddedFinite DEF WorkerHasEntry, WorksOwed
    <3> QED
      BY <2>2, <3>2 DEF GetOldest
  <2>3. CASE CompleteRetrieved
    BY <2>3 DEF CompleteRetrieved
  <2>4. CASE ReadLen
    BY <2>4 DEF ReadLen
  <2>5. CASE UseData
    BY <2>5 DEF UseData
  <2> QED
    BY <1>3, <2>1, <2>2, <2>3, <2>4, <2>5 DEF Bottom
<1> QED
  BY <1>1, <1>2, <1>3 DEF NetNext

(* The interrupt thread and the worker take turns through the completion.  *)
THEOREM SteadyInvariance == SteadySpec => []SteadyInv
<1>1. SteadyInv /\ [NetNext]_vars => SteadyInv'
  <2> SUFFICES ASSUME SteadyInv, [NetNext]_vars PROVE SteadyInv'
    OBVIOUS
  <2>1. CASE UNCHANGED vars
    BY <2>1, StepTypeOK
       DEF SteadyInv, Lockstep, WorkerHasEntry, WorksOwed, In, vars
  <2> QED
    BY <2>1, StepTypeOK, NetKeepsEntries, LockstepStep DEF SteadyInv, Next
<1> QED
  BY SteadyInit, <1>1, PTL DEF SteadySpec

(* Interrupt thread and worker never run ahead of each other. *)
THEOREM SteadyLockstep == SteadySpec => []Lockstep
  BY SteadyInvariance, PTL DEF SteadyInv

(* The interrupt thread never finds the list empty. *)
THEOREM SteadyNeverNull == SteadySpec => []NeverNull
<1>1. SteadyInv => NeverNull
  <2> SUFFICES ASSUME SteadyInv, bottom = "fetch" PROVE list # <<>>
    BY DEF NeverNull
  <2>1. worker = "wait"
    BY DEF SteadyInv, Lockstep
  <2> QED
    BY <2>1, AddedFinite DEF SteadyInv, TypeOK, WorkerHasEntry, WorksOwed
<1> QED
  BY <1>1, SteadyInvariance, PTL

(* Every step of the device and its driver is a step of the queue that     *)
(* PacketQueue promises, or leaves it alone.                               *)
LEMMA StepRefines ==
  ASSUME SteadyInv, [NetNext]_vars
  PROVE  [PQ!Next]_(PQ!vars)
<1> USE DEF SteadyInv, Lockstep, HeadSettled, filterVars, workVars,
            bottomVars, driverVars, FilterStep, AddTo, WorkStep, TriggerTo,
            Leaves, BottomStep, Acknowledge, DriverStep, Switch,
            SetRetrieved, FreeList
<1>0. worker # "idle" => list # <<>>
  BY AddedFinite DEF TypeOK, WorkerHasEntry, WorksOwed
<1>1. ASSUME NEW c \in CPUs, Filter(c) PROVE PQ!Arrive \/ UNCHANGED PQ!vars
  BY <1>1 DEF Filter, Capture, AddTail, QueueWork, PQ!Arrive, PQ!vars
<1>2. CASE Worker
  <2>1. CASE StartWork \/ TriggerIrq \/ WaitRetrieved \/ ReinitRetrieved
    <3>1. UNCHANGED <<list, arrived, fetched, unannounced, bottom>>
      BY <2>1 DEF StartWork, TriggerIrq, WaitRetrieved, ReinitRetrieved
    <3>2. HeadSettled' <=> HeadSettled
      <4>1. CASE StartWork
        BY <3>1, <4>1 DEF StartWork
      <4>2. CASE TriggerIrq
        BY <3>1, <4>2 DEF TriggerIrq
      <4>3. CASE WaitRetrieved
        BY <3>1, <4>3 DEF WaitRetrieved
      <4>4. CASE ReinitRetrieved
        BY <3>1, <4>4 DEF ReinitRetrieved
      <4> QED
        BY <2>1, <4>1, <4>2, <4>3, <4>4
    <3> QED
      BY <3>1, <3>2 DEF PQ!vars
  <2>2. CASE TriggerFails
    <3>1. list # <<>> /\ Len(list) \in Nat \ {0}
      BY <1>0, <2>2 DEF TriggerFails, TypeOK
    <3>2. {list[i] : i \in 1..Len(list) \cap {1}} = {Head(list)}
      BY <3>1 DEF TypeOK
    <3>3. PQ!GiveUp
      BY <2>2, <3>1, <3>2 DEF TriggerFails, PQ!GiveUp
    <3> QED
      BY <3>3 DEF PQ!Next
  <2>3. CASE RemoveOldest
    <3>1. PQ!Free
      BY <1>0, <2>3 DEF RemoveOldest, PQ!Free
    <3> QED
      BY <3>1 DEF PQ!Next
  <2> QED
    BY <1>2, <2>1, <2>2, <2>3 DEF Worker
<1>3. CASE Bottom
  <2>1. CASE GetOldest
    <3>0. bottom = "fetch"
      BY <2>1 DEF GetOldest
    <3>1. list # <<>> /\ worker = "wait" /\ retrieved = 0
      BY <1>0, <3>0
    <3>a. /\ BottomStep("fetch", "complete")
          /\ fetched' = Append(fetched, Head(list))
      BY <2>1, <3>1 DEF GetOldest
    <3>b. /\ bottom' = "complete"
          /\ UNCHANGED <<list, arrived, unannounced>>
      BY <3>a
    <3>c. ~HeadSettled /\ (HeadSettled' <=> TRUE)
      BY <3>0, <3>1, <3>b
    <3>2. PQ!Deliver
      BY <3>1, <3>a, <3>b, <3>c DEF PQ!Deliver
    <3> QED
      BY <3>2 DEF PQ!Next
  <2>2. CASE RunBottom \/ ReadLen \/ UseData
    BY <2>2 DEF RunBottom, ReadLen, UseData, PQ!vars
  <2>3. CASE CompleteRetrieved
    BY <2>3 DEF CompleteRetrieved, PQ!vars
  <2> QED
    BY <1>3, <2>1, <2>2, <2>3 DEF Bottom
<1>4. CASE UNCHANGED vars
  BY <1>4 DEF vars, PQ!vars
<1> QED
  BY <1>1, <1>2, <1>3, <1>4 DEF NetNext, PQ!Next

(* While a driver stays loaded, the device is a packet queue. *)
THEOREM SteadyRefinement == SteadySpec => IsPacketQueue
<1>1. LoadedInit => PQ!Init
  BY DEF LoadedInit, Idle, PQ!Init, HeadSettled
<1> QED
  BY <1>1, StepRefines, SteadyInvariance, PTL
     DEF SteadySpec, IsPacketQueue, PQ!Spec

-----------------------------------------------------------------------------
(***************************************************************************)
(* The queue contract (PacketQueue) hands a packet out once and loses none.*)
(***************************************************************************)
QueueInv == PQ!TypeOK /\ PQ!Numbered /\ PQ!DeliveredOnce

(* What the queue holds, before and after one step, in one place: the      *)
(* conjunct of Numbered about packets fetched and those given up follows   *)
(* for every action from the packet the action settles.                    *)
LEMMA QueueInit == PQ!Init => QueueInv
<1> SUFFICES ASSUME PQ!Init PROVE QueueInv
  OBVIOUS
<1>1. <<>> \in Seq(Nat) /\ {} \in SUBSET Nat
  OBVIOUS
<1>2. PQ!TypeOK
  BY <1>1 DEF PQ!Init, PQ!TypeOK
<1>3. Len(list) = 0 /\ Len(fetched) = 0 /\ arrived = 0
  BY DEF PQ!Init
<1>4. PQ!Freed = 0
  BY <1>3 DEF PQ!Freed
<1>5. ~HeadSettled
  BY Zenon DEF PQ!Init
<1>6. PQ!Numbered
  BY <1>3, <1>4, <1>5 DEF PQ!Init, PQ!Numbered
<1> QED
  BY <1>2, <1>3, <1>6 DEF QueueInv, PQ!DeliveredOnce

LEMMA QueueArrive == QueueInv /\ PQ!Arrive => QueueInv'
<1> SUFFICES ASSUME QueueInv, PQ!Arrive PROVE QueueInv'
  OBVIOUS
<1> USE DEF QueueInv, PQ!TypeOK, PQ!Arrive
<1>1. /\ PQ!TypeOK' /\ Len(list') = Len(list) + 1
      /\ \A i \in 1..Len(list) : list'[i] = list[i]
      /\ list'[Len(list) + 1] = arrived + 1
  OBVIOUS
<1>2. PQ!Freed' = PQ!Freed /\ PQ!Freed \in Nat
  BY <1>1 DEF PQ!Freed, PQ!Numbered
<1>3. \A i \in 1..Len(list') : list'[i] = PQ!Freed' + i
  <2> SUFFICES ASSUME NEW i \in 1..Len(list') PROVE list'[i] = PQ!Freed' + i
    OBVIOUS
  <2>1. CASE i = Len(list) + 1
    BY <1>1, <1>2, <2>1 DEF PQ!Freed, PQ!Numbered
  <2>2. CASE i \in 1..Len(list)
    BY <1>1, <1>2, <2>2 DEF PQ!Numbered
  <2> QED
    BY <1>1, <2>1, <2>2
<1>4. PQ!Numbered'
  BY <1>1, <1>2, <1>3 DEF PQ!Numbered, PQ!Entries
<1> QED
  BY <1>1, <1>4 DEF PQ!DeliveredOnce

LEMMA QueueDeliver == QueueInv /\ PQ!Deliver => QueueInv'
<1> SUFFICES ASSUME QueueInv, PQ!Deliver PROVE QueueInv'
  OBVIOUS
<1> USE DEF QueueInv, PQ!TypeOK, PQ!Deliver
<1>1. Head(list) = PQ!Freed + 1 /\ PQ!Freed \in Nat /\ PQ!Freed' = PQ!Freed
  BY DEF PQ!Numbered, PQ!Freed
<1>2. /\ PQ!TypeOK' /\ Len(fetched') = Len(fetched) + 1
      /\ \A i \in 1..Len(fetched) : fetched'[i] = fetched[i]
      /\ fetched'[Len(fetched) + 1] = PQ!Freed + 1
  BY <1>1
<1>3. \A i \in 1..Len(fetched') : fetched'[i] <= PQ!Freed' + 1
  BY <1>1, <1>2 DEF PQ!Numbered
<1>4. PQ!Entries(fetched) \cup {PQ!Freed + 1} \subseteq PQ!Entries(fetched')
  BY <1>2 DEF PQ!Entries
<1>5. 1..(PQ!Freed' + 1) \subseteq PQ!Entries(fetched') \cup unannounced'
  BY <1>1, <1>4 DEF PQ!Numbered
<1>6. PQ!Numbered'
  BY <1>1, <1>3, <1>5 DEF PQ!Numbered
<1>7. PQ!DeliveredOnce'
  BY <1>1, <1>2 DEF PQ!DeliveredOnce, PQ!Numbered
<1> QED
  BY <1>2, <1>6, <1>7

LEMMA QueueGiveUp == QueueInv /\ PQ!GiveUp => QueueInv'
<1> SUFFICES ASSUME QueueInv, PQ!GiveUp PROVE QueueInv'
  OBVIOUS
<1> USE DEF QueueInv, PQ!TypeOK, PQ!GiveUp
<1>1. Head(list) = PQ!Freed + 1 /\ PQ!Freed \in Nat /\ PQ!Freed' = PQ!Freed
  BY DEF PQ!Numbered, PQ!Freed
<1>2. PQ!TypeOK'
  <2>1. Head(list) \in Nat
    BY <1>1
  <2> QED
    BY <2>1
<1>3. 1..(PQ!Freed' + 1) \subseteq PQ!Entries(fetched') \cup unannounced'
  BY <1>1 DEF PQ!Numbered, PQ!Entries
<1>4. \A i \in 1..Len(fetched') : fetched'[i] <= PQ!Freed' + 1
  BY <1>1 DEF PQ!Numbered
<1>5. PQ!Numbered'
  BY <1>1, <1>3, <1>4 DEF PQ!Numbered
<1> QED
  BY <1>2, <1>5 DEF PQ!DeliveredOnce

LEMMA QueueFree == QueueInv /\ PQ!Free => QueueInv'
<1> SUFFICES ASSUME QueueInv, PQ!Free PROVE QueueInv'
  OBVIOUS
<1> USE DEF QueueInv, PQ!TypeOK, PQ!Free
<1>1. /\ list' \in Seq(Nat) /\ Len(list') = Len(list) - 1
      /\ \A i \in 1..Len(list') : list'[i] = list[i + 1]
  OBVIOUS
<1>2. PQ!Freed' = PQ!Freed + 1 /\ PQ!Freed \in Nat
  BY <1>1 DEF PQ!Freed, PQ!Numbered
<1>3. \A i \in 1..Len(list') : list'[i] = PQ!Freed' + i
  BY <1>1, <1>2 DEF PQ!Numbered
<1>4. PQ!Numbered'
  BY <1>1, <1>2, <1>3 DEF PQ!Numbered, PQ!Entries
<1> QED
  BY <1>1, <1>4 DEF PQ!DeliveredOnce

(* The inductive invariant: the list holds consecutive packets, and those  *)
(* that left it are exactly the settled ones.                              *)
THEOREM QueueInvariance == PQ!Spec => []QueueInv
<1>1. PQ!Init => QueueInv
  BY QueueInit
<1>2. QueueInv /\ [PQ!Next]_(PQ!vars) => QueueInv'
  <2> SUFFICES ASSUME QueueInv, [PQ!Next]_(PQ!vars) PROVE QueueInv'
    OBVIOUS
  <2>1. CASE UNCHANGED PQ!vars
    <3> USE <2>1 DEF PQ!vars
    <3>1. PQ!TypeOK' /\ PQ!DeliveredOnce'
      BY DEF QueueInv, PQ!TypeOK, PQ!DeliveredOnce
    <3>2. PQ!Freed' = PQ!Freed /\ PQ!Entries(fetched)' = PQ!Entries(fetched)
      BY DEF PQ!Freed, PQ!Entries
    <3>3. PQ!Numbered'
      <4>1. \A i \in 1..Len(list') : list'[i] = PQ!Freed' + i
        BY <3>2 DEF QueueInv, PQ!Numbered
      <4>2. \A i \in 1..Len(fetched') :
              fetched'[i] <= IF HeadSettled' THEN PQ!Freed' + 1 ELSE PQ!Freed'
        BY <3>2 DEF QueueInv, PQ!Numbered
      <4>3. 1..(IF HeadSettled' THEN PQ!Freed' + 1 ELSE PQ!Freed')
              \subseteq PQ!Entries(fetched)' \cup unannounced'
        BY <3>2 DEF QueueInv, PQ!Numbered
      <4> QED
        BY <4>1, <4>2, <4>3 DEF QueueInv, PQ!Numbered
    <3> QED
      BY <3>1, <3>3 DEF QueueInv
  <2> QED
    BY <2>1, QueueArrive, QueueDeliver, QueueGiveUp, QueueFree DEF PQ!Next
<1> QED
  BY <1>1, <1>2, PTL DEF PQ!Spec

(* No packet is handed out twice. *)
THEOREM QueueOnce == PQ!Spec => []PQ!DeliveredOnce
  BY QueueInvariance, PTL DEF QueueInv

(* A packet that left the queue was handed out or given up. *)
THEOREM QueueLossless == PQ!Spec => []PQ!NothingLost
<1>1. QueueInv => PQ!NothingLost
  <2> SUFFICES ASSUME QueueInv, NEW p \in 1..arrived, p \notin PQ!Entries(list)
               PROVE p \in PQ!Entries(fetched) \cup unannounced
    BY DEF PQ!NothingLost
  <2>1. PQ!Freed \in Nat /\ arrived = PQ!Freed + Len(list)
    BY DEF QueueInv, PQ!TypeOK, PQ!Numbered, PQ!Freed
  <2>2. p <= PQ!Freed
    <3> SUFFICES ASSUME p > PQ!Freed PROVE FALSE
      BY <2>1
    <3> DEFINE i == p - PQ!Freed
    <3>1. i \in 1..Len(list) /\ p = PQ!Freed + i
      BY <2>1 DEF QueueInv, PQ!TypeOK
    <3>2. list[i] = p
      BY <3>1 DEF QueueInv, PQ!Numbered
    <3> QED
      BY <3>1, <3>2 DEF PQ!Entries
  <2> QED
    BY <2>1, <2>2 DEF QueueInv, PQ!TypeOK, PQ!Numbered
<1> QED
  BY <1>1, QueueInvariance, PTL

(* While a driver stays loaded, it is given no packet twice and no packet  *)
(* disappears without an interrupt, because that holds of the queue.       *)
THEOREM SteadyDelivery == SteadySpec => [](FetchedOnce /\ NoSilentDrop)
<1>1. PQ!DeliveredOnce => FetchedOnce
  BY DEF PQ!DeliveredOnce, FetchedOnce
<1>2. PQ!NothingLost => NoSilentDrop
  BY DEF PQ!NothingLost, NoSilentDrop, PQ!Entries, Entries
<1> QED
  BY <1>1, <1>2, SteadyRefinement, QueueOnce, QueueLossless, PTL DEF IsPacketQueue

-----------------------------------------------------------------------------
(***************************************************************************)
(* FetchedInOrder, over every load, removal and exit.  The list and what   *)
(* was fetched are sorted, and no entry of the list arrived before one     *)
(* that was fetched.                                                       *)
(***************************************************************************)
Sorted(s) == \A i, j \in 1..Len(s) : i <= j => s[i] <= s[j]

InOrder(queue, out, last) ==
  /\ Sorted(queue) /\ Sorted(out)
  /\ \A i \in 1..Len(queue) : queue[i] <= last
  /\ \A i \in 1..Len(out) : out[i] <= last
  /\ \A i \in 1..Len(out), j \in 1..Len(queue) : out[i] <= queue[j]

OrderInv == TypeOK /\ InOrder(list, fetched, arrived)

(* A packet that arrives is the latest.                                    *)
LEMMA ArrivalInOrder ==
  ASSUME NEW q \in Seq(Nat), NEW out \in Seq(Nat), NEW n \in Nat, InOrder(q, out, n)
  PROVE  InOrder(Append(q, n + 1), out, n + 1)
<1> DEFINE s == Append(q, n + 1)
<1>1. /\ Len(s) = Len(q) + 1 /\ s[Len(s)] = n + 1
      /\ \A i \in 1..Len(q) : s[i] = q[i]
  OBVIOUS
<1>2. \A i \in 1..Len(q) : q[i] \in Nat
  OBVIOUS
<1>3. \A i \in 1..Len(out) : out[i] \in Nat
  OBVIOUS
<1> HIDE DEF s
<1>4. Len(q) \in Nat /\ \A i \in 1..Len(q) : q[i] <= n
  BY DEF InOrder
<1>5. \A i \in 1..Len(s) : i \in 1..Len(q) \/ i = Len(s)
  BY <1>1, <1>4
<1>6. Sorted(s)
  <2> SUFFICES ASSUME NEW i \in 1..Len(s), NEW j \in 1..Len(s), i <= j
               PROVE  s[i] <= s[j]
    BY DEF Sorted
  <2>1. CASE j = Len(s)
    <3>1. CASE i \in 1..Len(q)
      <4>1. s[i] = q[i] /\ q[i] \in Nat /\ q[i] <= n /\ s[j] = n + 1
        BY <1>1, <1>2, <1>4, <2>1, <3>1
      <4> QED
        BY <4>1
    <3>2. CASE i = Len(s)
      BY <1>1, <2>1, <3>2
    <3> QED
      BY <1>5, <3>1, <3>2
  <2>2. CASE j \in 1..Len(q)
    <3>1. i \in 1..Len(q)
      BY <1>1, <1>4, <2>2
    <3>2. q[i] <= q[j]
      BY <2>2, <3>1 DEF InOrder, Sorted
    <3> QED
      BY <1>1, <2>2, <3>1, <3>2
  <2> QED
    BY <1>5, <2>1, <2>2
<1>7. \A i \in 1..Len(s) : s[i] <= n + 1
  <2> SUFFICES ASSUME NEW i \in 1..Len(s) PROVE s[i] <= n + 1
    OBVIOUS
  <2>1. CASE i \in 1..Len(q)
    BY <1>1, <1>2, <1>4, <2>1
  <2>2. CASE i = Len(s)
    BY <1>1, <2>2
  <2> QED
    BY <1>5, <2>1, <2>2
<1>8. \A i \in 1..Len(out) : out[i] <= n
  BY DEF InOrder
<1>9. \A i \in 1..Len(out), j \in 1..Len(s) : out[i] <= s[j]
  <2> SUFFICES ASSUME NEW i \in 1..Len(out), NEW j \in 1..Len(s)
               PROVE  out[i] <= s[j]
    OBVIOUS
  <2>1. CASE j \in 1..Len(q)
    <3>1. out[i] <= q[j]
      BY <2>1 DEF InOrder
    <3> QED
      BY <1>1, <2>1, <3>1
  <2>2. CASE j = Len(s)
    BY <1>1, <1>3, <1>8, <2>2
  <2> QED
    BY <1>5, <2>1, <2>2
<1>10. \A i \in 1..Len(out) : out[i] <= n + 1
  BY <1>3, <1>8
<1>11. Sorted(out)
  BY DEF InOrder
<1>12. InOrder(s, out, n + 1)
  BY <1>6, <1>7, <1>9, <1>10, <1>11 DEF InOrder
<1> QED
  BY <1>12 DEF s

(* The oldest leaves, or all are freed.                                    *)
LEMMA RemovalInOrder ==
  ASSUME NEW q \in Seq(Nat), NEW out, NEW n, InOrder(q, out, n)
  PROVE  /\ InOrder(<<>>, out, n)
         /\ q # <<>> => InOrder(Tail(q), out, n)
<1>1. InOrder(<<>>, out, n)
  BY DEF InOrder, Sorted
<1>2. ASSUME q # <<>> PROVE InOrder(Tail(q), out, n)
  <2>1. Len(Tail(q)) = Len(q) - 1 /\ \A i \in 1..Len(Tail(q)) : Tail(q)[i] = q[i + 1]
    BY <1>2
  <2> QED
    BY <2>1 DEF InOrder, Sorted
<1> QED
  BY <1>1, <1>2

(* get_data hands out the head, which nothing in the list precedes.        *)
LEMMA FetchInOrder ==
  ASSUME NEW q \in Seq(Nat), NEW out \in Seq(Nat), NEW n, InOrder(q, out, n), q # <<>>
  PROVE  InOrder(q, Append(out, Head(q)), n)
<1> DEFINE s == Append(out, Head(q))
<1>1. Head(q) = q[1] /\ 1 \in 1..Len(q) /\ q[1] \in Nat
  OBVIOUS
<1>2. /\ Len(s) = Len(out) + 1 /\ s[Len(s)] = q[1]
      /\ \A i \in 1..Len(out) : s[i] = out[i]
  BY <1>1
<1> HIDE DEF s
<1> QED
  BY <1>1, <1>2 DEF InOrder, Sorted

LEMMA StepInOrder == OrderInv /\ [Next]_vars => InOrder(list, fetched, arrived)'
<1> SUFFICES ASSUME OrderInv, [Next]_vars PROVE InOrder(list', fetched', arrived')
  OBVIOUS
<1>1. list \in Seq(Nat) /\ fetched \in Seq(Nat) /\ arrived \in Nat
  BY DEF OrderInv, TypeOK
<1>2. InOrder(list, fetched, arrived)
  BY DEF OrderInv
<1> DEFINE Same == UNCHANGED <<list, fetched, arrived>>
<1> USE DEF filterVars, workVars, bottomVars, driverVars, FilterStep, AddTo,
            WorkStep, TriggerTo, Leaves, BottomStep, Acknowledge,
            DriverStep, Switch, SetRetrieved, FreeList
<1>3. ASSUME NEW c \in CPUs, Filter(c)
      PROVE  Same \/ (list' = Append(list, arrived + 1) /\ fetched' = fetched
                        /\ arrived' = arrived + 1)
  BY <1>3 DEF Filter, Capture, AddTail, QueueWork
<1>4. CASE Worker
  <2>1. Same \/ (list # <<>> /\ list' = Tail(list) /\ UNCHANGED <<fetched, arrived>>)
    BY <1>4 DEF Worker, StartWork, TriggerIrq, TriggerFails, WaitRetrieved,
                ReinitRetrieved, RemoveOldest
  <2> QED
    BY <1>1, <1>2, <2>1, RemovalInOrder
<1>5. CASE Bottom
  <2>1. Same \/ (list # <<>> /\ fetched' = Append(fetched, Head(list))
                   /\ UNCHANGED <<list, arrived>>)
    BY <1>5 DEF Bottom, RunBottom, GetOldest, CompleteRetrieved, ReadLen, UseData
  <2> QED
    BY <1>1, <1>2, <2>1, FetchInOrder
<1>6. CASE Probe \/ Remove
  <2>1. Same
    BY <1>6 DEF Probe, RequestIrq, EnableCapture, EnableReinit, Remove,
                DisableCapture, DisableComplete, FreeIrq, IrqFreed
  <2> QED
    BY <1>2, <2>1
<1>7. CASE Exit
  <2>1. Same \/ (list' = <<>> /\ UNCHANGED <<fetched, arrived>>)
    BY <1>7 DEF Exit, ExitUnregister, ExitComplete, ExitCancel, ExitFree
  <2> QED
    BY <1>1, <1>2, <2>1, RemovalInOrder
<1>8. CASE UNCHANGED vars
  BY <1>2, <1>8 DEF vars
<1>9. ASSUME NEW c \in CPUs, Filter(c) PROVE InOrder(list', fetched', arrived')
  BY <1>1, <1>2, <1>3, <1>9, ArrivalInOrder
<1> QED
  BY <1>4, <1>5, <1>6, <1>7, <1>8, <1>9 DEF Next, NetNext

(* cs421net_get_data hands packets out in the order of arrival, over every *)
(* load, removal and exit (FetchedInOrder).                                *)
THEOREM FetchOrder == Spec => []FetchedInOrder
<1>1. Init => OrderInv
  <2> SUFFICES ASSUME Init PROVE OrderInv
    OBVIOUS
  <2>1. list = <<>> /\ fetched = <<>>
    BY DEF Init, Idle
  <2>2. InOrder(list, fetched, arrived)
    BY <2>1 DEF InOrder, Sorted
  <2> QED
    BY <2>2, InitTypeOK DEF OrderInv
<1>2. OrderInv /\ [Next]_vars => OrderInv'
  BY StepInOrder, StepTypeOK DEF OrderInv
<1>3. OrderInv => FetchedInOrder
  BY DEF OrderInv, InOrder, Sorted, FetchedInOrder
<1> QED
  BY <1>1, <1>2, <1>3, PTL DEF Spec

-----------------------------------------------------------------------------
(***************************************************************************)
(* The first driver, from before its probe on.  The two statements of      *)
(* cs421net_enable let packets in before reinit_completion, which may wipe *)
(* an acknowledgement out: the worker then waits with nothing on its way   *)
(* (so one half of Lockstep is lost), but nothing is handed out twice.     *)
(***************************************************************************)
Handshake ==
  /\ retrieved \in {0, 1}
  /\ irq \/ bottom \in {"fetch", "complete"} \/ retrieved = 1 => worker = "wait"
  /\ irq => retrieved = 0 /\ bottom \in {"idle", "len", "use"}
  /\ bottom \in {"fetch", "complete"} => retrieved = 0

Increasing(s) == \A i, j \in 1..Len(s) : i < j => s[i] < s[j]

Before(out, queue, k) == \A i \in 1..Len(out), j \in k..Len(queue) : out[i] < queue[j]

(* Every packet that was fetched arrived before those in the list, except  *)
(* that the head may be the one that was fetched last.                     *)
Apart(queue, out, last) ==
  /\ Increasing(queue) /\ Increasing(out)
  /\ \A i \in 1..Len(queue) : queue[i] <= last
  /\ \A i \in 1..Len(out) : out[i] <= last
  /\ Before(out, queue, 2)

HeadUnseen == worker \in {"idle", "trigger"} \/ irq \/ bottom = "fetch"

OnceInv ==
  /\ Apart(list, fetched, arrived)
  /\ HeadUnseen => Before(fetched, list, 1)

FirstInv == TypeOK /\ WorkerHasEntry /\ Handshake /\ OnceInv

(* Probe owes no work and takes no entry.                                  *)
LEMMA ProbeKeepsEntries == WorkerHasEntry /\ Probe => WorkerHasEntry'
<1> SUFFICES ASSUME WorkerHasEntry, Probe PROVE WorkerHasEntry'
  OBVIOUS
<1>1. UNCHANGED <<filter, list, pending, worker>>
  BY DEF Probe, RequestIrq, EnableCapture, EnableReinit, DriverStep, Switch,
         SetRetrieved, filterVars
<1> QED
  BY <1>1 DEF WorkerHasEntry, WorksOwed, In

LEMMA HandshakeStep ==
  TypeOK /\ WorkerHasEntry /\ Handshake /\ (NetNext \/ Probe) => Handshake'
<1> SUFFICES ASSUME TypeOK, WorkerHasEntry, Handshake, NetNext \/ Probe
             PROVE  Handshake'
  OBVIOUS
<1> USE DEF Handshake, TypeOK, WorkerPc, BottomPc, filterVars, workVars,
            bottomVars, driverVars, FilterStep, AddTo, WorkStep, TriggerTo,
            Leaves, BottomStep, Acknowledge, DriverStep, Switch,
            SetRetrieved, FreeList
<1>1. ASSUME NEW c \in CPUs, Filter(c) PROVE Handshake'
  <2>1. UNCHANGED <<worker, retrieved, irq, bottom>>
    BY <1>1 DEF Filter, Capture, AddTail, QueueWork
  <2> QED
    BY <2>1
<1>2. CASE Worker
  <2>1. CASE StartWork
    BY <2>1 DEF StartWork
  <2>2. CASE TriggerIrq
    BY <2>2 DEF TriggerIrq
  <2>3. CASE TriggerFails
    BY <2>3 DEF TriggerFails
  <2>4. CASE WaitRetrieved
    BY <2>4 DEF WaitRetrieved
  <2>5. CASE ReinitRetrieved
    BY <2>5 DEF ReinitRetrieved
  <2>6. CASE RemoveOldest
    BY <2>6 DEF RemoveOldest
  <2> QED
    BY <1>2, <2>1, <2>2, <2>3, <2>4, <2>5, <2>6 DEF Worker
<1>3. CASE Bottom
  <2>1. CASE RunBottom
    BY <2>1 DEF RunBottom
  <2>2. CASE GetOldest
    <3>1. worker = "wait"
      BY <2>2 DEF GetOldest
    <3>2. list # <<>>
      BY <3>1, AddedFinite DEF WorkerHasEntry, WorksOwed
    <3> QED
      BY <2>2, <3>2 DEF GetOldest
  <2>3. CASE CompleteRetrieved
    BY <2>3 DEF CompleteRetrieved
  <2>4. CASE ReadLen
    BY <2>4 DEF ReadLen
  <2>5. CASE UseData
    BY <2>5 DEF UseData
  <2> QED
    BY <1>3, <2>1, <2>2, <2>3, <2>4, <2>5 DEF Bottom
<1>4. CASE Probe
  <2>1. CASE RequestIrq
    BY <2>1 DEF RequestIrq
  <2>2. CASE EnableCapture
    BY <2>2 DEF EnableCapture
  <2>3. CASE EnableReinit
    BY <2>3 DEF EnableReinit
  <2> QED
    BY <1>4, <2>1, <2>2, <2>3 DEF Probe
<1> QED
  BY <1>1, <1>2, <1>3, <1>4 DEF NetNext

LEMMA ArrivalApart ==
  ASSUME NEW q \in Seq(Nat), NEW out \in Seq(Nat), NEW n \in Nat, Apart(q, out, n)
  PROVE  /\ Apart(Append(q, n + 1), out, n + 1)
         /\ Before(out, q, 1) => Before(out, Append(q, n + 1), 1)
<1> DEFINE s == Append(q, n + 1)
<1>1. /\ Len(s) = Len(q) + 1 /\ s[Len(s)] = n + 1
      /\ \A i \in 1..Len(q) : s[i] = q[i]
  OBVIOUS
<1>2. \A i \in 1..Len(q) : q[i] \in Nat /\ q[i] <= n
  BY DEF Apart
<1>3. \A i \in 1..Len(out) : out[i] \in Nat /\ out[i] <= n
  BY DEF Apart
<1> HIDE DEF s
<1>4. Len(q) \in Nat /\ \A i \in 1..Len(s) : i \in 1..Len(q) \/ i = Len(s)
  BY <1>1
<1>5. Increasing(s)
  <2> SUFFICES ASSUME NEW i \in 1..Len(s), NEW j \in 1..Len(s), i < j
               PROVE  s[i] < s[j]
    BY DEF Increasing
  <2>1. i \in 1..Len(q)
    BY <1>1, <1>4
  <2>2. CASE j \in 1..Len(q)
    <3>1. q[i] < q[j]
      BY <2>1, <2>2 DEF Apart, Increasing
    <3> QED
      BY <1>1, <2>1, <2>2, <3>1
  <2>3. CASE j = Len(s)
    BY <1>1, <1>2, <2>1, <2>3
  <2> QED
    BY <1>4, <2>2, <2>3
<1>6. \A i \in 1..Len(s) : s[i] <= n + 1
  <2> SUFFICES ASSUME NEW i \in 1..Len(s) PROVE s[i] <= n + 1
    OBVIOUS
  <2>1. CASE i \in 1..Len(q)
    <3>1. s[i] = q[i] /\ q[i] \in Nat /\ q[i] <= n
      BY <1>1, <1>2, <2>1
    <3> QED
      BY <3>1
  <2>2. CASE i = Len(s)
    BY <1>1, <2>2
  <2> QED
    BY <1>4, <2>1, <2>2
<1>7. \A i \in 1..Len(out) : out[i] <= n + 1
  BY <1>3
<1>8. ASSUME NEW k \in {1, 2}, Before(out, q, k) PROVE Before(out, s, k)
  <2> SUFFICES ASSUME NEW i \in 1..Len(out), NEW j \in k..Len(s)
               PROVE  out[i] < s[j]
    BY DEF Before
  <2>1. CASE j \in 1..Len(q)
    <3>1. j \in k..Len(q)
      BY <1>4, <2>1
    <3>2. out[i] < q[j]
      BY <1>8, <3>1 DEF Before
    <3> QED
      BY <1>1, <2>1, <3>2
  <2>2. CASE j = Len(s)
    BY <1>1, <1>3, <2>2
  <2> QED
    BY <1>1, <1>4, <2>1, <2>2
<1>9. Before(out, s, 2)
  BY <1>8 DEF Apart
<1>10. Increasing(out)
  BY DEF Apart
<1>11. Apart(s, out, n + 1)
  BY <1>5, <1>6, <1>7, <1>9, <1>10 DEF Apart
<1> QED
  BY <1>8, <1>11 DEF s

LEMMA RemovalApart ==
  ASSUME NEW q \in Seq(Nat), NEW out \in Seq(Nat), NEW n \in Nat, Apart(q, out, n), q # <<>>
  PROVE  Apart(Tail(q), out, n) /\ Before(out, Tail(q), 1)
<1>1. /\ Len(Tail(q)) = Len(q) - 1 /\ Len(q) \in Nat
      /\ \A i \in 1..Len(Tail(q)) : Tail(q)[i] = q[i + 1]
  OBVIOUS
<1>2. Before(out, Tail(q), 1)
  BY <1>1 DEF Apart, Before
<1>3. Before(out, Tail(q), 2)
  BY <1>1, <1>2 DEF Before
<1>4. Increasing(Tail(q)) /\ \A i \in 1..Len(Tail(q)) : Tail(q)[i] <= n
  BY <1>1 DEF Apart, Increasing
<1> QED
  BY <1>2, <1>3, <1>4 DEF Apart

LEMMA FetchApart ==
  ASSUME NEW q \in Seq(Nat), NEW out \in Seq(Nat), NEW n \in Nat, Apart(q, out, n),
         q # <<>>, Before(out, q, 1)
  PROVE  Apart(q, Append(out, Head(q)), n)
<1> DEFINE s == Append(out, Head(q))
<1>1. Head(q) = q[1] /\ 1 \in 1..Len(q) /\ q[1] \in Nat
  OBVIOUS
<1>2. /\ Len(s) = Len(out) + 1 /\ s[Len(s)] = q[1] /\ Len(out) \in Nat
      /\ \A i \in 1..Len(out) : s[i] = out[i]
  BY <1>1
<1> HIDE DEF s
<1>3. \A i \in 1..Len(s) : i \in 1..Len(out) \/ i = Len(s)
  BY <1>2
<1>4. \A i \in 1..Len(out) : s[i] = out[i] /\ out[i] < q[1]
  BY <1>1, <1>2 DEF Before
<1>5. q[1] <= n
  BY <1>1 DEF Apart
<1>6. \A i \in 1..Len(s) : s[i] <= n
  BY <1>2, <1>3, <1>5 DEF Apart
<1>7. Increasing(s)
  <2> SUFFICES ASSUME NEW i \in 1..Len(s), NEW j \in 1..Len(s), i < j
               PROVE  s[i] < s[j]
    BY DEF Increasing
  <2>1. i \in 1..Len(out)
    BY <1>2, <1>3
  <2>2. CASE j \in 1..Len(out)
    <3>1. out[i] < out[j]
      BY <2>1, <2>2 DEF Apart, Increasing
    <3> QED
      BY <1>4, <2>1, <2>2, <3>1
  <2>3. CASE j = Len(s)
    BY <1>2, <1>4, <2>1, <2>3
  <2> QED
    BY <1>3, <2>2, <2>3
<1>8. Before(s, q, 2)
  <2> SUFFICES ASSUME NEW i \in 1..Len(s), NEW j \in 2..Len(q) PROVE s[i] < q[j]
    BY DEF Before
  <2>1. q[1] < q[j]
    BY <1>1 DEF Apart, Increasing
  <2>2. CASE i \in 1..Len(out)
    <3>1. out[i] < q[j]
      BY <2>2 DEF Apart, Before
    <3> QED
      BY <1>4, <2>2, <3>1
  <2>3. CASE i = Len(s)
    BY <1>2, <2>1, <2>3
  <2> QED
    BY <1>3, <2>2, <2>3
<1>9. Apart(q, s, n)
  BY <1>6, <1>7, <1>8 DEF Apart
<1> QED
  BY <1>9 DEF s

(* A step that changes neither list makes no entry unseen.                 *)
LEMMA OnceStep ==
  TypeOK /\ Handshake /\ OnceInv /\ (NetNext \/ Probe) => OnceInv'
<1> SUFFICES ASSUME TypeOK, Handshake, OnceInv, NetNext \/ Probe PROVE OnceInv'
  OBVIOUS
<1>1. list \in Seq(Nat) /\ fetched \in Seq(Nat) /\ arrived \in Nat
  BY DEF TypeOK
<1>2. Apart(list, fetched, arrived)
  BY DEF OnceInv
<1> DEFINE Same == UNCHANGED <<list, fetched, arrived>> /\ (HeadUnseen' => HeadUnseen)
<1>3. ASSUME Same PROVE OnceInv'
  <2>1. Apart(list', fetched', arrived')
    BY <1>2, <1>3
  <2>2. HeadUnseen' => Before(fetched', list', 1)
    BY <1>3 DEF OnceInv
  <2> QED
    BY <2>1, <2>2 DEF OnceInv
<1> USE DEF filterVars, workVars, bottomVars, driverVars, FilterStep, AddTo,
            WorkStep, TriggerTo, Leaves, BottomStep, Acknowledge,
            DriverStep, Switch, SetRetrieved, FreeList
<1>4. ASSUME NEW c \in CPUs, Filter(c) PROVE OnceInv'
  <2>1. HeadUnseen' <=> HeadUnseen
    BY <1>4 DEF Filter, Capture, AddTail, QueueWork, HeadUnseen
  <2>2. CASE AddTail(c)
    <3>1. list' = Append(list, arrived + 1) /\ arrived' = arrived + 1 /\ fetched' = fetched
      BY <2>2 DEF AddTail
    <3>2. /\ Apart(list', fetched', arrived')
          /\ Before(fetched, list, 1) => Before(fetched', list', 1)
      BY <1>1, <1>2, <3>1, ArrivalApart
    <3> QED
      BY <2>1, <3>2 DEF OnceInv
  <2>3. CASE Capture(c) \/ QueueWork(c)
    <3>1. UNCHANGED <<list, fetched, arrived>>
      BY <2>3 DEF Capture, QueueWork
    <3> QED
      BY <1>3, <2>1, <3>1
  <2> QED
    BY <1>4, <2>2, <2>3 DEF Filter
<1>5. CASE Worker
  <2>1. CASE StartWork \/ TriggerIrq \/ TriggerFails \/ WaitRetrieved \/ ReinitRetrieved
    <3>1. UNCHANGED <<list, fetched, arrived>>
      BY <2>1 DEF StartWork, TriggerIrq, TriggerFails, WaitRetrieved, ReinitRetrieved
    <3>2. HeadUnseen' => HeadUnseen
      BY <2>1 DEF StartWork, TriggerIrq, TriggerFails, WaitRetrieved, ReinitRetrieved,
                  HeadUnseen
    <3> QED
      BY <1>3, <3>1, <3>2
  <2>2. CASE RemoveOldest
    <3>0. fetched' = fetched /\ arrived' = arrived
      BY <2>2 DEF RemoveOldest
    <3>1. CASE list = <<>>
      <4>1. list' = <<>>
        BY <2>2, <3>1 DEF RemoveOldest
      <4>2. Apart(list', fetched', arrived')
        BY <1>2, <3>0, <3>1, <4>1
      <4>3. Before(fetched', list', 1)
        BY <4>1 DEF Before
      <4> QED
        BY <4>2, <4>3 DEF OnceInv
    <3>2. CASE list # <<>>
      <4>1. list' = Tail(list)
        BY <2>2, <3>2 DEF RemoveOldest
      <4>2. Apart(list', fetched', arrived') /\ Before(fetched', list', 1)
        BY <1>1, <1>2, <3>0, <3>2, <4>1, RemovalApart
      <4> QED
        BY <4>2 DEF OnceInv
    <3> QED
      BY <3>1, <3>2
  <2> QED
    BY <1>5, <2>1, <2>2 DEF Worker
<1>6. CASE Bottom
  <2>1. CASE GetOldest /\ list # <<>>
    <3>1. /\ list' = list /\ arrived' = arrived /\ fetched' = Append(fetched, Head(list))
          /\ bottom = "fetch" /\ bottom' = "complete" /\ irq' = irq /\ worker' = worker
      BY <2>1 DEF GetOldest
    <3>2. worker = "wait" /\ ~irq
      BY <3>1 DEF Handshake
    <3>3. ~HeadUnseen'
      BY <3>1, <3>2 DEF HeadUnseen
    <3>4. Before(fetched, list, 1)
      BY <3>1 DEF OnceInv, HeadUnseen
    <3>5. Apart(list', fetched', arrived')
      BY <1>1, <1>2, <2>1, <3>1, <3>4, FetchApart
    <3> QED
      BY <3>3, <3>5 DEF OnceInv
  <2>2. CASE GetOldest /\ list = <<>>
    <3>1. UNCHANGED <<list, fetched, arrived>> /\ bottom = "fetch"
      BY <2>2 DEF GetOldest
    <3> QED
      BY <1>3, <3>1 DEF HeadUnseen
  <2>3. CASE RunBottom \/ CompleteRetrieved \/ ReadLen \/ UseData
    <3>1. UNCHANGED <<list, fetched, arrived>>
      BY <2>3 DEF RunBottom, CompleteRetrieved, ReadLen, UseData
    <3>2. HeadUnseen' => HeadUnseen
      BY <2>3 DEF RunBottom, CompleteRetrieved, ReadLen, UseData, HeadUnseen
    <3> QED
      BY <1>3, <3>1, <3>2
  <2> QED
    BY <1>6, <2>1, <2>2, <2>3 DEF Bottom
<1>7. CASE Probe
  <2>1. UNCHANGED <<list, fetched, arrived, worker, irq, bottom>>
    BY <1>7 DEF Probe, RequestIrq, EnableCapture, EnableReinit
  <2> QED
    BY <1>3, <2>1 DEF HeadUnseen
<1> QED
  BY <1>4, <1>5, <1>6, <1>7 DEF NetNext

LEMMA FirstInit == Init => FirstInv
<1> SUFFICES ASSUME Init PROVE FirstInv
  OBVIOUS
<1>1. In("added") = {}
  BY DEF Init, Idle, In
<1>2. Cardinality(In("added")) = 0 /\ Len(list) = 0 /\ Len(fetched) = 0
  BY <1>1, FS_EmptySet DEF Init, Idle
<1>3. WorkerHasEntry
  BY <1>2 DEF Init, Idle, WorkerHasEntry, WorksOwed
<1>4. Handshake
  BY DEF Init, Idle, Handshake
<1>5. OnceInv
  BY <1>2 DEF OnceInv, Apart, Increasing, Before
<1> QED
  BY <1>3, <1>4, <1>5, InitTypeOK DEF FirstInv

LEMMA FirstStep == FirstInv /\ [NetNext \/ Probe]_vars => FirstInv'
<1> SUFFICES ASSUME FirstInv, [NetNext \/ Probe]_vars PROVE FirstInv'
  OBVIOUS
<1>1. TypeOK'
  BY StepTypeOK DEF FirstInv, Next
<1>2. CASE UNCHANGED vars
  <2>1. Handshake' /\ WorkerHasEntry'
    BY <1>2 DEF FirstInv, Handshake, WorkerHasEntry, WorksOwed, In, vars
  <2>2. OnceInv'
    BY <1>2 DEF FirstInv, OnceInv, HeadUnseen, vars
  <2> QED
    BY <1>1, <2>1, <2>2 DEF FirstInv
<1>3. CASE NetNext \/ Probe
  <2>1. WorkerHasEntry'
    BY <1>3, NetKeepsEntries, ProbeKeepsEntries DEF FirstInv
  <2> QED
    BY <1>1, <1>3, <2>1, HandshakeStep, OnceStep DEF FirstInv
<1> QED
  BY <1>2, <1>3

LEMMA FirstOnce == FirstInv => NeverNull /\ FetchedOnce
<1> SUFFICES ASSUME FirstInv PROVE NeverNull /\ FetchedOnce
  OBVIOUS
<1>1. NeverNull
  <2> SUFFICES ASSUME bottom = "fetch" PROVE list # <<>>
    BY DEF NeverNull
  <2>1. worker = "wait"
    BY DEF FirstInv, Handshake
  <2> QED
    BY <2>1, AddedFinite DEF FirstInv, TypeOK, WorkerHasEntry, WorksOwed
<1>2. FetchedOnce
  <2> SUFFICES ASSUME NEW i \in 1..Len(fetched), NEW j \in 1..Len(fetched), i # j
               PROVE  fetched[i] # fetched[j]
    BY DEF FetchedOnce
  <2>1. fetched[i] \in Nat /\ fetched[j] \in Nat
    BY DEF FirstInv, TypeOK
  <2>2. i < j \/ j < i
    OBVIOUS
  <2>3. fetched[i] < fetched[j] \/ fetched[j] < fetched[i]
    BY <2>2 DEF FirstInv, OnceInv, Apart, Increasing
  <2> QED
    BY <2>1, <2>3
<1> QED
  BY <1>1, <1>2

(* From before the probe on, and through the race of cs421net_enable with  *)
(* the first packets, get_data never finds the list empty and hands no     *)
(* packet out twice (NeverNull, FetchedOnce).                              *)
THEOREM ProbeDelivery == ProbeSpec => [](NeverNull /\ FetchedOnce)
  BY FirstInit, FirstStep, FirstOnce, PTL DEF ProbeSpec

-----------------------------------------------------------------------------
(***************************************************************************)
(* The numbers of the packets in the list, over every load and removal.    *)
(***************************************************************************)
WithinBound == arrived + Cardinality(In("captured")) <= MaxPackets

LEMMA CapturedFinite ==
  IsFiniteSet(In("captured")) /\ Cardinality(In("captured")) \in Nat
<1>1. In("captured") \subseteq CPUs
  BY DEF In
<1> QED
  BY <1>1, CPUsAssumption, FS_Subset, FS_CardinalityType

LEMMA BoundStep == TypeOK /\ WithinBound /\ [Next]_vars => WithinBound'
<1> SUFFICES ASSUME TypeOK, WithinBound, [Next]_vars PROVE WithinBound'
  OBVIOUS
<1> DEFINE n == Cardinality(In("captured"))
<1>n. n \in Nat /\ arrived \in Nat /\ MaxPackets \in Nat /\ arrived + n <= MaxPackets
  BY CapturedFinite, BoundsAssumption DEF TypeOK, WithinBound
<1> USE DEF filterVars, workVars, bottomVars, driverVars, FilterStep, AddTo,
            WorkStep, TriggerTo, Leaves, BottomStep, Acknowledge,
            DriverStep, Switch, SetRetrieved, FreeList
<1>1. ASSUME NEW c \in CPUs, Filter(c) PROVE WithinBound'
  <2>1. CASE Capture(c)
    <3>1. arrived' = arrived /\ arrived + n < MaxPackets
      BY <2>1 DEF Capture
    <3>2. c \notin In("captured") /\ In("captured")' = In("captured") \cup {c}
      BY <2>1 DEF Capture, In, TypeOK
    <3>3. n' = n + 1
      BY <3>2, CapturedFinite, FS_AddElement
    <3> HIDE DEF n
    <3>4. arrived' + n' <= MaxPackets
      BY <1>n, <3>1, <3>3
    <3> QED
      BY <3>4 DEF WithinBound, n
  <2>2. CASE AddTail(c)
    <3>1. arrived' = arrived + 1
      BY <2>2 DEF AddTail
    <3>2. c \in In("captured") /\ In("captured")' = In("captured") \ {c}
      BY <2>2 DEF AddTail, In, TypeOK
    <3>3. n' = n - 1
      BY <3>2, CapturedFinite, FS_RemoveElement
    <3> HIDE DEF n
    <3>4. arrived' + n' <= MaxPackets
      BY <1>n, <3>1, <3>3
    <3> QED
      BY <3>4 DEF WithinBound, n
  <2>3. CASE QueueWork(c)
    <3>1. arrived' = arrived
      BY <2>3 DEF QueueWork
    <3>2. In("captured")' = In("captured")
      BY <2>3 DEF QueueWork, In, TypeOK
    <3> QED
      BY <1>n, <3>1, <3>2 DEF WithinBound
  <2> QED
    BY <1>1, <2>1, <2>2, <2>3 DEF Filter
<1>2. ASSUME UNCHANGED <<arrived, filter>> PROVE WithinBound'
  <2>1. In("captured")' = In("captured")
    BY <1>2 DEF In
  <2> QED
    BY <1>n, <1>2, <2>1 DEF WithinBound
<1>3. Worker => UNCHANGED <<arrived, filter>>
  BY DEF Worker, StartWork, TriggerIrq, TriggerFails, WaitRetrieved,
         ReinitRetrieved, RemoveOldest
<1>4. Bottom => UNCHANGED <<arrived, filter>>
  BY DEF Bottom, RunBottom, GetOldest, CompleteRetrieved, ReadLen, UseData
<1>5. Probe \/ Remove => UNCHANGED <<arrived, filter>>
  BY DEF Probe, RequestIrq, EnableCapture, EnableReinit, Remove,
         DisableCapture, DisableComplete, FreeIrq, IrqFreed
<1>6. Exit => UNCHANGED <<arrived, filter>>
  BY DEF Exit, ExitUnregister, ExitComplete, ExitCancel, ExitFree
<1> QED
  BY <1>1, <1>2, <1>3, <1>4, <1>5, <1>6 DEF Next, NetNext, vars

(* The packets in the list are among those that may arrive.                *)
THEOREM Captured == Spec => [](Entries(list) \subseteq 1..MaxPackets)
<1>1. Init => OrderInv /\ WithinBound
  <2> SUFFICES ASSUME Init PROVE OrderInv /\ WithinBound
    OBVIOUS
  <2>1. list = <<>> /\ fetched = <<>> /\ arrived = 0
    BY DEF Init, Idle
  <2>2. InOrder(list, fetched, arrived)
    BY <2>1 DEF InOrder, Sorted
  <2>3. In("captured") = {}
    BY DEF Init, Idle, In
  <2>4. Cardinality(In("captured")) = 0
    BY <2>3, FS_EmptySet
  <2>5. WithinBound
    BY <2>1, <2>4, BoundsAssumption DEF WithinBound
  <2> QED
    BY <2>2, <2>5, InitTypeOK DEF OrderInv
<1>2. OrderInv /\ WithinBound /\ [Next]_vars => OrderInv' /\ WithinBound'
  BY StepInOrder, StepTypeOK, BoundStep DEF OrderInv
<1>3. OrderInv /\ WithinBound => Entries(list) \subseteq 1..MaxPackets
  <2> SUFFICES ASSUME OrderInv, WithinBound, NEW i \in 1..Len(list)
               PROVE  list[i] \in 1..MaxPackets
    BY DEF Entries
  <2>1. list[i] \in Nat \ {0}
    BY DEF OrderInv, TypeOK, NULL
  <2>2. list[i] <= arrived /\ arrived \in Nat
    BY DEF OrderInv, InOrder, TypeOK
  <2>3. arrived <= MaxPackets
    BY <2>2, CapturedFinite, BoundsAssumption DEF WithinBound
  <2> QED
    BY <2>1, <2>2, <2>3, BoundsAssumption
<1> QED
  BY <1>1, <1>2, <1>3, PTL DEF Spec

-----------------------------------------------------------------------------
(***************************************************************************)
(* Between two loads.                                                      *)
(***************************************************************************)
Quiet ==
  /\ handler => driver \notin {"unloaded", "draining"}
  /\ driver = "unloaded" => ~irq /\ bottom = "idle"

(* free_irq leaves no interrupt on its way and no handler inside           *)
(* cs421net_bottom, and none begins before the next request_irq, although  *)
(* works that were queued go on triggering.                                *)
THEOREM FreedIrqIsQuiet == Spec => []Quiet
<1>1. Init => Quiet
  BY DEF Init, Idle, Quiet
<1>2. Quiet /\ [Next]_vars => Quiet'
  <2> SUFFICES ASSUME Quiet, [Next]_vars PROVE Quiet'
    OBVIOUS
  <2> USE DEF Quiet, filterVars, workVars, bottomVars, driverVars, FilterStep, AddTo,
              WorkStep, TriggerTo, Leaves, BottomStep, Acknowledge,
              DriverStep, Switch, SetRetrieved, FreeList
  <2>1. ASSUME NEW c \in CPUs, Filter(c) PROVE Quiet'
    <3>1. UNCHANGED <<handler, driver, irq, bottom>>
      BY <2>1 DEF Filter, Capture, AddTail, QueueWork
    <3> QED
      BY <3>1
  <2>2. CASE Worker
    <3>1. UNCHANGED <<handler, driver, bottom>>
      BY <2>2 DEF Worker, StartWork, TriggerIrq, TriggerFails, WaitRetrieved,
                  ReinitRetrieved, RemoveOldest
    <3>2. CASE TriggerIrq
      <4>1. irq' = (irq \/ handler)
        BY <3>2 DEF TriggerIrq
      <4> QED
        BY <3>1, <4>1
    <3>3. CASE UNCHANGED irq
      BY <3>1, <3>3
    <3> QED
      BY <2>2, <3>2, <3>3 DEF Worker, StartWork, TriggerFails, WaitRetrieved,
                              ReinitRetrieved, RemoveOldest
  <2>3. CASE Bottom
    BY <2>3 DEF Bottom, RunBottom, GetOldest, CompleteRetrieved, ReadLen, UseData
  <2>4. CASE Probe
    BY <2>4 DEF Probe, RequestIrq, EnableCapture, EnableReinit
  <2>5. CASE Remove
    BY <2>5 DEF Remove, DisableCapture, DisableComplete, FreeIrq, IrqFreed
  <2>6. CASE Exit
    BY <2>6 DEF Exit, ExitUnregister, ExitComplete, ExitCancel, ExitFree
  <2>7. CASE UNCHANGED vars
    BY <2>7 DEF vars
  <2> QED
    BY <2>1, <2>2, <2>3, <2>4, <2>5, <2>6, <2>7 DEF Next, NetNext
<1> QED
  BY <1>1, <1>2, PTL DEF Spec
-----------------------------------------------------------------------------
(***************************************************************************)
(* cs421net_exit: the part of ExitReturns that needs no fairness.          *)
(***************************************************************************)
Unregistered == driver \in {"unregistered", "completed", "cancelled", "exited"}

(* A work is queued behind a running one.                                  *)
Behind == pending /\ worker # "idle"

(* cancel_work_sync waits for a work that waits for ever.                  *)
ExitHangs ==
  driver \in {"completed", "cancelled"} /\ worker = "wait" /\ retrieved = 0

(* After complete_all no work is left that would find the completion used  *)
(* up: the one to wait, if any, waits first.                               *)
GoesOn ==
  /\ Unregistered /\ ~Behind
  /\ driver # "unregistered" /\ (pending \/ worker \in {"trigger", "wait"})
       => retrieved > 0

LEMMA GoesOnStep ==
  TypeOK /\ DriverOK /\ GoesOn /\ [Next]_vars => GoesOn'
<1> SUFFICES ASSUME TypeOK, DriverOK, GoesOn, [Next]_vars PROVE GoesOn'
  OBVIOUS
<1>r. retrieved \in Nat
  BY DEF TypeOK
<1> USE DEF GoesOn, Unregistered, Behind, filterVars, workVars, bottomVars,
            driverVars, FilterStep, AddTo, WorkStep, TriggerTo, Leaves,
            BottomStep, Acknowledge, DriverStep, Switch, SetRetrieved, FreeList
<1>1. ASSUME NEW c \in CPUs, Filter(c) PROVE FALSE
  <2>1. filter[c] = "idle" /\ ~enabled
    BY DEF DriverOK
  <2> QED
    BY <1>1, <2>1 DEF Filter, Capture, AddTail, QueueWork
<1>2. CASE Worker
  BY <1>r, <1>2 DEF Worker, StartWork, TriggerIrq, TriggerFails, WaitRetrieved,
                    ReinitRetrieved, RemoveOldest
<1>3. CASE Bottom
  BY <1>r, <1>3 DEF Bottom, RunBottom, GetOldest, CompleteRetrieved, ReadLen, UseData
<1>4. ~Probe /\ ~Remove
  BY DEF Probe, RequestIrq, EnableCapture, EnableReinit, Remove, DisableCapture,
         DisableComplete, FreeIrq, IrqFreed
<1>5. CASE Exit
  BY <1>r, <1>5, CompleteAllAssumption
     DEF Exit, ExitUnregister, ExitComplete, ExitCancel, ExitFree
<1>6. CASE UNCHANGED vars
  BY <1>6 DEF vars
<1> QED
  BY <1>1, <1>2, <1>3, <1>4, <1>5, <1>6 DEF Next, NetNext

(* Once the target is unregistered and no work is queued behind a running  *)
(* one, cs421net_exit never waits for a work that nobody wakes, whatever   *)
(* earlier loads have left in the completion (ExitReturns).                *)
THEOREM ExitNeverHangs ==
  Spec => [](driver = "unregistered" /\ ~Behind => []~ExitHangs)
<1>1. driver = "unregistered" /\ ~Behind => GoesOn
  BY DEF GoesOn, Unregistered
<1>2. GoesOn => ~ExitHangs
  BY DEF GoesOn, ExitHangs
<1>3. EntryInv => TypeOK /\ DriverOK
  BY DEF EntryInv
<1> QED
  BY <1>1, <1>2, <1>3, GoesOnStep, EntryInvariance, PTL DEF Spec
-----------------------------------------------------------------------------
(***************************************************************************)
(* Lockstep in a load that is not the first.                               *)
(***************************************************************************)
HandlerOn ==
  handler <=> driver \in {"requested", "enabling", "loaded", "disabling", "freeing"}

LEMMA HandlerAlways == Spec => []HandlerOn
<1>1. Init => HandlerOn
  BY DEF Init, HandlerOn
<1>2. HandlerOn /\ [Next]_vars => HandlerOn'
  <2> SUFFICES ASSUME HandlerOn, [Next]_vars PROVE HandlerOn'
    OBVIOUS
  <2>1. CASE UNCHANGED <<handler, driver>>
    BY <2>1 DEF HandlerOn
  <2>2. CASE Probe \/ Remove \/ Exit
    BY <2>2
       DEF HandlerOn, DriverStep, Switch, SetRetrieved, FreeList, Probe, RequestIrq,
           EnableCapture, EnableReinit, Remove, DisableCapture, DisableComplete,
           FreeIrq, IrqFreed, Exit, ExitUnregister, ExitComplete, ExitCancel, ExitFree
  <2>3. NetNext => UNCHANGED <<handler, driver>>
    BY DEF NetNext, driverVars, Filter, FilterStep, Capture, AddTail, AddTo, QueueWork,
           Worker, WorkStep, StartWork, TriggerIrq, TriggerTo, TriggerFails,
           WaitRetrieved, ReinitRetrieved, RemoveOldest, Leaves, Bottom, BottomStep,
           RunBottom, GetOldest, CompleteRetrieved, Acknowledge, ReadLen, UseData
  <2> QED
    BY <2>1, <2>2, <2>3 DEF Next, vars
<1> QED
  BY <1>1, <1>2, PTL DEF Spec

(* In every load, from its reset of the completion on, interrupt thread and *)
(* worker never run ahead of each other, unless a work was waiting or an    *)
(* interrupt was being served at the reset (LockstepInLoad).                *)
THEOREM LockstepEveryLoad == Spec => LockstepInLoad
<1>1. ASSUME TypeOK, WorkerHasEntry, HandlerOn, Next, driver' = "loaded", InStepBefore
      PROVE  Lockstep'
  <2>1. CASE NetNext
    <3>1. driver = "loaded"
      BY <1>1, <2>1
         DEF NetNext, driverVars, Filter, FilterStep, Capture, AddTail, AddTo,
             QueueWork, Worker, WorkStep, StartWork, TriggerIrq, TriggerTo,
             TriggerFails, WaitRetrieved, ReinitRetrieved, RemoveOldest, Leaves,
             Bottom, BottomStep, RunBottom, GetOldest, CompleteRetrieved,
             Acknowledge, ReadLen, UseData
    <3> QED
      BY <1>1, <2>1, <3>1, LockstepStep DEF HandlerOn, InStepBefore
  <2>2. CASE EnableReinit
    <3>1. driver = "enabling" /\ retrieved' = 0 /\ UNCHANGED <<worker, irq, bottom>>
      BY <2>2 DEF EnableReinit, SetRetrieved, DriverStep, bottomVars
    <3> QED
      BY <1>1, <3>1 DEF Lockstep, InStepBefore
  <2>3. ~RequestIrq /\ ~EnableCapture /\ ~Remove /\ ~Exit
    BY <1>1 DEF DriverStep, Switch, SetRetrieved, FreeList, RequestIrq, EnableCapture,
                Remove, DisableCapture, DisableComplete, FreeIrq, IrqFreed, Exit,
                ExitUnregister, ExitComplete, ExitCancel, ExitFree
  <2> QED
    BY <1>1, <2>1, <2>2, <2>3 DEF Next, Probe
<1>2. EntryInv /\ HandlerOn /\ [Next]_vars
        => [driver' = "loaded" /\ InStepBefore => Lockstep']_vars
  BY <1>1 DEF EntryInv
<1> QED
  BY <1>2, EntryInvariance, HandlerAlways, PTL DEF Spec, LockstepInLoad
=============================================================================
