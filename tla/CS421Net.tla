------------------------------ MODULE CS421Net ------------------------------
(***************************************************************************)
(* The virtual network device of proj2/xt_cs421net.c and the interrupt     *)
(* thread that consumes its data (proj2/mastermind2.c, cs421net_bottom).   *)
(*                                                                         *)
(*   filter_tg (softirq, any CPU)    appends a packet, queues the work     *)
(*   cs421net_work_func (workqueue)  raises the interrupt, waits for the   *)
(*                                   acknowledgement, frees the oldest     *)
(*   the interrupt thread            calls cs421net_get_data, uses data    *)
(*   the driver that uses the device requests the interrupt, enables, ...  *)
(*                                                                         *)
(* A packet is its position in the order of arrival on cs421net_list, so   *)
(* a pointer to a list entry is the number of the packet and 0 is NULL.    *)
(* Every section protected by the spin lock "lock" is one step; what the   *)
(* code does outside the lock is a step of its own.                        *)
(***************************************************************************)
EXTENDS Naturals, Sequences, FiniteSets

CONSTANTS
  CPUs,         (* CPUs that may be inside filter_tg at the same time.       *)
  MaxPackets,   (* Bound: packets captured in a behaviour.                   *)
  MaxLoads,     (* Bound: times the using driver is probed.                  *)
  CompleteAll   (* What complete_all adds to a completion (UINT_MAX / 2).    *)

ASSUME CPUsAssumption == IsFiniteSet(CPUs)
ASSUME BoundsAssumption == MaxPackets \in Nat /\ MaxLoads \in Nat
ASSUME CompleteAllAssumption == CompleteAll \in Nat \ {0}

NULL == 0

VARIABLES
  enabled,      (* cs421net_enabled                                          *)
  list,         (* cs421net_list, oldest first                               *)
  arrived,      (* packets appended to the list so far                       *)
  filter,       (* progress of filter_tg on each CPU                         *)
  pending,      (* cs421net_work sits in the workqueue, not yet started      *)
  worker,       (* progress of cs421net_work_func                            *)
  retrieved,    (* the completion's done counter                             *)
  handler,      (* a threaded handler is registered for CS421NET_IRQ         *)
  irq,          (* the top half asked for the interrupt thread to run        *)
  bottom,       (* progress of the interrupt thread in cs421net_bottom       *)
  oldest,       (* entry that cs421net_get_data points to                    *)
  driver,       (* progress of probe and remove, and of cs421net_exit        *)
  loads,        (* times the driver was probed                               *)
  fetched,      (* history: entries that get_data found, in order            *)
  unannounced   (* history: entries whose interrupt could not be raised      *)

filterVars == <<arrived, filter>>
workVars   == <<pending, worker>>
bottomVars == <<bottom, oldest, fetched>>
driverVars == <<enabled, handler, driver, loads>>
vars == <<enabled, list, arrived, filter, pending, worker, retrieved, handler,
          irq, bottom, oldest, driver, loads, fetched, unannounced>>

FilterPc == {"idle", "captured", "added"}
WorkerPc == {"idle", "trigger", "wait", "reinit", "remove"}
BottomPc == {"idle", "fetch", "complete", "len", "use"}
DriverPc == {"unloaded", "requested", "enabling", "loaded", "disabling",
             "freeing", "draining", "unregistered", "completed", "cancelled", "exited"}

TypeOK ==
  /\ enabled \in BOOLEAN
  /\ list \in Seq(Nat \ {NULL})
  /\ arrived \in Nat
  /\ filter \in [CPUs -> FilterPc]
  /\ pending \in BOOLEAN
  /\ worker \in WorkerPc
  /\ retrieved \in Nat
  /\ handler \in BOOLEAN
  /\ irq \in BOOLEAN
  /\ bottom \in BottomPc
  /\ oldest \in Nat
  /\ driver \in DriverPc
  /\ loads \in Nat
  /\ fetched \in Seq(Nat)
  /\ unannounced \in SUBSET Nat

-----------------------------------------------------------------------------
(***************************************************************************)
(* filter_tg: the netfilter target.  A packet that is not TCP, has no      *)
(* payload, or finds no memory leaves no trace and is not a step.          *)
(***************************************************************************)

In(pc) == {c \in CPUs : filter[c] = pc}

FilterStep(c, from, to) ==
  /\ filter[c] = from
  /\ filter' = [filter EXCEPT ![c] = to]
  /\ UNCHANGED <<worker, retrieved, irq, bottomVars, driverVars, unannounced>>

Capture(c) ==
  /\ FilterStep(c, "idle", "captured")
  /\ enabled
  /\ arrived + Cardinality(In("captured")) < MaxPackets
  /\ UNCHANGED <<list, arrived, pending>>

AddTo(c, new) ==
  /\ FilterStep(c, "captured", "added")
  /\ arrived' = arrived + 1
  /\ list' = new
  /\ UNCHANGED pending

(* Fault: list_add for list_add_tail. *)
AddHead(c) == AddTo(c, <<arrived + 1>> \o list)

AddTail(c) == AddTo(c, Append(list, arrived + 1))

(* queue_work does nothing when the work item is pending already. *)
QueueWork(c) ==
  /\ FilterStep(c, "added", "idle")
  /\ pending' = TRUE
  /\ UNCHANGED <<list, arrived>>

-----------------------------------------------------------------------------
(***************************************************************************)
(* The single-threaded workqueue and cs421net_work_func.                   *)
(***************************************************************************)
WorkStep(from, to) ==
  /\ worker = from
  /\ worker' = to
  /\ UNCHANGED <<filterVars, bottomVars, driverVars>>

StartWork ==
  /\ WorkStep("idle", "trigger")
  /\ pending
  /\ pending' = FALSE
  /\ UNCHANGED <<list, retrieved, irq, unannounced>>

(* trigger_irq runs the top half, which wakes the interrupt thread. *)
TriggerTo(next) ==
  /\ WorkStep("trigger", next)
  /\ irq' = (irq \/ handler)
  /\ UNCHANGED <<list, pending, retrieved, unannounced>>

(* Fault: the work does not wait for the acknowledgement. *)
TriggerWithoutWait == TriggerTo("remove")

TriggerIrq == TriggerTo("wait")

TriggerFails ==
  /\ WorkStep("trigger", "remove")
  /\ unannounced' = unannounced \cup {list[i] : i \in 1..Len(list) \cap {1}}
  /\ UNCHANGED <<list, pending, retrieved, irq>>

WaitRetrieved ==
  /\ WorkStep("wait", "reinit")
  /\ retrieved > 0
  /\ retrieved' = retrieved - 1
  /\ UNCHANGED <<list, pending, irq, unannounced>>

ReinitRetrieved ==
  /\ WorkStep("reinit", "remove")
  /\ retrieved' = 0
  /\ UNCHANGED <<list, pending, irq, unannounced>>

Leaves(rest) ==
  /\ WorkStep("remove", "idle")
  /\ list' = IF list = <<>> THEN list ELSE rest
  /\ UNCHANGED <<pending, retrieved, irq, unannounced>>

(* Fault: the worker removes the newest entry. *)
RemoveNewest == Leaves(SubSeq(list, 1, Len(list) - 1))

RemoveOldest == Leaves(Tail(list))

-----------------------------------------------------------------------------
(***************************************************************************)
(* The interrupt thread: cs421net_bottom up to its use of the data, and    *)
(* inside it cs421net_get_data.                                            *)
(***************************************************************************)
BottomStep(from, to) ==
  /\ bottom = from
  /\ bottom' = to
  /\ UNCHANGED <<list, filterVars, workVars, driverVars, unannounced>>

RunBottom ==
  /\ BottomStep("idle", "fetch")
  /\ irq
  /\ irq' = FALSE
  /\ UNCHANGED <<retrieved, oldest, fetched>>

GetOldest ==
  /\ \/ /\ list = <<>>
        /\ BottomStep("fetch", "idle")
        /\ oldest' = NULL
        /\ UNCHANGED fetched
     \/ /\ list # <<>>
        /\ BottomStep("fetch", "complete")
        /\ oldest' = Head(list)
        /\ fetched' = Append(fetched, Head(list))
  /\ UNCHANGED <<retrieved, irq>>

Acknowledge(n) ==
  /\ BottomStep("complete", "len")
  /\ retrieved' = retrieved + n
  /\ UNCHANGED <<irq, oldest, fetched>>

(* Fault: get_data does not complete. *)
NoComplete == Acknowledge(0)

CompleteRetrieved == Acknowledge(1)

(* *len = oldest->len; return oldest->data. *)
ReadLen ==
  /\ BottomStep("len", "use")
  /\ UNCHANGED <<retrieved, irq, oldest, fetched>>

(* cs421net_bottom reads data[0 .. NUM_PEGS - 1] and returns. *)
UseData ==
  /\ BottomStep("use", "idle")
  /\ oldest' = NULL
  /\ UNCHANGED <<retrieved, irq, fetched>>

-----------------------------------------------------------------------------
(***************************************************************************)
(* The driver that uses the device (mastermind_probe, mastermind_remove)   *)
(* and cs421net_exit, which runs only when no driver uses the module.      *)
(* enable and disable are two statements each, with no lock.               *)
(***************************************************************************)
DriverStep(from, to) ==
  /\ driver = from
  /\ driver' = to
  /\ UNCHANGED <<filterVars, worker, irq, bottomVars, unannounced>>

RequestIrq ==
  /\ DriverStep("unloaded", "requested")
  /\ loads < MaxLoads
  /\ loads' = loads + 1
  /\ handler' = TRUE
  /\ UNCHANGED <<list, pending, retrieved, enabled>>

Switch(from, to, on) ==
  /\ DriverStep(from, to)
  /\ enabled' = on
  /\ UNCHANGED <<list, pending, retrieved, handler, loads>>

SetRetrieved(from, to, value) ==
  /\ DriverStep(from, to)
  /\ retrieved' = value
  /\ UNCHANGED <<list, pending, enabled, handler, loads>>

EnableCapture == Switch("requested", "enabling", TRUE)
EnableReinit == SetRetrieved("enabling", "loaded", 0)

DisableCapture == Switch("loaded", "disabling", FALSE)
DisableComplete ==
  SetRetrieved("disabling", "freeing",
               IF retrieved = 0 THEN CompleteAll ELSE retrieved)

(* free_irq removes the handler, then waits for the interrupt thread. *)
FreeIrq ==
  /\ DriverStep("freeing", "draining")
  /\ handler' = FALSE
  /\ UNCHANGED <<list, pending, retrieved, enabled, loads>>

IrqFreed ==
  /\ DriverStep("draining", "unloaded")
  /\ bottom = "idle" /\ ~irq
  /\ UNCHANGED <<list, pending, retrieved, enabled, handler, loads>>

ExitUnregister ==
  /\ Switch("unloaded", "unregistered", FALSE)
  /\ In("idle") = CPUs

(* Fault: complete_all is forgotten. *)
ExitWithoutComplete == SetRetrieved("unregistered", "completed", retrieved)

ExitComplete ==
  SetRetrieved("unregistered", "completed", retrieved + CompleteAll)

(* cancel_work_sync takes the work off the queue, then waits for it. *)
ExitCancel ==
  /\ DriverStep("completed", "cancelled")
  /\ pending' = FALSE
  /\ UNCHANGED <<list, retrieved, enabled, handler, loads>>

FreeList(ready) ==
  /\ DriverStep("cancelled", "exited")
  /\ ready
  /\ list' = <<>>
  /\ UNCHANGED <<pending, retrieved, enabled, handler, loads>>

(* Fault: the list is freed without waiting for the work. *)
ExitFreeEarly == FreeList(TRUE)

ExitFree == FreeList(worker = "idle")

-----------------------------------------------------------------------------
Idle ==
  /\ list = <<>> /\ arrived = 0 /\ filter = [c \in CPUs |-> "idle"]
  /\ pending = FALSE /\ worker = "idle" /\ retrieved = 0
  /\ irq = FALSE /\ bottom = "idle" /\ oldest = NULL
  /\ fetched = <<>> /\ unannounced = {}

(* cs421net_init has run: the target is registered, capture is off. *)
Init ==
  /\ Idle
  /\ enabled = FALSE /\ handler = FALSE /\ driver = "unloaded" /\ loads = 0

(* A driver was probed while no packet was in the device. *)
LoadedInit ==
  /\ Idle
  /\ enabled = TRUE /\ handler = TRUE /\ driver = "loaded" /\ loads = 1

Filter(c) == Capture(c) \/ AddTail(c) \/ QueueWork(c)
Worker == \/ StartWork \/ TriggerIrq \/ TriggerFails
          \/ WaitRetrieved \/ ReinitRetrieved \/ RemoveOldest
Bottom == RunBottom \/ GetOldest \/ CompleteRetrieved \/ ReadLen \/ UseData
Probe  == RequestIrq \/ EnableCapture \/ EnableReinit
Remove == DisableCapture \/ DisableComplete \/ FreeIrq \/ IrqFreed
Exit   == ExitUnregister \/ ExitComplete \/ ExitCancel \/ ExitFree

NetNext == (\E c \in CPUs : Filter(c)) \/ Worker \/ Bottom
Next    == NetNext \/ Probe \/ Remove \/ Exit

Spec == Init /\ [][Next]_vars

(***************************************************************************)
(* A softirq runs to its end, the kernel schedules the workqueue's thread  *)
(* and the interrupt thread, and a probe or remove that has begun goes on. *)
(* Nothing obliges a packet to arrive or a driver to come or go.           *)
(***************************************************************************)
NetFairness ==
  /\ \A c \in CPUs : WF_vars(AddTail(c) \/ QueueWork(c))
  /\ WF_vars(Worker)
  /\ WF_vars(Bottom)
DriverFairness ==
  WF_vars(EnableCapture \/ EnableReinit \/ DisableComplete \/ FreeIrq
          \/ IrqFreed)
ExitFairness == WF_vars(ExitComplete \/ ExitCancel \/ ExitFree)

(* The whole life of the module. *)
LifeSpec == Spec /\ NetFairness /\ DriverFairness /\ ExitFairness
(* While one driver stays loaded. *)
SteadySpec == LoadedInit /\ [][NetNext]_vars /\ NetFairness
(* The driver is probed and never removed. *)
ProbeSpec == Init /\ [][NetNext \/ Probe]_vars /\ NetFairness /\ DriverFairness

-----------------------------------------------------------------------------
(***************************************************************************)
(* Properties.                                                             *)
(***************************************************************************)
Entries(s) == {s[i] : i \in 1..Len(s)}

(* Every work that is running, queued, or about to be queued by a CPU that *)
(* has appended its packet.  Each of them will free one entry.             *)
WorksOwed ==
  Cardinality(In("added")) + (IF pending THEN 1 ELSE 0)
                           + (IF worker # "idle" THEN 1 ELSE 0)

(* The work that runs finds an entry to free: works never outnumber the    *)
(* entries, whatever probe, remove and exit do between the steps of        *)
(* filter_tg and cs421net_work_func, which hold the lock only for the list *)
(* operation itself.                                                       *)
WorkerHasEntry == Len(list) >= WorksOwed

(* cs421net_get_data hands packets out in the order of arrival, over       *)
(* every removal and reload of the driver; the same packet may come twice. *)
FetchedInOrder ==
  /\ TypeOK
  /\ \A i, j \in 1..Len(fetched) : i <= j => fetched[i] <= fetched[j]

(* While the driver stays loaded, the interrupt thread and the worker work *)
(* in lockstep through the completion: at most one of an interrupt, an     *)
(* unfinished get_data and an unconsumed acknowledgement exists, and the   *)
(* worker is waiting exactly then.                                         *)
Lockstep ==
  /\ retrieved \in {0, 1}
  /\ worker = "wait" <=> (irq \/ bottom \in {"fetch", "complete"} \/ retrieved = 1)
  /\ irq => retrieved = 0 /\ bottom \in {"idle", "len", "use"}
  /\ bottom \in {"fetch", "complete"} => retrieved = 0

InStepBefore ==
  IF driver = "loaded" THEN Lockstep ELSE worker # "wait" /\ ~irq /\ bottom = "idle"

(* They are in lockstep in every load, whatever earlier loads have left    *)
(* behind, from the reset of the completion in cs421net_enable on, unless  *)
(* at that moment a work is waiting, for a packet captured since the flag  *)
(* was set or before, or an interrupt is being served.                     *)
LockstepInLoad == [][driver' = "loaded" /\ InStepBefore => Lockstep']_vars

(* While the driver stays loaded, the interrupt thread never finds the     *)
(* list empty, the "packet of length 0" that cs421net_bottom would count   *)
(* as an invalid attempt to change the code.                               *)
NeverNull == bottom = "fetch" => list # <<>>

(* While the driver stays loaded no packet is given to it twice. *)
FetchedOnce ==
  \A i, j \in 1..Len(fetched) : i # j => fetched[i] # fetched[j]

(* While the driver stays loaded the worker frees no packet that nobody    *)
(* has seen, unless its interrupt could not be raised.                     *)
NoSilentDrop ==
  1..arrived \subseteq Entries(list) \cup Entries(fetched) \cup unannounced

(* While the driver stays loaded, device and driver together are the queue *)
(* of PacketQueue: the head is settled from the moment get_data finds it,  *)
(* or trigger_irq fails for it, until the worker frees it.                 *)
HeadSettled ==
  \/ bottom = "complete"
  \/ worker = "wait" /\ retrieved = 1
  \/ worker \in {"reinit", "remove"}

PQ == INSTANCE PacketQueue WITH
        queue <- list, settled <- HeadSettled, delivered <- fetched,
        givenUp <- unannounced

IsPacketQueue == PQ!Spec

(* A work that started returns: its interrupt is acknowledged. *)
WorkReturns == worker # "idle" ~> worker = "idle"

(* cs421net_exit returns, and so removing the module ends, unless a work   *)
(* is queued behind a running one once no packet can come any more.  In    *)
(* that case the running work's reinit_completion may undo complete_all    *)
(* before the queued one waits for it.                                     *)
ExitReturns ==
  driver = "unregistered" /\ ~(pending /\ worker # "idle") ~> driver = "exited"

(* Comment at xt_cs421net.c:2: every captured packet raises an interrupt   *)
(* and is handed out or, when trigger_irq fails, dropped.                  *)
EveryPacketProcessed ==
  \A p \in 1..MaxPackets :
    arrived >= p ~> p \in Entries(fetched) \cup unannounced

(* It is so as long as no packet has to share the pending work of another, *)
(* whatever the CPUs, the worker and the interrupt thread do meanwhile.    *)
ProcessedUnlessShared ==
  [](Len(list) = WorksOwed) => EveryPacketProcessed

(* Comment at xt_cs421net.c:75: get_data returns data still pending, so    *)
(* the entry is still allocated when its length and bytes are read.        *)
ReadsLiveEntry == bottom \in {"len", "use"} => oldest \in Entries(list)
=============================================================================
