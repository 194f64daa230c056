------------------------------- MODULE Driver -------------------------------
(***************************************************************************)
(* The whole of proj2: the device (CS421Net), the game (Mastermind2), and  *)
(* what ties them together.  mastermind_probe registers the device files   *)
(* and the interrupt, step by step and with labels that undo the steps;    *)
(* mastermind_remove frees the games and undoes the rest; the interrupt    *)
(* thread holds the game's lock while it gets a packet and uses it.        *)
(*                                                                         *)
(* The freed games stay on games_list.  A call that looks at one, or the   *)
(* remove of a later load that walks the list, may do anything, so the     *)
(* behaviour ends there ("corrupt").  The exit of the device's module is   *)
(* in CS421Net only.                                                       *)
(***************************************************************************)
EXTENDS Integers, Sequences, FiniteSets

CONSTANTS CPUs, MaxPackets, MaxLoads, CompleteAll,        (* of CS421Net     *)
          Threads, Uids, UidOf, Admins, RandomCode, Guesses, Lasts, Garbage, Ints,
          MaxStarts, MaxGuesses,                          (* of Mastermind2  *)
          Payload,      (* the data of each packet, <<>> for another length  *)
          MaxHandled    (* Bound: interrupts handled                         *)

VARIABLES
  enabled, list, arrived, filter, pending, worker, retrieved, handler, irq,
  bottom, oldest, driver, loads, fetched, unannounced,
  NUM_COLORS, target_code, num_game_started, times_target_code_changed,
  num_invalid_change_attempts, games_list, call, highest, curr_player,
  bottomHighest,
  bind,         (* how far probe, its labels or remove are                   *)
  devices,      (* the device files and the sysfs file that exist            *)
  opened,       (* pairs of a process and a device file it has open          *)
  freed,        (* games at the head of games_list that remove has freed     *)
  corrupt,      (* a call or remove has looked at a freed game               *)
  careless,     (* history: a device file was open when the games were freed,*)
                (* or opened later                                           *)
  staleRead     (* history: the packet was freed before it was used          *)

netVars  == <<enabled, list, arrived, filter, pending, worker, retrieved,
              handler, irq, bottom, oldest, driver, loads, fetched, unannounced>>
gameVars == <<NUM_COLORS, target_code, num_game_started,
              times_target_code_changed, num_invalid_change_attempts, games_list,
              call, highest, curr_player, bottomHighest>>
fileVars == <<opened, freed, corrupt, careless>>
vars == <<netVars, gameVars, bind, devices, fileVars, staleRead>>

Payloads == {Payload[p] : p \in 1..MaxPackets} \ {<<>>}

Net  == INSTANCE CS421Net
Game == INSTANCE Mastermind2 WITH
          bottom <- bottom # "idle", Packets <- Payloads, MaxPackets <- MaxHandled,
          Refetch <- TRUE

ASSUME DeviceAssumption ==
  /\ IsFiniteSet(CPUs) /\ CompleteAll \in Nat \ {0}
  /\ MaxPackets \in Nat /\ MaxLoads \in Nat
ASSUME GameAssumption ==
  /\ UidOf \in [Threads -> Uids] /\ Admins \subseteq Uids
  /\ Guesses \subseteq [Game!Pegs -> Int] /\ Lasts \subseteq Int /\ Garbage \subseteq Int
  /\ RandomCode \in BOOLEAN /\ (RandomCode => 0 \notin Garbage) /\ Ints \subseteq Int
  /\ MaxStarts \in Nat /\ MaxGuesses \in Nat /\ MaxHandled \in Nat
ASSUME PayloadAssumption ==
  Payload \in [1..MaxPackets -> [Game!Pegs -> Int] \cup {<<>>}]

Files == {"mm", "mm_ctl"}

TypeOK ==
  /\ Net!TypeOK /\ Game!TypeOK
  /\ bind \in {"unbound", "mm", "mm_ctl", "irq", "bound", "noIrq", "noCtl",
               "noMm", "freed", "noFiles", "stopping"}
  /\ devices \subseteq Files \cup {"stats"}
  /\ opened \subseteq Threads \X Files
  /\ freed \in 0..Len(games_list)
  /\ corrupt \in BOOLEAN /\ careless \in BOOLEAN /\ staleRead \in BOOLEAN

-----------------------------------------------------------------------------
(***************************************************************************)
(* mastermind_probe and mastermind_remove.                                 *)
(***************************************************************************)
BindGo(from, to) ==
  /\ bind = from
  /\ bind' = to
  /\ UNCHANGED <<gameVars, staleRead>>

Register(from, file, to, label) ==
  /\ \/ BindGo(from, to) /\ devices' = devices \cup {file}
     \/ BindGo(from, label) /\ UNCHANGED devices
  /\ UNCHANGED <<netVars, fileVars>>

Withdraw(from, file, to) ==
  /\ BindGo(from, to)
  /\ devices' = devices \ {file}
  /\ UNCHANGED <<netVars, fileVars>>

CreateStats == Register("unbound", "stats", "mm", "unbound")
RegisterMm  == Register("mm", "mm", "mm_ctl", "noMm")
RegisterCtl == Register("mm_ctl", "mm_ctl", "irq", "noCtl")

RequestIrq ==
  /\ BindGo("irq", "bound")
  /\ Net!RequestIrq
  /\ UNCHANGED <<devices, fileVars>>

IrqFailsTo(label) ==
  /\ BindGo("irq", label)
  /\ UNCHANGED <<netVars, devices, fileVars>>

(* Fault: the wrong label. *)
IrqFailsLate == IrqFailsTo("noCtl")

IrqFails == IrqFailsTo("noIrq")

UndoCtl   == Withdraw("noIrq", "mm_ctl", "noCtl")
UndoMm    == Withdraw("noCtl", "mm", "noMm")
UndoStats == Withdraw("noMm", "stats", "unbound")

(* The walk over games_list meets the games of earlier loads first. *)
FreeGames ==
  /\ BindGo("bound", "freed")
  /\ driver = "loaded"
  /\ freed' = Len(games_list)
  /\ careless' = (careless \/ opened # {})
  /\ corrupt' = (corrupt \/ freed > 0)
  /\ UNCHANGED <<netVars, devices, opened>>

WithdrawMm  == Withdraw("freed", "mm", "noFiles")
WithdrawCtl == Withdraw("noFiles", "mm_ctl", "stopping")

(* cs421net_enable in probe; cs421net_disable and free_irq in remove. *)
SwitchNet ==
  /\ \/ bind = "bound" /\ (Net!EnableCapture \/ Net!EnableReinit)
     \/ bind = "stopping"
          /\ (Net!DisableCapture \/ Net!DisableComplete \/ Net!FreeIrq \/ Net!IrqFreed)
  /\ UNCHANGED <<gameVars, bind, devices, fileVars, staleRead>>

RemoveStats ==
  /\ driver = "unloaded"
  /\ Withdraw("stopping", "stats", "unbound")

-----------------------------------------------------------------------------
(***************************************************************************)
(* Processes.  The file_operations have no owner, so a file may be open,   *)
(* and a call in progress, while remove runs.                              *)
(***************************************************************************)
Calm == UNCHANGED <<netVars, bind, devices, staleRead>>

Open(t, file) ==
  /\ Calm
  /\ file \in devices /\ <<t, file>> \notin opened
  /\ opened' = opened \cup {<<t, file>>}
  /\ careless' = (careless \/ freed > 0)
  /\ UNCHANGED <<gameVars, freed, corrupt>>

Close(t, file) ==
  /\ Calm
  /\ <<t, file>> \in opened /\ call[t].op = "none"
  /\ opened' = opened \ {<<t, file>>}
  /\ UNCHANGED <<gameVars, freed, corrupt, careless>>

Enter(t, op) ==
  /\ Calm
  /\ <<t, IF op = "ctl" THEN "mm_ctl" ELSE "mm">> \in opened
  /\ Game!Enter(t, op)
  /\ UNCHANGED fileVars

LockFree == bottom \notin {"complete", "len", "use"}

(* find_game begins its search at the head of the list. *)
LooksAtFreed(t) ==
  \/ call[t].at = "find" /\ freed > 0
  \/ call[t].at = "body" /\ curr_player[t] \in 1..freed

Handle(t) ==
  /\ Calm
  /\ LockFree /\ ~LooksAtFreed(t)
  /\ Game!Find(t) \/ Game!Body(t)
  /\ UNCHANGED fileVars

UseFreed(t) ==
  /\ Calm
  /\ LockFree /\ LooksAtFreed(t)
  /\ corrupt' = TRUE
  /\ UNCHANGED <<gameVars, opened, freed, careless>>

-----------------------------------------------------------------------------
(***************************************************************************)
(* The interrupt thread.                                                   *)
(***************************************************************************)
Still == UNCHANGED <<bind, devices, fileVars>>

RunBottom ==
  /\ Net!RunBottom /\ Game!BottomEnter
  /\ UNCHANGED staleRead /\ Still

(* The lock is taken, and there is a packet or there is none. *)
GetPacket ==
  /\ list # <<>>
  /\ Net!GetOldest
  /\ UNCHANGED <<gameVars, staleRead>> /\ Still

GetNothing ==
  /\ list = <<>>
  /\ Net!GetOldest /\ Game!BottomReject
  /\ UNCHANGED staleRead /\ Still

GoOn ==
  /\ Net!CompleteRetrieved \/ Net!ReadLen
  /\ UNCHANGED <<gameVars, staleRead>> /\ Still

(* What is read from a packet that was freed may be anything, and something *)
(* else when it is read again.  A free between the two reads has the same   *)
(* outcomes as one before both.                                             *)
Found ==
  IF oldest \in Net!Entries(list) THEN {Payload[oldest]} ELSE Payloads \cup {<<>>}

Refuses(checked) == checked # <<>> => ~Game!WithinPalette(checked, bottomHighest)

(* Fault: a packet that is refused is not counted. *)
UsePacketUncounted ==
  /\ Net!UseData
  /\ staleRead' = (staleRead \/ oldest \notin Net!Entries(list))
  /\ \E checked, data \in Found :
       \/ checked # <<>> /\ data # <<>> /\ Game!BottomInstall(checked, data)
       \/ Refuses(checked) /\ Game!BottomLeave
            /\ UNCHANGED <<target_code, times_target_code_changed,
                           num_invalid_change_attempts>>
  /\ Still

(* Fault: all active games are changed too. *)
UsePacketForAll ==
  /\ Net!UseData
  /\ staleRead' = (staleRead \/ oldest \notin Net!Entries(list))
  /\ \E checked, data \in Found :
       \/ checked # <<>> /\ data # <<>> /\ Game!BottomInstall(checked, data)
       \/ Refuses(checked) /\ Game!BottomReject
  /\ corrupt' = (freed > 0)
  /\ UNCHANGED <<bind, devices, opened, freed, careless>>

UsePacket ==
  /\ Net!UseData
  /\ staleRead' = (staleRead \/ oldest \notin Net!Entries(list))
  /\ \E checked, data \in Found :
       \/ checked # <<>> /\ data # <<>> /\ Game!BottomInstall(checked, data)
       \/ Refuses(checked) /\ Game!BottomReject
  /\ Still

(* The device by itself. *)
Device ==
  /\ (\E c \in CPUs : Net!Filter(c)) \/ Net!Worker
  /\ UNCHANGED <<gameVars, staleRead>> /\ Still

-----------------------------------------------------------------------------
Init ==
  /\ Net!Init /\ Game!Init
  /\ bind = "unbound" /\ devices = {} /\ opened = {} /\ freed = 0
  /\ corrupt = FALSE /\ careless = FALSE /\ staleRead = FALSE

Probe  == \/ CreateStats \/ RegisterMm \/ RegisterCtl \/ RequestIrq
          \/ IrqFails \/ UndoCtl \/ UndoMm \/ UndoStats
Remove == FreeGames \/ WithdrawMm \/ WithdrawCtl \/ RemoveStats
Process(t) ==
  \/ \E file \in Files : Open(t, file) \/ Close(t, file)
  \/ (\E op \in Game!Ops : Enter(t, op)) \/ Handle(t) \/ UseFreed(t)
Bottom == RunBottom \/ GetPacket \/ GetNothing \/ GoOn \/ UsePacket

Next ==
  /\ ~corrupt
  /\ Probe \/ Remove \/ SwitchNet \/ (\E t \in Threads : Process(t)) \/ Bottom \/ Device

Spec == Init /\ [][Next]_vars

-----------------------------------------------------------------------------
(* A probe that fails at any of its steps, and a remove that has returned, *)
(* leave no file, no handler, no interrupt and no capture behind.          *)
NothingLeftBehind ==
  /\ TypeOK
  /\ bind = "unbound" => devices = {} /\ ~handler /\ ~enabled /\ ~irq /\ bottom = "idle"

(* Until the first remove, the statistics count every packet that was      *)
(* handed out exactly once, as valid or invalid (mm_stats_show): none is   *)
(* counted twice and no interrupt finds the device empty, over the probe's *)
(* race of enable with the first packets.                                  *)
InHand == IF LockFree THEN 0 ELSE 1
EachPacketCountedOnce ==
  bind = "bound" /\ loads = 1 =>
    /\ Game!PacketsHandled + InHand = Len(fetched)
    /\ Net!FetchedOnce

(* The code that all play against is that of start, or was in one packet   *)
(* that the device handed out, whole, unless a freed packet was read.      *)
CodeHasOrigin ==
  ~staleRead => target_code \in
     {[p \in 1..4 |-> 0], Game!FixedCode} \cup {Payload[p] : p \in Net!Entries(fetched)}

(* Remove frees the games before the interrupt is off and leaves them on   *)
(* games_list.  There are two ways to meet a freed game and no third: a    *)
(* device file is open while they are freed or opened later, or the driver *)
(* is probed again and its next remove walks the list.  The interrupt, and *)
(* a first load without such a file, meet none.                            *)
FreedGamesLeftAlone == corrupt => careless \/ (loads > 1 /\ bind = "freed")
=============================================================================
