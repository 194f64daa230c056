---------------------------- MODULE DriverProofs ----------------------------
(***************************************************************************)
(* Theorems about the driver as a whole: it runs the device and the game   *)
(* as they are specified, so what is proved of them holds in it; and what  *)
(* only their composition shows.                                           *)
(***************************************************************************)
EXTENDS Driver, TLAPS

(* The theorems about the device and about the game.                       *)
NetP  == INSTANCE CS421NetProofs
GameP == INSTANCE Mastermind2Proofs WITH
           bottom <- bottom # "idle", Packets <- Payloads, MaxPackets <- MaxHandled,
           Refetch <- TRUE

-----------------------------------------------------------------------------
(***************************************************************************)
(* Net and NetP, Game and GameP are two instances of the same modules.     *)
(***************************************************************************)
LEMMA SameDevice ==
  /\ Net!Init <=> NetP!Init
  /\ Net!NetNext <=> NetP!NetNext
  /\ Net!Probe <=> NetP!Probe
  /\ Net!Next <=> NetP!Next
  /\ (UNCHANGED Net!vars) <=> UNCHANGED NetP!vars
<1>1. \A c \in CPUs : Net!Filter(c) <=> NetP!Filter(c)
  BY DEF
     Net!filterVars, Net!workVars, Net!bottomVars, Net!driverVars,
     Net!NULL, Net!In, Net!Cardinality, Net!FilterStep, Net!Capture,
     Net!AddTo, Net!AddTail, Net!QueueWork, Net!Filter, NetP!filterVars,
     NetP!workVars, NetP!bottomVars, NetP!driverVars, NetP!NULL, NetP!In,
     NetP!Cardinality, NetP!FilterStep, NetP!Capture, NetP!AddTo,
     NetP!AddTail, NetP!QueueWork, NetP!Filter
<1>2. Net!Worker <=> NetP!Worker
  BY DEF
     Net!filterVars, Net!workVars, Net!bottomVars, Net!driverVars,
     Net!WorkStep, Net!StartWork, Net!TriggerTo, Net!TriggerIrq,
     Net!TriggerFails, Net!WaitRetrieved,
     Net!ReinitRetrieved, Net!Leaves, Net!RemoveOldest, Net!Worker,
     NetP!filterVars, NetP!workVars, NetP!bottomVars, NetP!driverVars,
     NetP!WorkStep, NetP!StartWork, NetP!TriggerTo, NetP!TriggerIrq,
     NetP!TriggerFails, NetP!WaitRetrieved,
     NetP!ReinitRetrieved, NetP!Leaves, NetP!RemoveOldest, NetP!Worker
<1>3. Net!Bottom <=> NetP!Bottom
  BY DEF
     Net!filterVars, Net!workVars, Net!bottomVars, Net!driverVars,
     Net!NULL, Net!BottomStep, Net!RunBottom, Net!GetOldest,
     Net!Acknowledge, Net!CompleteRetrieved, Net!ReadLen, Net!UseData,
     Net!Bottom, NetP!filterVars, NetP!workVars, NetP!bottomVars,
     NetP!driverVars, NetP!NULL, NetP!BottomStep, NetP!RunBottom,
     NetP!GetOldest, NetP!Acknowledge, NetP!CompleteRetrieved,
     NetP!ReadLen, NetP!UseData, NetP!Bottom
<1>4. (Net!Probe <=> NetP!Probe) /\ (Net!Remove <=> NetP!Remove)
  BY DEF
     Net!filterVars, Net!workVars, Net!bottomVars, Net!driverVars, Net!In,
     Net!DriverStep, Net!RequestIrq, Net!Switch, Net!SetRetrieved,
     Net!EnableCapture, Net!EnableReinit, Net!DisableCapture,
     Net!DisableComplete, Net!FreeIrq, Net!IrqFreed, Net!Probe,
     Net!Remove, NetP!filterVars, NetP!workVars, NetP!bottomVars,
     NetP!driverVars, NetP!In, NetP!DriverStep, NetP!RequestIrq,
     NetP!Switch, NetP!SetRetrieved, NetP!EnableCapture,
     NetP!EnableReinit, NetP!DisableCapture, NetP!DisableComplete,
     NetP!FreeIrq, NetP!IrqFreed, NetP!Probe, NetP!Remove
<1>5. Net!Exit <=> NetP!Exit
  BY DEF
     Net!filterVars, Net!workVars, Net!bottomVars, Net!driverVars, Net!In,
     Net!DriverStep, Net!Switch, Net!SetRetrieved, Net!ExitUnregister,
     Net!ExitComplete, Net!ExitCancel, Net!FreeList, Net!ExitFree,
     Net!Exit, NetP!filterVars, NetP!workVars, NetP!bottomVars,
     NetP!driverVars, NetP!In, NetP!DriverStep, NetP!Switch,
     NetP!SetRetrieved, NetP!ExitUnregister, NetP!ExitComplete,
     NetP!ExitCancel, NetP!FreeList, NetP!ExitFree, NetP!Exit
<1>6. (Net!Init <=> NetP!Init) /\ ((UNCHANGED Net!vars) <=> UNCHANGED NetP!vars)
  BY DEF Net!Init, Net!Idle, Net!NULL, NetP!Init, NetP!Idle, NetP!NULL, Net!vars, NetP!vars
<1>7. Net!NetNext <=> NetP!NetNext
  BY <1>1, <1>2, <1>3 DEF Net!NetNext, NetP!NetNext
<1> QED
  BY <1>4, <1>5, <1>6, <1>7 DEF Net!Next, NetP!Next

(* The steps of the game when no packet changes under the interrupt thread. *)
GameOnce ==
  \/ \E t \in Threads : Game!SysCall(t)
  \/ Game!BottomEnter \/ Game!BottomReject
  \/ \E data \in Payloads : Game!BottomInstall(data, data)

LEMMA SameGame ==
  /\ Game!Init <=> GameP!Init
  /\ Game!Next <=> GameP!Next
  /\ GameOnce <=> GameP!NextOnce
  /\ (UNCHANGED Game!vars) <=> UNCHANGED GameP!vars
<1>1. ASSUME NEW code, NEW guess
      PROVE  /\ Game!NumBlack(code, guess) = GameP!NumBlack(code, guess)
             /\ Game!NumWhite(code, guess) = GameP!NumWhite(code, guess)
  BY DEF
     Game!NUM_PEGS, Game!Pegs, Game!Black, Game!Places, Game!FirstOf, Game!LookUp,
     Game!Unscored, Game!NumBlack, Game!NumWhite, Game!Cardinality,
     GameP!NUM_PEGS, GameP!Pegs, GameP!Black, GameP!Places, GameP!FirstOf, GameP!LookUp,
     GameP!Unscored, GameP!NumBlack, GameP!NumWhite, GameP!Cardinality
<1>2. ASSUME NEW lasts, NEW admin PROVE Game!Requests(lasts, admin) = GameP!Requests(lasts, admin)
  BY DEF
     Game!Written, Game!CtlInputs, Game!BytesCopied, Game!Command,
     Game!Requests, GameP!Written, GameP!CtlInputs, GameP!BytesCopied,
     GameP!Command, GameP!Requests
<1>3. \A t \in Threads, op \in Game!Ops : Game!Enter(t, op) <=> GameP!Enter(t, op)
  BY DEF
     Game!codeVars, Game!statVars, Game!processVars, Game!bottomVars,
     Game!NULL, Game!Enter, GameP!codeVars, GameP!statVars,
     GameP!processVars, GameP!bottomVars, GameP!NULL, GameP!Enter
<1>4. \A t \in Threads : Game!Find(t) <=> GameP!Find(t)
  BY DEF
     Game!codeVars, Game!statVars, Game!processVars, Game!bottomVars,
     Game!NULL, Game!Says, Game!NewGame, Game!GamesOf, Game!Found,
     Game!FindOld, Game!FindNew, Game!FindFails, Game!Find,
     GameP!codeVars, GameP!statVars, GameP!processVars, GameP!bottomVars,
     GameP!NULL, GameP!Says, GameP!NewGame, GameP!GamesOf, GameP!Found,
     GameP!FindOld, GameP!FindNew, GameP!FindFails, GameP!Find
<1>5. \A t \in Threads : Game!Body(t) <=> GameP!Body(t)
  <2> SUFFICES ASSUME NEW t \in Threads PROVE Game!Body(t) <=> GameP!Body(t)
    OBVIOUS
  <2>1. (Game!Leave(t) <=> GameP!Leave(t)) /\ (Game!Return(t) <=> GameP!Return(t))
    BY DEF
       Game!codeVars, Game!statVars, Game!processVars, Game!bottomVars,
       Game!NULL, Game!Return, Game!Leave, GameP!codeVars,
       GameP!statVars, GameP!processVars, GameP!bottomVars, GameP!NULL,
       GameP!Return, GameP!Leave
  <2>2. \A op : Game!InBody(t, op) <=> GameP!InBody(t, op)
    BY DEF Game!InBody, GameP!InBody
  <2>3. Game!CanGuess(t) <=> GameP!CanGuess(t)
    BY DEF Game!CanGuess, GameP!CanGuess, Game!Mine, GameP!Mine, Game!NULL, GameP!NULL
  <2>4. \A digits, top : Game!WithinPalette(digits, top) <=> GameP!WithinPalette(digits, top)
    BY DEF Game!WithinPalette, GameP!WithinPalette, Game!Pegs, GameP!Pegs,
           Game!NUM_PEGS, GameP!NUM_PEGS
  <2>5. \A g, guess : Game!Scored(g, guess) = GameP!Scored(g, guess)
    BY <1>1 DEF Game!Scored, GameP!Scored, Game!Says, GameP!Says, Game!NUM_PEGS,
                GameP!NUM_PEGS
  <2>6. \A g : Game!SetGame(t, g) <=> GameP!SetGame(t, g)
    BY DEF Game!SetGame, GameP!SetGame
  <2>7. Game!Mine(t) = GameP!Mine(t)
    BY DEF Game!Mine, GameP!Mine
  <2>8. \A guess : Game!Write(t, guess) <=> GameP!Write(t, guess)
    BY <2>1, <2>2, <2>3, <2>4, <2>5, <2>6, <2>7
       DEF Game!Write, GameP!Write, Game!codeVars, GameP!codeVars, Game!statVars,
           GameP!statVars
  <2>9. \A g : Game!Started(g) = GameP!Started(g) /\ Game!Stopped(g) = GameP!Stopped(g)
    BY DEF Game!Started, GameP!Started, Game!Stopped, GameP!Stopped, Game!Says, GameP!Says
  <2>10. Game!NewCodes = GameP!NewCodes
    BY DEF Game!NewCodes, GameP!NewCodes, Game!FixedCode, GameP!FixedCode, Game!Pegs,
           GameP!Pegs, Game!NUM_PEGS, GameP!NUM_PEGS, Game!Remainders, GameP!Remainders
  <2>11. Game!CtlStart(t) <=> GameP!CtlStart(t)
    BY <2>1, <2>6, <2>7, <2>9, <2>10 DEF Game!CtlStart, GameP!CtlStart
  <2>12. Game!CtlQuit(t) <=> GameP!CtlQuit(t)
    BY <2>1, <2>6, <2>7, <2>9
       DEF Game!CtlQuit, GameP!CtlQuit, Game!codeVars, GameP!codeVars, Game!statVars,
           GameP!statVars
  <2>13. \A values : Game!CtlColors(t, values) <=> GameP!CtlColors(t, values)
    BY <2>1 DEF Game!CtlColors, GameP!CtlColors, Game!statVars, GameP!statVars
  <2>14. \A request : Game!Ctl(t, request) <=> GameP!Ctl(t, request)
    BY <2>1, <2>2, <2>11, <2>12, <2>13 DEF Game!Ctl, GameP!Ctl, Game!NULL, GameP!NULL
  <2>15. (Game!Look(t) <=> GameP!Look(t)) /\ (Game!WriteRefused(t) <=> GameP!WriteRefused(t))
           /\ (Game!CtlFault(t) <=> GameP!CtlFault(t))
    BY <2>1, <2>2 DEF Game!Look, GameP!Look, Game!WriteRefused, GameP!WriteRefused,
                      Game!CtlFault, GameP!CtlFault
  <2>16. \A guess : Game!WriteInvalid(t, guess) <=> GameP!WriteInvalid(t, guess)
    BY <2>1, <2>2, <2>3, <2>4 DEF Game!WriteInvalid, GameP!WriteInvalid
  <2> QED
    BY <1>2, <2>8, <2>14, <2>15, <2>16 DEF Game!Body, GameP!Body
<1>6. /\ (Game!BottomEnter <=> GameP!BottomEnter) /\ (Game!BottomReject <=> GameP!BottomReject)
      /\ \A checked, data :
           Game!BottomInstall(checked, data) <=> GameP!BottomInstall(checked, data)
  BY DEF
     Game!codeVars, Game!statVars, Game!processVars, Game!bottomVars,
     Game!NULL, Game!NUM_PEGS, Game!Pegs, Game!WithinPalette,
     Game!PacketsHandled, Game!BottomEnter, Game!BottomLeave,
     Game!BottomInstall, Game!BottomReject, GameP!codeVars,
     GameP!statVars, GameP!processVars, GameP!bottomVars, GameP!NULL,
     GameP!NUM_PEGS, GameP!Pegs, GameP!WithinPalette,
     GameP!PacketsHandled, GameP!BottomEnter, GameP!BottomLeave,
     GameP!BottomInstall, GameP!BottomReject
<1>9. Game!Bottom <=> GameP!Bottom
  BY <1>6 DEF Game!Bottom, GameP!Bottom, Game!ReadAgain, GameP!ReadAgain
<1>10. (\E t \in Threads : Game!SysCall(t)) <=> \E t \in Threads : GameP!SysCall(t)
  BY <1>3, <1>4, <1>5 DEF Game!SysCall, GameP!SysCall, Game!Ops, GameP!Ops
<1>11. GameOnce <=> GameP!NextOnce
  BY <1>6, <1>10 DEF GameOnce, GameP!NextOnce, GameP!BottomOnce
<1>7. Game!Init <=> GameP!Init
  BY DEF Game!Init, GameP!Init, Game!NULL, GameP!NULL, Game!Pegs, GameP!Pegs,
     Game!NUM_PEGS, GameP!NUM_PEGS
<1>8. (UNCHANGED Game!vars) <=> UNCHANGED GameP!vars
  BY DEF
     Game!vars, Game!codeVars, Game!statVars, Game!processVars,
     Game!bottomVars, GameP!vars, GameP!codeVars, GameP!statVars,
     GameP!processVars, GameP!bottomVars
<1> QED
  BY <1>7, <1>8, <1>9, <1>10, <1>11 DEF Game!Next, GameP!Next

-----------------------------------------------------------------------------
(***************************************************************************)
(* Every step of the driver is a step of the device, and a step of the     *)
(* game, or leaves it alone.                                               *)
(***************************************************************************)
LEMMA NetStep == [Next]_vars => [Net!Next]_(Net!vars)
<1> SUFFICES ASSUME [Next]_vars PROVE Net!Next \/ UNCHANGED netVars
  BY DEF Net!vars, netVars
<1>1. CASE Probe
  BY <1>1 DEF Probe, CreateStats, RegisterMm, RegisterCtl, Register, RequestIrq,
              IrqFails, IrqFailsTo, UndoCtl, UndoMm, UndoStats, Withdraw,
              Net!Next, Net!Probe
<1>2. CASE Remove
  BY <1>2 DEF Remove, FreeGames, WithdrawMm, WithdrawCtl, RemoveStats, Withdraw
<1>3. CASE SwitchNet
  BY <1>3 DEF SwitchNet, Net!Next, Net!Probe, Net!Remove
<1>4. ASSUME NEW t \in Threads, Process(t) PROVE UNCHANGED netVars
  BY <1>4 DEF Process, Open, Close, Enter, Handle, UseFreed, Calm
<1>5. CASE Bottom
  BY <1>5 DEF Bottom, RunBottom, GetPacket, GetNothing, GoOn, UsePacket, Net!Next,
              Net!NetNext, Net!Bottom
<1>6. CASE Device
  BY <1>6 DEF Device, Net!Next, Net!NetNext
<1>7. CASE UNCHANGED vars
  BY <1>7 DEF vars
<1> QED
  BY <1>1, <1>2, <1>3, <1>4, <1>5, <1>6, <1>7 DEF Next

GameSame == UNCHANGED gameVars /\ (bottom' # "idle" <=> bottom # "idle")

LEMMA GameUnchanged == GameSame => UNCHANGED Game!vars
<1> SUFFICES ASSUME GameSame PROVE UNCHANGED Game!vars
  OBVIOUS
<1>1. (bottom' # "idle") = (bottom # "idle")
  BY DEF GameSame
<1> QED
  BY <1>1 DEF GameSame, gameVars, Game!vars, Game!codeVars, Game!statVars,
              Game!processVars, Game!bottomVars

(* The data of a packet that is used, also of one that was freed.          *)
LEMMA FoundType ==
  Net!Entries(list) \subseteq 1..MaxPackets => Found \subseteq Payloads \cup {<<>>}
  BY PayloadAssumption DEF Found, Payloads

(* The code of a packet that changed between the check and the assignments. *)
GameTorn == \E checked, data \in Payloads : Game!BottomInstall(checked, data)

(* What the driver does to the game: a packet changes under the interrupt  *)
(* thread only when it was freed.                                          *)
LEMMA GameCases ==
  ASSUME Net!Entries(list) \subseteq 1..MaxPackets, [Next]_vars
  PROVE  GameOnce \/ GameSame \/ (staleRead' /\ GameTorn)
<1> USE DEF GameSame
<1>1. CASE Probe
  BY <1>1 DEF Probe, CreateStats, RegisterMm, RegisterCtl, Register, RequestIrq,
              IrqFails, IrqFailsTo, UndoCtl, UndoMm, UndoStats, Withdraw, BindGo,
              netVars, Net!RequestIrq, Net!DriverStep, Net!bottomVars
<1>2. CASE Remove
  BY <1>2 DEF Remove, FreeGames, WithdrawMm, WithdrawCtl, RemoveStats, Withdraw, BindGo,
              netVars
<1>3. CASE SwitchNet
  BY <1>3 DEF SwitchNet, Net!EnableCapture, Net!EnableReinit, Net!DisableCapture,
              Net!DisableComplete, Net!FreeIrq, Net!IrqFreed, Net!Switch,
              Net!SetRetrieved, Net!DriverStep, Net!bottomVars
<1>4. ASSUME NEW t \in Threads, Process(t) PROVE GameOnce \/ GameSame
  <2>1. CASE \E op \in Game!Ops : Enter(t, op)
    BY <2>1 DEF Enter, GameOnce, Game!SysCall
  <2>2. CASE Handle(t)
    BY <2>2 DEF Handle, GameOnce, Game!SysCall
  <2>3. CASE UseFreed(t) \/ \E file \in Files : Open(t, file) \/ Close(t, file)
    BY <2>3 DEF UseFreed, Open, Close, Calm, netVars
  <2> QED
    BY <1>4, <2>1, <2>2, <2>3 DEF Process
<1>5. CASE Bottom
  <2>1. CASE RunBottom
    BY <2>1 DEF RunBottom, GameOnce
  <2>2. CASE GetPacket
    BY <2>2 DEF GetPacket, Net!GetOldest, Net!BottomStep
  <2>3. CASE GetNothing
    BY <2>3 DEF GetNothing, GameOnce
  <2>4. CASE GoOn
    BY <2>4 DEF GoOn, Net!CompleteRetrieved, Net!Acknowledge, Net!ReadLen, Net!BottomStep
  <2>5. CASE UsePacket
    <3>1. ASSUME Game!BottomReject PROVE GameOnce
      BY <3>1 DEF GameOnce
    <3>2. ASSUME NEW checked \in Found, NEW data \in Found, checked # <<>>, data # <<>>,
                 Game!BottomInstall(checked, data)
          PROVE  GameOnce \/ (staleRead' /\ GameTorn)
      <4>1. checked \in Payloads /\ data \in Payloads
        BY <3>2, FoundType
      <4>2. CASE oldest \in Net!Entries(list)
        <5>1. checked = data
          BY <3>2, <4>2 DEF Found
        <5> QED
          BY <3>2, <4>1, <5>1 DEF GameOnce
      <4>3. CASE oldest \notin Net!Entries(list)
        <5>1. staleRead'
          BY <2>5, <4>3 DEF UsePacket
        <5> QED
          BY <3>2, <4>1, <5>1 DEF GameTorn
      <4> QED
        BY <4>2, <4>3
    <3> QED
      BY <2>5, <3>1, <3>2 DEF UsePacket
  <2> QED
    BY <1>5, <2>1, <2>2, <2>3, <2>4, <2>5 DEF Bottom
<1>6. CASE Device
  BY <1>6 DEF Device, Net!Filter, Net!Capture, Net!AddTail, Net!AddTo, Net!QueueWork,
              Net!FilterStep, Net!Worker, Net!StartWork, Net!TriggerIrq, Net!TriggerTo,
              Net!TriggerFails, Net!WaitRetrieved, Net!ReinitRetrieved,
              Net!RemoveOldest, Net!Leaves, Net!WorkStep, Net!bottomVars
<1>7. CASE UNCHANGED vars
  BY <1>7 DEF vars, netVars
<1> QED
  BY <1>1, <1>2, <1>3, <1>4, <1>5, <1>6, <1>7 DEF Next

LEMMA GameStep ==
  Net!Entries(list) \subseteq 1..MaxPackets /\ [Next]_vars => [Game!Next]_(Game!vars)
<1>1. GameOnce => Game!Next
  BY DEF GameOnce, Game!Next, Game!Bottom, Game!ReadAgain
<1>2. GameTorn => Game!Next
  BY DEF GameTorn, Game!Next, Game!Bottom, Game!ReadAgain
<1> QED
  BY <1>1, <1>2, GameCases, GameUnchanged

(* A step after which no freed packet was ever read.                       *)
LEMMA CleanStep ==
  Net!Entries(list) \subseteq 1..MaxPackets /\ [Next]_vars /\ ~staleRead'
    => [GameP!NextOnce]_(GameP!vars)
<1>1. UNCHANGED Game!vars => UNCHANGED GameP!vars
  BY SameGame
<1>2. GameOnce => GameP!NextOnce
  BY SameGame
<1> QED
  BY <1>1, <1>2, GameCases, GameUnchanged

(* What the theorems about the device and the game assume. *)
LEMMA DeviceAssumed ==
  /\ NetP!IsFiniteSet(CPUs)
  /\ MaxPackets \in Nat /\ MaxLoads \in Nat
  /\ CompleteAll \in Nat \ {0}
  BY DeviceAssumption DEF IsFiniteSet, NetP!IsFiniteSet

LEMMA GameAssumed ==
  /\ UidOf \in [Threads -> Uids] /\ Admins \subseteq Uids
  /\ Guesses \subseteq [GameP!Pegs -> Int] /\ Payloads \subseteq [GameP!Pegs -> Int]
       /\ Lasts \subseteq Int
  /\ RandomCode \in BOOLEAN /\ TRUE \in BOOLEAN
  /\ Garbage \subseteq Int /\ Ints \subseteq Int
  /\ RandomCode => 0 \notin Garbage
  /\ MaxStarts \in Nat /\ MaxGuesses \in Nat /\ MaxHandled \in Nat
<1>1. GameP!Pegs = Game!Pegs
  BY DEF GameP!Pegs, Game!Pegs, GameP!NUM_PEGS, Game!NUM_PEGS
<1>2. Payloads \subseteq [Game!Pegs -> Int]
  BY PayloadAssumption DEF Payloads
<1> QED
  BY <1>1, <1>2, GameAssumption

(* The driver runs the device as CS421Net specifies it.                    *)
THEOREM DeviceImplemented == Spec => Net!Spec
<1>1. Init => Net!Init
  BY DEF Init
<1> QED
  BY <1>1, NetStep, PTL DEF Spec, Net!Spec

(* What is proved of the device holds in the driver.                       *)
DeviceInv ==
  /\ NetP!TypeOK /\ NetP!DriverOK /\ NetP!WorkerHasEntry /\ NetP!FetchedInOrder
  /\ NetP!Quiet
  /\ NetP!Entries(list) \subseteq 1..MaxPackets

LEMMA DeviceHolds == Spec => []DeviceInv
<1>1. Net!Spec => NetP!Spec
  <2>1. Net!Init => NetP!Init
    BY SameDevice
  <2>2. [Net!Next]_(Net!vars) => [NetP!Next]_(NetP!vars)
    BY SameDevice
  <2> QED
    BY <2>1, <2>2, PTL DEF Net!Spec, NetP!Spec
<1>2. NetP!Spec => []NetP!EntryInv
  BY DeviceAssumed, NetP!EntryInvariance
<1>3. NetP!Spec => []NetP!FetchedInOrder
  BY DeviceAssumed, NetP!FetchOrder
<1>4. NetP!Spec => [](NetP!Entries(list) \subseteq 1..MaxPackets)
  BY DeviceAssumed, NetP!Captured
<1>5. NetP!Spec => []NetP!Quiet
  BY DeviceAssumed, NetP!FreedIrqIsQuiet
<1>6. NetP!EntryInv => NetP!TypeOK /\ NetP!DriverOK /\ NetP!WorkerHasEntry
  BY DEF NetP!EntryInv
<1> QED
  BY <1>1, <1>2, <1>3, <1>4, <1>5, <1>6, DeviceImplemented, PTL DEF DeviceInv

(* What was read from a freed packet is not forgotten.                     *)
LEMMA StaleStays == ASSUME [Next]_vars, staleRead PROVE staleRead'
<1>1. ASSUME NEW t \in Threads, Process(t) PROVE staleRead'
  BY <1>1 DEF Process, Open, Close, Enter, Handle, UseFreed, Calm
<1>2. CASE Probe \/ Remove \/ SwitchNet
  BY <1>2 DEF Probe, CreateStats, RegisterMm, RegisterCtl, Register, RequestIrq,
              IrqFails, IrqFailsTo, UndoCtl, UndoMm, UndoStats, Remove, FreeGames,
              WithdrawMm, WithdrawCtl, RemoveStats, Withdraw, BindGo, SwitchNet
<1>3. CASE Bottom
  BY <1>3 DEF Bottom, RunBottom, GetPacket, GetNothing, GoOn, UsePacket
<1>4. CASE Device
  BY <1>4 DEF Device
<1> QED
  BY <1>1, <1>2, <1>3, <1>4 DEF Next, vars

(* The driver runs the game as Mastermind2 specifies it.                   *)
THEOREM GameImplemented == Spec => Game!Spec
<1>1. Init => Game!Init
  BY DEF Init, Net!Init, Net!Idle
<1>2. DeviceInv => Net!Entries(list) \subseteq 1..MaxPackets
  BY DEF DeviceInv, NetP!Entries, Net!Entries
<1> QED
  BY <1>1, <1>2, GameStep, DeviceHolds, PTL DEF Spec, Game!Spec

LEMMA GameRuns == Spec => GameP!Spec
<1>1. Game!Init => GameP!Init
  BY SameGame
<1>2. [Game!Next]_(Game!vars) => [GameP!Next]_(GameP!vars)
  BY SameGame
<1> QED
  BY <1>1, <1>2, GameImplemented, PTL DEF Game!Spec, GameP!Spec

LEMMA GameHolds == Spec => []GameP!IInv
<1>1. GameP!Spec => []GameP!IInv
  BY GameAssumed, GameP!Invariance
<1> QED
  BY <1>1, GameRuns, PTL

(* Until a freed packet is read, the digits of the code are known.         *)
LEMMA DigitsHold == Spec => [](staleRead \/ GameP!CodeOfKnownDigits)
<1> DEFINE Known == staleRead \/ GameP!KnownPalettes
<1>1. Init => Known
  <2>1. Init => GameP!Init
    BY SameGame DEF Init, Net!Init, Net!Idle
  <2> QED
    BY <2>1, GameAssumed, GameP!InitKnown
<1>2. GameP!IInv /\ DeviceInv /\ Known /\ [Next]_vars => Known'
  <2> SUFFICES ASSUME GameP!IInv, DeviceInv, Known, [Next]_vars, ~staleRead'
               PROVE  GameP!KnownPalettes'
    OBVIOUS
  <2>1. ~staleRead
    BY StaleStays
  <2>2. Net!Entries(list) \subseteq 1..MaxPackets
    BY DEF DeviceInv, NetP!Entries, Net!Entries
  <2>3. [GameP!NextOnce]_(GameP!vars)
    BY <2>2, CleanStep
  <2>4. GameP!TypeOK /\ GameP!KnownPalettes
    BY <2>1 DEF GameP!IInv
  <2> QED
    BY <2>3, <2>4, GameAssumed, GameP!KnownStep
<1>3. GameP!KnownPalettes => GameP!CodeOfKnownDigits
  BY DEF GameP!KnownPalettes, GameP!InPalettes, GameP!CodeOfKnownDigits
<1> HIDE DEF Known
<1>4. Spec => []Known
  BY <1>1, <1>2, GameHolds, DeviceHolds, PTL DEF Spec
<1>5. Known => staleRead \/ GameP!CodeOfKnownDigits
  BY <1>3 DEF Known
<1> QED
  BY <1>4, <1>5, PTL

LEMMA SameTypes ==
  /\ NetP!TypeOK <=> Net!TypeOK
  /\ GameP!TypeOK <=> Game!TypeOK
<1>1. NetP!TypeOK <=> Net!TypeOK
  BY DEF NetP!TypeOK, Net!TypeOK, NetP!NULL, Net!NULL, NetP!FilterPc, Net!FilterPc,
         NetP!WorkerPc, Net!WorkerPc, NetP!BottomPc, Net!BottomPc, NetP!DriverPc,
         Net!DriverPc
<1>2. GameP!TypeOK <=> Game!TypeOK
  BY DEF GameP!TypeOK, Game!TypeOK, GameP!Pegs, Game!Pegs, GameP!NUM_PEGS, Game!NUM_PEGS,
         GameP!Game, Game!Game, GameP!Status, Game!Status, GameP!Line, Game!Line,
         GameP!Calls, Game!Calls, GameP!Ops, Game!Ops
<1> QED
  BY <1>1, <1>2

(* While probe and remove switch the device and the game on and off around *)
(* the processes, works find their entries, packets come in order, every   *)
(* call keeps to its own game and the games are consistent; and until a    *)
(* freed packet is read, the code has digits of a number of colours that   *)
(* was in force.                                                           *)
THEOREM PartsHold ==
  Spec => [](/\ Net!WorkerHasEntry /\ Net!FetchedInOrder
             /\ Game!OneGamePerPlayer /\ Game!OwnGame /\ Game!GameConsistent
             /\ (staleRead \/ Game!CodeOfKnownDigits))
<1>1. DeviceInv => Net!WorkerHasEntry /\ Net!FetchedInOrder
  BY SameTypes
     DEF DeviceInv, NetP!WorkerHasEntry, Net!WorkerHasEntry, NetP!WorksOwed,
         Net!WorksOwed, NetP!In, Net!In, NetP!Cardinality, Net!Cardinality,
         NetP!FetchedInOrder, Net!FetchedInOrder
<1>2. GameP!IInv => Game!OneGamePerPlayer /\ Game!OwnGame /\ Game!GameConsistent
  BY DEF GameP!IInv, GameP!OneGamePerPlayer, Game!OneGamePerPlayer, GameP!OwnGame,
         Game!OwnGame, GameP!Mine, Game!Mine, GameP!NULL, Game!NULL, GameP!GameConsistent,
         Game!GameConsistent, GameP!Consistent, Game!Consistent, GameP!LastLine,
         Game!LastLine, GameP!NUM_PEGS, Game!NUM_PEGS
<1>3. GameP!CodeOfKnownDigits => Game!CodeOfKnownDigits
  BY DEF GameP!CodeOfKnownDigits, Game!CodeOfKnownDigits, GameP!Palettes, Game!Palettes,
         GameP!DigitsOf, Game!DigitsOf, GameP!Remainders, Game!Remainders,
         GameP!Pegs, Game!Pegs, GameP!NUM_PEGS, Game!NUM_PEGS
<1> QED
  BY <1>1, <1>2, <1>3, DeviceHolds, GameHolds, DigitsHold, PTL

(* In the whole driver too a game changes only when a call of its own      *)
(* player's process returns, and none disappears: not even remove, which   *)
(* frees the games, takes them from the list.                              *)
THEOREM OwnGameOnly == Spec => Game!OnlyOwnGameChanges
<1> DEFINE Kept ==
      /\ Len(games_list') >= Len(games_list)
      /\ \A i \in 1..Len(games_list) :
           games_list'[i] # games_list[i] =>
             \E t \in Threads :
               /\ UidOf[t] = games_list[i].player_id
               /\ call[t].at = "body" /\ call'[t].at = "idle"
<1>1. GameP!Spec => GameP!OnlyOwnGameChanges
  BY GameAssumed, GameP!OwnChanges
<1>2. GameP!OnlyOwnGameChanges <=> [][Kept]_(GameP!vars)
  BY DEF GameP!OnlyOwnGameChanges
<1>3. Game!OnlyOwnGameChanges <=> [][Kept]_(Game!vars)
  BY DEF Game!OnlyOwnGameChanges
<1>4. [Kept]_(GameP!vars) => [Kept]_(Game!vars)
  BY SameGame
<1> QED
  BY <1>1, <1>2, <1>3, <1>4, GameRuns, PTL

-----------------------------------------------------------------------------
(***************************************************************************)
(* NothingLeftBehind.  At every stage of probe, its labels and remove it   *)
(* is known what is registered and how far the device's driver is.         *)
(***************************************************************************)
Stages == {"unbound", "mm", "mm_ctl", "irq", "bound", "noIrq", "noCtl", "noMm",
           "freed", "noFiles", "stopping"}

Registered ==
  /\ bind \in Stages /\ devices \subseteq Files \cup {"stats"}
  /\ "stats" \in devices <=> bind # "unbound"
  /\ "mm" \in devices <=> bind \in {"mm_ctl", "irq", "bound", "noIrq", "noCtl", "freed"}
  /\ "mm_ctl" \in devices <=> bind \in {"irq", "bound", "noIrq", "freed", "noFiles"}

DriverAt ==
  /\ bind = "bound" => driver \in {"requested", "enabling", "loaded"}
  /\ bind \in {"freed", "noFiles"} => driver = "loaded"
  /\ bind = "stopping"
       => driver \in {"loaded", "disabling", "freeing", "draining", "unloaded"}
  /\ bind \notin {"bound", "freed", "noFiles", "stopping"} => driver = "unloaded"

LifeInv == Registered /\ DriverAt

LEMMA RegisteredStep == Registered /\ [Next]_vars => Registered'
<1> SUFFICES ASSUME Registered, [Next]_vars PROVE Registered'
  OBVIOUS
<1> USE DEF Registered, Stages, Files
<1>1. CASE Probe
  BY <1>1 DEF Probe, CreateStats, RegisterMm, RegisterCtl, Register, RequestIrq,
              IrqFails, IrqFailsTo, UndoCtl, UndoMm, UndoStats, Withdraw, BindGo
<1>2. CASE Remove
  BY <1>2 DEF Remove, FreeGames, WithdrawMm, WithdrawCtl, RemoveStats, Withdraw, BindGo
<1>3. CASE SwitchNet \/ (\E t \in Threads : Process(t)) \/ Bottom \/ Device \/ UNCHANGED vars
  <2>1. UNCHANGED <<bind, devices>>
    BY <1>3 DEF SwitchNet, Process, Open, Close, Enter, Handle, UseFreed, Calm, Bottom,
                RunBottom, GetPacket, GetNothing, GoOn, UsePacket, Device, Still, vars
  <2> QED
    BY <2>1
<1> QED
  BY <1>1, <1>2, <1>3 DEF Next

LEMMA DriverAtStep == Registered /\ DriverAt /\ [Next]_vars => DriverAt'
<1> SUFFICES ASSUME Registered, DriverAt, [Next]_vars PROVE DriverAt'
  OBVIOUS
<1> USE DEF Registered, Stages, DriverAt
<1>1. CASE Probe
  <2>1. CASE RequestIrq
    BY <2>1 DEF RequestIrq, BindGo, Net!RequestIrq, Net!DriverStep
  <2>2. CASE Probe /\ ~RequestIrq
    BY <2>2 DEF Probe, CreateStats, RegisterMm, RegisterCtl, Register, IrqFails,
                IrqFailsTo, UndoCtl, UndoMm, UndoStats, Withdraw, BindGo, netVars
  <2> QED
    BY <1>1, <2>1, <2>2
<1>2. CASE Remove
  BY <1>2 DEF Remove, FreeGames, WithdrawMm, WithdrawCtl, RemoveStats, Withdraw, BindGo,
              netVars
<1>3. CASE SwitchNet
  BY <1>3 DEF SwitchNet, Net!EnableCapture, Net!EnableReinit, Net!DisableCapture,
              Net!DisableComplete, Net!FreeIrq, Net!IrqFreed, Net!Switch,
              Net!SetRetrieved, Net!DriverStep
<1>4. CASE (\E t \in Threads : Process(t)) \/ UNCHANGED vars
  <2>1. UNCHANGED <<bind, driver>>
    BY <1>4 DEF Process, Open, Close, Enter, Handle, UseFreed, Calm, vars, netVars
  <2> QED
    BY <2>1
<1>5. CASE Bottom
  <2>1. UNCHANGED <<bind, driver>>
    BY <1>5 DEF Bottom, RunBottom, GetPacket, GetNothing, GoOn, UsePacket, Still,
                Net!RunBottom, Net!GetOldest, Net!CompleteRetrieved, Net!Acknowledge,
                Net!ReadLen, Net!UseData, Net!BottomStep, Net!driverVars
  <2> QED
    BY <2>1
<1>6. CASE Device
  <2>1. UNCHANGED <<bind, driver>>
    BY <1>6 DEF Device, Still, Net!Filter, Net!Capture, Net!AddTail, Net!AddTo,
                Net!QueueWork, Net!FilterStep, Net!Worker, Net!StartWork, Net!TriggerIrq,
                Net!TriggerTo, Net!TriggerFails, Net!WaitRetrieved,
                Net!ReinitRetrieved, Net!RemoveOldest, Net!Leaves, Net!WorkStep,
                Net!driverVars
  <2> QED
    BY <2>1
<1> QED
  BY <1>1, <1>2, <1>3, <1>4, <1>5, <1>6 DEF Next

(* freed counts games at the head of the list, which only grows.           *)
OwnTypes ==
  /\ opened \subseteq Threads \X Files
  /\ freed \in 0..Len(games_list)
  /\ corrupt \in BOOLEAN /\ careless \in BOOLEAN /\ staleRead \in BOOLEAN

LEMMA GamesGrow ==
  GameP!TypeOK /\ Net!Entries(list) \subseteq 1..MaxPackets /\ [Next]_vars
    => Len(games_list') \in Nat /\ Len(games_list') >= Len(games_list)
<1> SUFFICES ASSUME GameP!TypeOK, Net!Entries(list) \subseteq 1..MaxPackets, [Next]_vars
             PROVE  Len(games_list') \in Nat /\ Len(games_list') >= Len(games_list)
  OBVIOUS
<1>1. games_list \in Seq(GameP!Game)
  BY DEF GameP!TypeOK
<1>2. [GameP!Next]_(GameP!vars)
  BY GameStep, SameGame
<1>3. CASE UNCHANGED GameP!vars
  BY <1>1, <1>3 DEF GameP!vars
<1>4. CASE GameP!Next
  <2>1. \/ UNCHANGED games_list
        \/ \E game : games_list' = Append(games_list, game)
        \/ \E t \in Threads : \E game : GameP!SetGame(t, game)
    BY <1>4, GameAssumed, GameP!WhoChanges
  <2>2. ASSUME NEW game, games_list' = Append(games_list, game)
        PROVE  Len(games_list') = Len(games_list) + 1
    BY <1>1, <2>2
  <2>3. ASSUME NEW t, NEW game, GameP!SetGame(t, game)
        PROVE  Len(games_list') = Len(games_list)
    BY <1>1, <2>3 DEF GameP!SetGame
  <2> QED
    BY <1>1, <2>1, <2>2, <2>3
<1> QED
  BY <1>2, <1>3, <1>4

LEMMA OwnTypesStep ==
  /\ OwnTypes /\ GameP!TypeOK /\ Net!Entries(list) \subseteq 1..MaxPackets
  /\ Registered /\ [Next]_vars
  => OwnTypes'
<1> SUFFICES ASSUME OwnTypes, GameP!TypeOK, Net!Entries(list) \subseteq 1..MaxPackets,
                    Registered, [Next]_vars
             PROVE  OwnTypes'
  OBVIOUS
<1>1. Len(games_list') \in Nat /\ Len(games_list) \in Nat /\ Len(games_list') >= Len(games_list)
  BY GamesGrow DEF GameP!TypeOK
<1>2. ASSUME UNCHANGED freed PROVE freed' \in 0..Len(games_list')
  BY <1>1, <1>2 DEF OwnTypes
<1>3. CASE UNCHANGED <<fileVars, staleRead>>
  BY <1>2, <1>3 DEF OwnTypes, fileVars
<1>4. CASE Probe
  <2>1. UNCHANGED <<fileVars, staleRead>>
    BY <1>4 DEF Probe, CreateStats, RegisterMm, RegisterCtl, Register, RequestIrq,
                IrqFails, IrqFailsTo, UndoCtl, UndoMm, UndoStats, Withdraw, BindGo
  <2> QED
    BY <1>3, <2>1
<1>5. CASE FreeGames
  <2>1. UNCHANGED <<games_list, opened, staleRead>> /\ freed' = Len(games_list)
    BY <1>5 DEF FreeGames, BindGo, gameVars
  <2>2. careless' \in BOOLEAN /\ corrupt' \in BOOLEAN
    BY <1>5 DEF FreeGames
  <2>3. freed' \in 0..Len(games_list')
    BY <1>1, <2>1
  <2> QED
    BY <2>1, <2>2, <2>3 DEF OwnTypes
<1>6. CASE WithdrawMm \/ WithdrawCtl \/ RemoveStats \/ SwitchNet \/ Device
  <2>1. UNCHANGED <<fileVars, staleRead>>
    BY <1>6 DEF WithdrawMm, WithdrawCtl, RemoveStats, Withdraw, BindGo, SwitchNet,
                Device, Still
  <2> QED
    BY <1>3, <2>1
<1>7. ASSUME NEW t \in Threads, Process(t) PROVE OwnTypes'
  <2>1. ASSUME NEW file \in Files, Open(t, file) PROVE OwnTypes'
    <3>1. careless' \in BOOLEAN
      BY <2>1 DEF Open
    <3>2. opened' \subseteq Threads \X Files
      BY <2>1 DEF Open, OwnTypes
    <3>3. UNCHANGED <<freed, corrupt, staleRead>>
      BY <2>1 DEF Open, Calm
    <3> QED
      BY <1>2, <3>1, <3>2, <3>3 DEF OwnTypes
  <2>2. ASSUME NEW file \in Files, Close(t, file) PROVE OwnTypes'
    <3>1. opened' \subseteq opened /\ UNCHANGED <<freed, corrupt, careless, staleRead>>
      BY <2>2 DEF Close, Calm
    <3> QED
      BY <1>2, <3>1 DEF OwnTypes
  <2>3. CASE Handle(t) \/ \E op \in Game!Ops : Enter(t, op)
    <3>1. UNCHANGED <<fileVars, staleRead>>
      BY <2>3 DEF Handle, Enter, Calm
    <3> QED
      BY <1>3, <3>1
  <2>4. CASE UseFreed(t)
    <3>1. corrupt' = TRUE /\ UNCHANGED <<opened, freed, careless, staleRead>>
      BY <2>4 DEF UseFreed, Calm
    <3> QED
      BY <1>2, <3>1 DEF OwnTypes
  <2> QED
    BY <1>7, <2>1, <2>2, <2>3, <2>4 DEF Process
<1>8. CASE Bottom
  <2>1. CASE UsePacket
    <3>1. staleRead' \in BOOLEAN /\ UNCHANGED fileVars
      BY <2>1 DEF UsePacket, Still
    <3> QED
      BY <1>2, <3>1 DEF OwnTypes, fileVars
  <2>2. CASE RunBottom \/ GetPacket \/ GetNothing \/ GoOn
    <3>1. UNCHANGED <<fileVars, staleRead>>
      BY <2>2 DEF RunBottom, GetPacket, GetNothing, GoOn, Still
    <3> QED
      BY <1>3, <3>1
  <2> QED
    BY <1>8, <2>1, <2>2 DEF Bottom
<1>9. CASE UNCHANGED vars
  BY <1>3, <1>9 DEF vars
<1> QED
  BY <1>4, <1>5, <1>6, <1>7, <1>8, <1>9 DEF Next, Remove

Composed == DeviceInv /\ GameP!IInv /\ LifeInv /\ OwnTypes

(* Everything that is true of a single state of the driver so far.         *)
LEMMA Composition == Spec => []Composed
<1>1. Init => LifeInv /\ OwnTypes
  <2> SUFFICES ASSUME Init PROVE LifeInv /\ OwnTypes
    OBVIOUS
  <2>1. bind = "unbound" /\ devices = {} /\ driver = "unloaded"
    BY DEF Init, Net!Init
  <2>2. LifeInv
    BY <2>1 DEF LifeInv, Registered, DriverAt, Stages
  <2>3. games_list = <<>>
    BY DEF Init, Game!Init
  <2>4. opened = {} /\ freed \in 0..Len(games_list)
    BY <2>3 DEF Init
  <2>5. corrupt = FALSE /\ careless = FALSE /\ staleRead = FALSE
    BY DEF Init
  <2> QED
    BY <2>2, <2>4, <2>5 DEF OwnTypes
<1>2. LifeInv /\ [Next]_vars => LifeInv'
  BY RegisteredStep, DriverAtStep DEF LifeInv
<1>3. /\ OwnTypes /\ DeviceInv /\ GameP!IInv /\ LifeInv /\ [Next]_vars
      => OwnTypes'
  <2>1. DeviceInv => Net!Entries(list) \subseteq 1..MaxPackets
    BY DEF DeviceInv, NetP!Entries, Net!Entries
  <2> QED
    BY <2>1, OwnTypesStep DEF LifeInv, GameP!IInv
<1>4. Spec => []LifeInv
  BY <1>1, <1>2, PTL DEF Spec
<1>5. Spec => []OwnTypes
  BY <1>1, <1>3, <1>4, DeviceHolds, GameHolds, PTL DEF Spec
<1> QED
  BY <1>4, <1>5, DeviceHolds, GameHolds, PTL DEF Composed

(* A probe that fails at any of its steps, and a remove that has returned, *)
(* leave nothing registered and nothing on its way (NothingLeftBehind):    *)
(* what a stage has registered is exactly what its label undoes, and       *)
(* free_irq waits for the interrupt thread.                                *)
THEOREM CleanUnbound == Spec => []NothingLeftBehind
<1>1. Composed => NothingLeftBehind
  <2> SUFFICES ASSUME Composed PROVE NothingLeftBehind
    OBVIOUS
  <2>1. TypeOK
    BY SameTypes DEF Composed, DeviceInv, GameP!IInv, LifeInv, Registered, Stages,
                     OwnTypes, TypeOK
  <2>2. ASSUME bind = "unbound"
        PROVE  devices = {} /\ ~handler /\ ~enabled /\ ~irq /\ bottom = "idle"
    <3>1. devices = {}
      BY <2>2 DEF Composed, LifeInv, Registered, Files
    <3>2. driver = "unloaded"
      BY <2>2 DEF Composed, LifeInv, DriverAt
    <3>3. ~handler /\ ~irq /\ bottom = "idle"
      BY <3>2 DEF Composed, DeviceInv, NetP!Quiet
    <3>4. ~enabled
      BY <3>2 DEF Composed, DeviceInv, NetP!DriverOK
    <3> QED
      BY <3>1, <3>3, <3>4
  <2> QED
    BY <2>1, <2>2 DEF NothingLeftBehind
<1> QED
  BY <1>1, Composition, PTL

-----------------------------------------------------------------------------
(***************************************************************************)
(* FreedGamesLeftAlone.  A call holds a file open, and as long as nobody   *)
(* is careless no file is open while there are freed games.  A driver that *)
(* is bound while there are freed games was probed before.                 *)
(***************************************************************************)
ProbeInv ==
  /\ bind \in {"bound", "freed"} => loads > 0
  /\ freed > 0 => loads > 0
  /\ bind = "bound" /\ freed > 0 => loads > 1

LEMMA SameLoads ==
  ASSUME SwitchNet \/ (\E t \in Threads : Process(t)) \/ Bottom \/ Device \/ UNCHANGED vars
  PROVE  UNCHANGED loads
<1>1. CASE SwitchNet
  BY <1>1 DEF SwitchNet, Net!EnableCapture, Net!EnableReinit, Net!DisableCapture,
              Net!DisableComplete, Net!FreeIrq, Net!IrqFreed, Net!Switch,
              Net!SetRetrieved
<1>2. CASE (\E t \in Threads : Process(t)) \/ UNCHANGED vars
  BY <1>2 DEF Process, Open, Close, Enter, Handle, UseFreed, Calm, vars, netVars
<1>3. CASE Bottom
  BY <1>3 DEF Bottom, RunBottom, GetPacket, GetNothing, GoOn, UsePacket, Still,
              Net!RunBottom, Net!GetOldest, Net!CompleteRetrieved, Net!Acknowledge,
              Net!ReadLen, Net!UseData, Net!BottomStep, Net!driverVars
<1>4. CASE Device
  BY <1>4 DEF Device, Still, Net!Filter, Net!Capture, Net!AddTail, Net!AddTo,
              Net!QueueWork, Net!FilterStep, Net!Worker, Net!StartWork, Net!TriggerIrq,
              Net!TriggerTo, Net!TriggerFails, Net!WaitRetrieved,
              Net!ReinitRetrieved, Net!RemoveOldest, Net!Leaves, Net!WorkStep,
              Net!driverVars
<1> QED
  BY <1>1, <1>2, <1>3, <1>4

LEMMA ProbeInvStep == Composed /\ ProbeInv /\ [Next]_vars => ProbeInv'
<1> SUFFICES ASSUME Composed, ProbeInv, [Next]_vars PROVE ProbeInv'
  OBVIOUS
<1>1. freed \in Nat /\ loads \in Nat /\ Len(games_list) \in Nat
  BY DEF Composed, OwnTypes, GameP!IInv, GameP!TypeOK, DeviceInv, NetP!TypeOK
<1>2. CASE UNCHANGED <<freed, loads>> /\ (bind' = bind \/ bind' \notin {"bound", "freed"})
  BY <1>2 DEF ProbeInv
<1>3. CASE RequestIrq
  <2>1. loads' = loads + 1 /\ UNCHANGED freed
    BY <1>3 DEF RequestIrq, Net!RequestIrq, fileVars
  <2> QED
    BY <1>1, <2>1 DEF ProbeInv
<1>4. CASE FreeGames
  <2>1. bind = "bound" /\ bind' = "freed" /\ UNCHANGED loads
    BY <1>4 DEF FreeGames, BindGo, netVars
  <2> QED
    BY <2>1 DEF ProbeInv
<1>5. CASE \/ CreateStats \/ RegisterMm \/ RegisterCtl \/ IrqFails \/ UndoCtl \/ UndoMm
           \/ UndoStats \/ WithdrawMm \/ WithdrawCtl \/ RemoveStats
  <2>1. UNCHANGED <<freed, loads>> /\ bind' \notin {"bound", "freed"}
    BY <1>5 DEF CreateStats, RegisterMm, RegisterCtl, Register, IrqFails, IrqFailsTo,
                UndoCtl, UndoMm, UndoStats, WithdrawMm, WithdrawCtl, RemoveStats,
                Withdraw, BindGo, netVars, fileVars
  <2> QED
    BY <1>2, <2>1
<1>6. CASE SwitchNet \/ (\E t \in Threads : Process(t)) \/ Bottom \/ Device \/ UNCHANGED vars
  <2>1. UNCHANGED <<freed, bind>>
    BY <1>6 DEF SwitchNet, Process, Open, Close, Enter, Handle, UseFreed, Calm, Bottom,
                RunBottom, GetPacket, GetNothing, GoOn, UsePacket, Device, Still, vars,
                fileVars
  <2>2. UNCHANGED loads
    BY <1>6, SameLoads
  <2> QED
    BY <1>2, <2>1, <2>2
<1> QED
  BY <1>3, <1>4, <1>5, <1>6 DEF Next, Probe, Remove

Holds(t) == \E file \in Files : <<t, file>> \in opened

Excused == careless \/ (loads > 1 /\ bind = "freed")

FileInv ==
  /\ ~careless => freed = 0 \/ opened = {}
  /\ \A t \in Threads : call[t].op # "none" => Holds(t)
  /\ corrupt => Excused

(* A handler goes on or returns. *)
LEMMA HandleOps ==
  ASSUME NEW t \in Threads, Game!Find(t) \/ Game!Body(t), call \in [Threads -> GameP!Calls]
  PROVE  \A s \in Threads : call'[s].op = call[s].op \/ call'[s].op = "none"
<1>1. CASE Game!Find(t)
  <2>1. call' = [call EXCEPT ![t].at = "body"]
    BY <1>1 DEF Game!Find, Game!FindOld, Game!FindNew, Game!FindFails, Game!Found
  <2> QED
    BY <2>1 DEF GameP!Calls
<1>2. CASE Game!Body(t)
  <2>1. call' = [call EXCEPT ![t] = [op |-> "none", at |-> "idle"]]
    BY <1>2 DEF Game!Body, Game!Look, Game!WriteRefused, Game!CtlFault, Game!Write,
                Game!WriteInvalid, Game!Ctl, Game!CtlStart, Game!CtlQuit, Game!CtlColors,
                Game!Leave, Game!Return
  <2> QED
    BY <2>1
<1> QED
  BY <1>1, <1>2

LEMMA FileStep == Composed /\ ProbeInv /\ FileInv /\ [Next]_vars => FileInv'
<1> SUFFICES ASSUME Composed, ProbeInv, FileInv, [Next]_vars PROVE FileInv'
  OBVIOUS
<1>1. call \in [Threads -> GameP!Calls] /\ freed \in Nat
  BY DEF Composed, GameP!IInv, GameP!TypeOK, OwnTypes
<1>2. ASSUME UNCHANGED <<call, fileVars>>, ~corrupt PROVE FileInv'
  BY <1>2 DEF FileInv, Holds, fileVars
<1>0. CASE UNCHANGED vars
  <2>1. UNCHANGED <<call, fileVars, loads, bind>>
    BY <1>0 DEF vars, gameVars, netVars
  <2> QED
    BY <2>1 DEF FileInv, Holds, Excused, fileVars
<1> SUFFICES ASSUME ~corrupt, Next PROVE FileInv'
  BY <1>0 DEF Next
<1>3. CASE Probe \/ SwitchNet \/ Device
  <2>1. UNCHANGED <<call, fileVars>>
    BY <1>3 DEF Probe, CreateStats, RegisterMm, RegisterCtl, Register, RequestIrq,
                IrqFails, IrqFailsTo, UndoCtl, UndoMm, UndoStats, Withdraw, BindGo,
                SwitchNet, Device, Still, gameVars
  <2> QED
    BY <1>2, <2>1
<1>4. CASE FreeGames
  <2>1. UNCHANGED <<call, opened, loads>> /\ bind = "bound" /\ bind' = "freed"
    BY <1>4 DEF FreeGames, BindGo, gameVars, netVars
  <2>2. careless' <=> careless \/ opened # {}
    BY <1>4 DEF FreeGames
  <2>3. ~careless' => freed' = 0 \/ opened' = {}
    BY <2>1, <2>2
  <2>4. corrupt' => freed > 0
    BY <1>4 DEF FreeGames
  <2>5. corrupt' => Excused'
    BY <2>1, <2>4 DEF ProbeInv, Excused
  <2> QED
    BY <2>1, <2>3, <2>5 DEF FileInv, Holds
<1>5. CASE WithdrawMm \/ WithdrawCtl \/ RemoveStats
  <2>1. UNCHANGED <<call, fileVars>>
    BY <1>5 DEF WithdrawMm, WithdrawCtl, RemoveStats, Withdraw, BindGo, gameVars
  <2> QED
    BY <1>2, <2>1
<1>6. CASE Bottom
  <2>1. UNCHANGED <<call, fileVars>>
    BY <1>6 DEF Bottom, RunBottom, GetPacket, GetNothing, GoOn, UsePacket, Still, gameVars,
                Game!BottomEnter, Game!BottomReject, Game!BottomInstall, Game!BottomLeave,
                Game!processVars
  <2> QED
    BY <1>2, <2>1
<1>7. ASSUME NEW t \in Threads, Process(t) PROVE FileInv'
  <2>1. ASSUME NEW file \in Files, Open(t, file) PROVE FileInv'
    <3>1. UNCHANGED <<call, freed, corrupt>> /\ opened' = opened \cup {<<t, file>>}
      BY <2>1 DEF Open, gameVars
    <3>2. careless' <=> careless \/ freed > 0
      BY <2>1 DEF Open
    <3>3. ~careless' => freed' = 0 \/ opened' = {}
      BY <1>1, <3>1, <3>2
    <3> QED
      BY <3>1, <3>3 DEF FileInv, Holds
  <2>2. ASSUME NEW file \in Files, Close(t, file) PROVE FileInv'
    <3>1. /\ UNCHANGED <<call, freed, corrupt, careless>> /\ call[t].op = "none"
          /\ opened' = opened \ {<<t, file>>}
      BY <2>2 DEF Close, gameVars
    <3>2. \A s \in Threads : call'[s].op # "none" => Holds(s)'
      BY <3>1 DEF FileInv, Holds
    <3>3. ~careless' => freed' = 0 \/ opened' = {}
      BY <3>1 DEF FileInv
    <3> QED
      BY <3>1, <3>2, <3>3 DEF FileInv
  <2>3. ASSUME NEW op \in Game!Ops, Enter(t, op) PROVE FileInv'
    <3>1. UNCHANGED fileVars /\ call' = [call EXCEPT ![t] = [op |-> op, at |-> "find"]]
      BY <2>3 DEF Enter, Game!Enter
    <3>2. Holds(t)
      BY <2>3 DEF Enter, Holds, Files
    <3>3. \A s \in Threads : call'[s].op # "none" => Holds(s)
      BY <1>1, <3>1, <3>2 DEF FileInv
    <3> QED
      BY <3>1, <3>3 DEF FileInv, Holds, fileVars
  <2>4. CASE Handle(t)
    <3>1. UNCHANGED fileVars
      BY <2>4 DEF Handle
    <3>2. \A s \in Threads : call'[s].op = call[s].op \/ call'[s].op = "none"
      BY <1>1, <2>4, HandleOps DEF Handle
    <3>3. \A s \in Threads : call'[s].op # "none" => Holds(s)
      BY <3>2 DEF FileInv
    <3> QED
      BY <3>1, <3>3 DEF FileInv, Holds, fileVars
  <2>5. CASE UseFreed(t)
    <3>1. UNCHANGED <<call, opened, freed, careless>> /\ LooksAtFreed(t)
      BY <2>5 DEF UseFreed, gameVars
    <3>2. freed # 0
      BY <1>1, <3>1 DEF LooksAtFreed
    <3>3. call[t].op # "none"
      BY <1>1, <3>1 DEF LooksAtFreed, GameP!Calls, GameP!Ops
    <3>4. opened # {}
      BY <3>3 DEF FileInv, Holds
    <3>5. careless
      BY <3>2, <3>4 DEF FileInv
    <3> QED
      BY <3>1, <3>5 DEF FileInv, Holds, Excused
  <2> QED
    BY <1>7, <2>1, <2>2, <2>3, <2>4, <2>5 DEF Process
<1> QED
  BY <1>3, <1>4, <1>5, <1>6, <1>7 DEF Next, Remove

(* A game that remove has freed is looked at only by a call whose device   *)
(* file was open then or was opened later, or by the remove that follows a *)
(* later probe (FreedGamesLeftAlone): the interrupt, which remove switches *)
(* off after it has freed the games, never does.                           *)
THEOREM FreedLeftAlone == Spec => []FreedGamesLeftAlone
<1>1. Init => FileInv /\ ProbeInv
  BY DEF Init, FileInv, ProbeInv, Game!Init
<1>2. FileInv => FreedGamesLeftAlone
  BY DEF FileInv, Excused, FreedGamesLeftAlone
<1>3. Spec => []ProbeInv
  BY <1>1, ProbeInvStep, Composition, PTL DEF Spec
<1> QED
  BY <1>1, <1>2, <1>3, FileStep, Composition, PTL DEF Spec

-----------------------------------------------------------------------------
(***************************************************************************)
(* CodeHasOrigin, for the fixed code of start.  What the interrupt thread  *)
(* is about to use was handed out, and what was handed out is not          *)
(* forgotten.                                                              *)
(***************************************************************************)
OriginInv ==
  /\ ~LockFree => oldest \in Net!Entries(fetched)
  /\ CodeHasOrigin

LEMMA HandleCode ==
  ASSUME NEW t, Game!Find(t) \/ Game!Body(t)
  PROVE  /\ target_code' = target_code \/ target_code' \in Game!NewCodes
         /\ UNCHANGED <<times_target_code_changed, num_invalid_change_attempts>>
<1> USE DEF Game!codeVars, Game!statVars
<1>1. CASE Game!Find(t)
  BY <1>1 DEF Game!Find, Game!FindOld, Game!FindNew, Game!FindFails, Game!Found
<1>2. CASE Game!Look(t) \/ Game!WriteRefused(t) \/ Game!CtlFault(t)
  BY <1>2 DEF Game!Look, Game!WriteRefused, Game!CtlFault, Game!Leave
<1>3. ASSUME NEW guess, Game!Write(t, guess) \/ Game!WriteInvalid(t, guess)
      PROVE  UNCHANGED <<target_code, times_target_code_changed, num_invalid_change_attempts>>
  BY <1>3 DEF Game!Write, Game!WriteInvalid, Game!Leave
<1>4. ASSUME NEW request, Game!Ctl(t, request)
      PROVE  /\ target_code' = target_code \/ target_code' \in Game!NewCodes
             /\ UNCHANGED <<times_target_code_changed, num_invalid_change_attempts>>
  BY <1>4 DEF Game!Ctl, Game!CtlStart, Game!CtlQuit, Game!CtlColors, Game!Leave
<1> QED
  BY <1>1, <1>2, <1>3, <1>4 DEF Game!Body

(* get_data only adds to what was handed out. *)
LEMMA EntriesAppend ==
  ASSUME NEW s \in Seq(Nat), NEW e \in Nat
  PROVE  /\ Net!Entries(Append(s, e)) = Net!Entries(s) \cup {e}
         /\ Len(Append(s, e)) = Len(s) + 1
<1> DEFINE longer == Append(s, e)
<1>1. Len(longer) = Len(s) + 1 /\ longer[Len(s) + 1] = e
  OBVIOUS
<1>2. \A i \in 1..Len(s) : longer[i] = s[i]
  OBVIOUS
<1>3. Len(s) \in Nat /\ 1..Len(longer) = 1..Len(s) \cup {Len(s) + 1}
  BY <1>1
<1> HIDE DEF longer
<1>4. {longer[i] : i \in 1..Len(longer)} = {s[i] : i \in 1..Len(s)} \cup {e}
  BY <1>1, <1>2, <1>3
<1> QED
  BY <1>1, <1>4 DEF Net!Entries, longer

LEMMA OriginStep ==
  RandomCode = FALSE /\ NetP!TypeOK /\ OriginInv /\ [Next]_vars => OriginInv'
<1> SUFFICES ASSUME RandomCode = FALSE, NetP!TypeOK, OriginInv, [Next]_vars
             PROVE  OriginInv'
  OBVIOUS
<1>1. CASE UNCHANGED <<bottom, oldest, fetched, target_code, staleRead>>
  BY <1>1 DEF OriginInv, LockFree, CodeHasOrigin, Net!Entries
<1>2. CASE Probe \/ Remove \/ SwitchNet \/ UNCHANGED vars
  <2>1. CASE RequestIrq \/ SwitchNet
    <3>1. UNCHANGED <<bottom, oldest, fetched, target_code, staleRead>>
      BY <2>1 DEF RequestIrq, BindGo, SwitchNet, Net!RequestIrq, Net!EnableCapture,
                  Net!EnableReinit, Net!DisableCapture, Net!DisableComplete, Net!FreeIrq,
                  Net!IrqFreed, Net!Switch, Net!SetRetrieved, Net!DriverStep,
                  Net!bottomVars, gameVars
    <3> QED
      BY <1>1, <3>1
  <2>2. CASE (Probe /\ ~RequestIrq) \/ Remove \/ UNCHANGED vars
    <3>1. UNCHANGED <<bottom, oldest, fetched, target_code, staleRead>>
      BY <2>2 DEF Probe, CreateStats, RegisterMm, RegisterCtl, Register, IrqFails,
                  IrqFailsTo, UndoCtl, UndoMm, UndoStats, Withdraw, Remove, FreeGames,
                  WithdrawMm, WithdrawCtl, RemoveStats, BindGo, vars, netVars, gameVars
    <3> QED
      BY <1>1, <3>1
  <2> QED
    BY <1>2, <2>1, <2>2
<1>3. ASSUME NEW t \in Threads, Process(t) PROVE OriginInv'
  <2>1. UNCHANGED <<bottom, oldest, fetched, staleRead>>
    BY <1>3 DEF Process, Open, Close, Enter, Handle, UseFreed, Calm, netVars
  <2>2. target_code' = target_code \/ target_code' \in Game!NewCodes
    BY <1>3, HandleCode DEF Process, Open, Close, Enter, Game!Enter, Handle, UseFreed,
                            gameVars, Game!codeVars
  <2>3. target_code' = target_code \/ target_code' = Game!FixedCode
    BY <2>2 DEF Game!NewCodes
  <2> QED
    BY <2>1, <2>3 DEF OriginInv, LockFree, CodeHasOrigin, Net!Entries
<1>4. CASE RunBottom \/ GetNothing
  <2>1. UNCHANGED <<fetched, target_code, staleRead>> /\ LockFree'
    BY <1>4 DEF RunBottom, GetNothing, Net!RunBottom, Net!GetOldest, Net!BottomStep,
                Game!BottomEnter, Game!BottomReject, Game!codeVars, LockFree
  <2> QED
    BY <2>1 DEF OriginInv, CodeHasOrigin, Net!Entries
<1>5. CASE GetPacket
  <2>1. /\ fetched' = Append(fetched, Head(list)) /\ oldest' = Head(list)
        /\ UNCHANGED <<target_code, staleRead>>
    BY <1>5 DEF GetPacket, Net!GetOldest, gameVars
  <2>2. fetched \in Seq(Nat) /\ Head(list) \in Nat
    BY <1>5 DEF NetP!TypeOK, GetPacket
  <2>3. Net!Entries(fetched') = Net!Entries(fetched) \cup {Head(list)}
    BY <2>1, <2>2, EntriesAppend
  <2>4. Net!Entries(fetched)' = Net!Entries(fetched')
    BY DEF Net!Entries
  <2> QED
    BY <2>1, <2>3, <2>4 DEF OriginInv, CodeHasOrigin
<1>6. CASE GoOn
  <2>1. UNCHANGED <<oldest, fetched, target_code, staleRead>> /\ ~LockFree
    BY <1>6 DEF GoOn, Net!CompleteRetrieved, Net!Acknowledge, Net!ReadLen, Net!BottomStep,
                LockFree, gameVars
  <2> QED
    BY <2>1 DEF OriginInv, CodeHasOrigin, Net!Entries
<1>7. CASE UsePacket
  <2>1. UNCHANGED fetched /\ LockFree' /\ ~LockFree
    BY <1>7 DEF UsePacket, Net!UseData, Net!BottomStep, LockFree
  <2>2. staleRead' <=> staleRead \/ oldest \notin Net!Entries(list)
    BY <1>7 DEF UsePacket
  <2>3. target_code' = target_code \/ target_code' \in Found
    BY <1>7 DEF UsePacket, Game!BottomInstall, Game!BottomReject
  <2>4. ~staleRead' => target_code' = target_code \/ target_code' = Payload[oldest]
    BY <2>2, <2>3 DEF Found
  <2>5. oldest \in Net!Entries(fetched)
    BY <2>1 DEF OriginInv
  <2>6. CodeHasOrigin'
    BY <2>1, <2>2, <2>4, <2>5 DEF OriginInv, CodeHasOrigin, Net!Entries
  <2> QED
    BY <2>1, <2>6 DEF OriginInv
<1>8. CASE Device
  <2>1. UNCHANGED <<bottom, oldest, fetched, target_code, staleRead>>
    BY <1>8 DEF Device, Net!Filter, Net!Capture, Net!AddTail, Net!AddTo, Net!QueueWork,
                Net!FilterStep, Net!Worker, Net!StartWork, Net!TriggerIrq, Net!TriggerTo,
                Net!TriggerFails, Net!WaitRetrieved, Net!ReinitRetrieved,
                Net!RemoveOldest, Net!Leaves, Net!WorkStep, Net!bottomVars, gameVars
  <2> QED
    BY <1>1, <2>1
<1> QED
  BY <1>2, <1>3, <1>4, <1>5, <1>6, <1>7, <1>8 DEF Next, Bottom

(* When start sets the fixed code (random_code, a parameter, is off), the  *)
(* code is that of start or was in one packet that the device handed out,  *)
(* whole, unless a packet was read after it was freed (CodeHasOrigin).     *)
THEOREM CodeOrigin == ASSUME RandomCode = FALSE PROVE Spec => []CodeHasOrigin
<1>1. Init => OriginInv
  <2> SUFFICES ASSUME Init PROVE OriginInv
    OBVIOUS
  <2>1. bottom = "idle"
    BY DEF Init, Net!Init, Net!Idle
  <2>2. Game!Pegs = 1..4
    BY DEF Game!Pegs, Game!NUM_PEGS
  <2>3. target_code = [p \in 1..4 |-> 0]
    BY <2>2 DEF Init, Game!Init
  <2> QED
    BY <2>1, <2>3 DEF OriginInv, LockFree, CodeHasOrigin
<1>2. Composed /\ OriginInv /\ [Next]_vars => OriginInv'
  BY OriginStep DEF Composed, DeviceInv
<1>3. OriginInv => CodeHasOrigin
  BY DEF OriginInv
<1> QED
  BY <1>1, <1>2, <1>3, Composition, PTL DEF Spec

-----------------------------------------------------------------------------
(***************************************************************************)
(* EachPacketCountedOnce.  Up to the first remove the device makes only    *)
(* the steps of a first driver, for which FirstInv is invariant; with that *)
(* the statistics follow the packets handed out.                           *)
(***************************************************************************)
FirstLoad == loads = 0 \/ (loads = 1 /\ bind = "bound")

Counted == Game!PacketsHandled + InHand = Len(fetched)

LoadInv ==
  /\ loads = 0 => bind \notin {"bound", "freed", "noFiles", "stopping"}
  /\ FirstLoad => NetP!FirstInv /\ Counted

LEMMA LoadsStep ==
  LoadInv /\ NetP!TypeOK /\ [Next]_vars
    => /\ loads' = 0 => bind' \notin {"bound", "freed", "noFiles", "stopping"}
       /\ FirstLoad' => FirstLoad
<1> SUFFICES ASSUME LoadInv, NetP!TypeOK, [Next]_vars
             PROVE  /\ loads' = 0 => bind' \notin {"bound", "freed", "noFiles", "stopping"}
                    /\ FirstLoad' => FirstLoad
  OBVIOUS
<1>1. loads \in Nat
  BY DEF NetP!TypeOK
<1>2. CASE UNCHANGED <<loads, bind>>
  BY <1>2 DEF LoadInv, FirstLoad
<1>3. CASE RequestIrq
  <2>1. loads' = loads + 1 /\ bind' = "bound"
    BY <1>3 DEF RequestIrq, BindGo, Net!RequestIrq
  <2> QED
    BY <1>1, <2>1 DEF FirstLoad
<1>4. CASE (Probe /\ ~RequestIrq) \/ Remove
  <2>1. UNCHANGED loads
    BY <1>4 DEF Probe, CreateStats, RegisterMm, RegisterCtl, Register, IrqFails,
                IrqFailsTo, UndoCtl, UndoMm, UndoStats, Withdraw, Remove, FreeGames,
                WithdrawMm, WithdrawCtl, RemoveStats, netVars
  <2>2. bind' # "bound"
        /\ (bind' \in {"freed", "noFiles", "stopping"}
              => bind \in {"bound", "freed", "noFiles", "stopping"})
    BY <1>4 DEF Probe, CreateStats, RegisterMm, RegisterCtl, Register, IrqFails,
                IrqFailsTo, UndoCtl, UndoMm, UndoStats, Withdraw, Remove, FreeGames,
                WithdrawMm, WithdrawCtl, RemoveStats, BindGo
  <2> QED
    BY <2>1, <2>2 DEF LoadInv, FirstLoad
<1>5. CASE SwitchNet \/ UNCHANGED vars
  <2>1. UNCHANGED <<loads, bind>>
    BY <1>5 DEF SwitchNet, Net!EnableCapture, Net!EnableReinit, Net!DisableCapture,
                Net!DisableComplete, Net!FreeIrq, Net!IrqFreed, Net!Switch,
                Net!SetRetrieved, vars, netVars
  <2> QED
    BY <1>2, <2>1
<1>6. CASE Bottom \/ Device \/ \E t \in Threads : Process(t)
  <2>1. UNCHANGED <<loads, bind>>
    BY <1>6 DEF Process, Open, Close, Enter, Handle, UseFreed, Calm, netVars, Bottom,
                RunBottom, GetPacket, GetNothing, GoOn, UsePacket, Device, Still,
                Net!RunBottom, Net!GetOldest, Net!CompleteRetrieved, Net!Acknowledge,
                Net!ReadLen, Net!UseData, Net!BottomStep, Net!Filter, Net!Capture,
                Net!AddTail, Net!AddTo, Net!QueueWork, Net!FilterStep, Net!Worker,
                Net!StartWork, Net!TriggerIrq, Net!TriggerTo, Net!TriggerFails,
                Net!WaitRetrieved, Net!ReinitRetrieved, Net!RemoveOldest,
                Net!Leaves, Net!WorkStep, Net!driverVars
  <2> QED
    BY <1>2, <2>1
<1> QED
  BY <1>3, <1>4, <1>5, <1>6 DEF Next

(* Nothing of remove reaches the device during the first load. *)
LEMMA FirstNetStep ==
  LoadInv /\ FirstLoad /\ [Next]_vars => [Net!NetNext \/ Net!Probe]_(Net!vars)
<1> SUFFICES ASSUME LoadInv, FirstLoad, [Next]_vars
             PROVE  Net!NetNext \/ Net!Probe \/ UNCHANGED netVars
  BY DEF Net!vars, netVars
<1>1. CASE Probe
  BY <1>1 DEF Probe, CreateStats, RegisterMm, RegisterCtl, Register, RequestIrq,
              IrqFails, IrqFailsTo, UndoCtl, UndoMm, UndoStats, Withdraw, Net!Probe
<1>2. CASE Remove
  BY <1>2 DEF Remove, FreeGames, WithdrawMm, WithdrawCtl, RemoveStats, Withdraw
<1>3. CASE SwitchNet
  <2>1. bind # "stopping"
    BY DEF LoadInv, FirstLoad
  <2> QED
    BY <1>3, <2>1 DEF SwitchNet, Net!Probe
<1>4. ASSUME NEW t \in Threads, Process(t) PROVE UNCHANGED netVars
  BY <1>4 DEF Process, Open, Close, Enter, Handle, UseFreed, Calm
<1>5. CASE Bottom
  BY <1>5 DEF Bottom, RunBottom, GetPacket, GetNothing, GoOn, UsePacket, Net!NetNext,
              Net!Bottom
<1>6. CASE Device
  BY <1>6 DEF Device, Net!NetNext
<1>7. CASE UNCHANGED vars
  BY <1>7 DEF vars
<1> QED
  BY <1>1, <1>2, <1>3, <1>4, <1>5, <1>6, <1>7 DEF Next

LEMMA CountStep ==
  /\ Counted /\ NetP!TypeOK /\ GameP!TypeOK /\ NetP!NeverNull /\ [Next]_vars
  => Counted'
<1> SUFFICES ASSUME Counted, NetP!TypeOK, GameP!TypeOK, NetP!NeverNull, [Next]_vars
             PROVE  Counted'
  OBVIOUS
<1>1. /\ times_target_code_changed \in Nat /\ num_invalid_change_attempts \in Nat
      /\ fetched \in Seq(Nat)
  BY DEF NetP!TypeOK, GameP!TypeOK
<1>2. CASE /\ UNCHANGED <<times_target_code_changed, num_invalid_change_attempts, fetched>>
           /\ LockFree' <=> LockFree
  BY <1>2 DEF Counted, Game!PacketsHandled, InHand
<1>3. CASE Probe \/ Remove \/ SwitchNet \/ Device \/ UNCHANGED vars
  <2>1. UNCHANGED <<times_target_code_changed, num_invalid_change_attempts>>
    BY <1>3 DEF Probe, CreateStats, RegisterMm, RegisterCtl, Register, RequestIrq,
                IrqFails, IrqFailsTo, UndoCtl, UndoMm, UndoStats, Withdraw, Remove,
                FreeGames, WithdrawMm, WithdrawCtl, RemoveStats, BindGo, SwitchNet, Device,
                vars, gameVars
  <2>2. UNCHANGED <<bottom, fetched>>
    <3>1. CASE RequestIrq \/ SwitchNet
      BY <3>1 DEF RequestIrq, SwitchNet, Net!RequestIrq, Net!EnableCapture,
                  Net!EnableReinit, Net!DisableCapture, Net!DisableComplete, Net!FreeIrq,
                  Net!IrqFreed, Net!Switch, Net!SetRetrieved, Net!DriverStep,
                  Net!bottomVars
    <3>2. CASE (Probe /\ ~RequestIrq) \/ Remove \/ UNCHANGED vars
      BY <3>2 DEF Probe, CreateStats, RegisterMm, RegisterCtl, Register, IrqFails,
                  IrqFailsTo, UndoCtl, UndoMm, UndoStats, Withdraw, Remove, FreeGames,
                  WithdrawMm, WithdrawCtl, RemoveStats, vars, netVars
    <3>3. CASE Device
      BY <3>3 DEF Device, Net!Filter, Net!Capture, Net!AddTail, Net!AddTo, Net!QueueWork,
                  Net!FilterStep, Net!Worker, Net!StartWork, Net!TriggerIrq,
                  Net!TriggerTo, Net!TriggerFails, Net!WaitRetrieved,
                  Net!ReinitRetrieved, Net!RemoveOldest, Net!Leaves, Net!WorkStep,
                  Net!bottomVars
    <3> QED
      BY <1>3, <3>1, <3>2, <3>3
  <2> QED
    BY <1>2, <2>1, <2>2 DEF LockFree
<1>4. ASSUME NEW t \in Threads, Process(t) PROVE Counted'
  <2>1. UNCHANGED <<bottom, fetched>>
    BY <1>4 DEF Process, Open, Close, Enter, Handle, UseFreed, Calm, netVars
  <2>2. UNCHANGED <<times_target_code_changed, num_invalid_change_attempts>>
    BY <1>4, HandleCode DEF Process, Open, Close, Enter, Game!Enter, Handle, UseFreed,
                            gameVars, Game!statVars
  <2> QED
    BY <1>2, <2>1, <2>2 DEF LockFree
<1>5. CASE RunBottom
  <2>1. UNCHANGED <<times_target_code_changed, num_invalid_change_attempts, fetched>>
    BY <1>5 DEF RunBottom, Net!RunBottom, Game!BottomEnter, Game!statVars
  <2>2. LockFree /\ LockFree'
    BY <1>5 DEF RunBottom, Net!RunBottom, Net!BottomStep, LockFree
  <2> QED
    BY <1>2, <2>1, <2>2
<1>6. CASE GetPacket
  <2>1. /\ UNCHANGED <<times_target_code_changed, num_invalid_change_attempts>>
        /\ fetched' = Append(fetched, Head(list)) /\ LockFree /\ ~LockFree'
    BY <1>6 DEF GetPacket, Net!GetOldest, Net!BottomStep, LockFree, gameVars
  <2>2. Len(fetched') = Len(fetched) + 1
    BY <1>1, <2>1
  <2> QED
    BY <1>1, <2>1, <2>2 DEF Counted, Game!PacketsHandled, InHand
<1>7. ~GetNothing
  BY DEF GetNothing, Net!GetOldest, Net!BottomStep, NetP!NeverNull
<1>8. CASE GoOn
  <2>1. UNCHANGED <<times_target_code_changed, num_invalid_change_attempts, fetched>>
    BY <1>8 DEF GoOn, Net!CompleteRetrieved, Net!Acknowledge, Net!ReadLen, gameVars
  <2>2. ~LockFree /\ ~LockFree'
    BY <1>8 DEF GoOn, Net!CompleteRetrieved, Net!Acknowledge, Net!ReadLen, Net!BottomStep,
                LockFree
  <2> QED
    BY <1>2, <2>1, <2>2
<1>9. CASE UsePacket
  <2>1. UNCHANGED fetched /\ ~LockFree /\ LockFree'
    BY <1>9 DEF UsePacket, Net!UseData, Net!BottomStep, LockFree
  <2>2. \/ /\ times_target_code_changed' = times_target_code_changed + 1
           /\ UNCHANGED num_invalid_change_attempts
        \/ /\ num_invalid_change_attempts' = num_invalid_change_attempts + 1
           /\ UNCHANGED times_target_code_changed
    BY <1>9 DEF UsePacket, Game!BottomInstall, Game!BottomReject
  <2> QED
    BY <1>1, <2>1, <2>2 DEF Counted, Game!PacketsHandled, InHand
<1> QED
  BY <1>3, <1>4, <1>5, <1>6, <1>7, <1>8, <1>9 DEF Next, Bottom

LEMMA LoadStep == Composed /\ LoadInv /\ [Next]_vars => LoadInv'
<1> SUFFICES ASSUME Composed, LoadInv, [Next]_vars PROVE LoadInv'
  OBVIOUS
<1>1. NetP!TypeOK /\ GameP!TypeOK
  BY DEF Composed, DeviceInv, GameP!IInv
<1>2. loads' = 0 => bind' \notin {"bound", "freed", "noFiles", "stopping"}
  BY <1>1, LoadsStep
<1>3. ASSUME FirstLoad' PROVE NetP!FirstInv' /\ Counted'
  <2>1. FirstLoad
    BY <1>1, <1>3, LoadsStep
  <2>2. NetP!FirstInv /\ Counted
    BY <2>1 DEF LoadInv
  <2>3. [NetP!NetNext \/ NetP!Probe]_(NetP!vars)
    BY <2>1, FirstNetStep, SameDevice
  <2>4. NetP!FirstInv'
    BY <2>2, <2>3, DeviceAssumed, NetP!FirstStep
  <2>5. NetP!NeverNull
    BY <2>2, DeviceAssumed, NetP!FirstOnce
  <2> QED
    BY <1>1, <2>2, <2>4, <2>5, CountStep
<1> QED
  BY <1>2, <1>3 DEF LoadInv

(* Until the first remove the statistics count every packet that was       *)
(* handed out exactly once (EachPacketCountedOnce), although               *)
(* cs421net_enable may wipe out the acknowledgement of the first ones.     *)
THEOREM CountedOnce == Spec => []EachPacketCountedOnce
<1>1. Init => LoadInv
  <2> SUFFICES ASSUME Init PROVE LoadInv
    OBVIOUS
  <2>1. NetP!FirstInv
    BY SameDevice, DeviceAssumed, NetP!FirstInit DEF Init
  <2>2. bottom = "idle" /\ fetched = <<>> /\ bind = "unbound"
    BY DEF Init, Net!Init, Net!Idle
  <2>3. Game!PacketsHandled = 0
    BY DEF Init, Game!Init, Game!PacketsHandled
  <2>4. Counted
    BY <2>2, <2>3 DEF Counted, InHand, LockFree
  <2> QED
    BY <2>1, <2>2, <2>4 DEF LoadInv
<1>2. LoadInv => EachPacketCountedOnce
  <2> SUFFICES ASSUME LoadInv, bind = "bound", loads = 1
               PROVE  Counted /\ Net!FetchedOnce
    BY DEF EachPacketCountedOnce, Counted
  <2>1. NetP!FirstInv /\ Counted
    BY DEF LoadInv, FirstLoad
  <2>2. NetP!FetchedOnce
    BY <2>1, DeviceAssumed, NetP!FirstOnce
  <2> QED
    BY <2>1, <2>2 DEF NetP!FetchedOnce, Net!FetchedOnce
<1> QED
  BY <1>1, <1>2, LoadStep, Composition, PTL DEF Spec
=============================================================================
