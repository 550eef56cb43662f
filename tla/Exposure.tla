------------------------------ MODULE Exposure ------------------------------
(***************************************************************************)
(* The trading cycle and the position cycle together.  They take turns on  *)
(* the listener thread, share its database session, and meet in the        *)
(* positions table: the limits on open positions count the rows that the   *)
(* position cycle last wrote, while an order changes what is open at the   *)
(* broker.                                                                 *)
(***************************************************************************)
EXTENDS TradingCycle

CONSTANTS
    Tickets,                \* positions of the account, by MT5 ticket
    TradedSymbol,           \* those of settings.trading_symbol
    MaxLostReads,           \* bound: requests for positions that fail
    MaxOpenPositions,       \* settings.max_open_positions
    MaxPerSymbol            \* settings.max_open_positions_per_symbol

ASSUME ExposureAssumption ==
    /\ TradedSymbol \subseteq Tickets
    /\ IsFiniteSet(Tickets)
    /\ MaxLostReads \in Nat
    /\ MaxOpenPositions \in Nat
    /\ MaxPerSymbol \in Nat

VARIABLES market, rows, closings, task, answer, lost, unseen, lostReads

P == INSTANCE PositionSync

positionVars == <<market, rows, closings, task, answer, lost, unseen, lostReads>>
cycleVars == <<envVars, broker, switches, dbVars, settings, lastCandle, pc, ctx, leaked>>
allVars == <<vars, positionVars>>

-----------------------------------------------------------------------------

ExposureInit == Init /\ P!Init

\* KillSwitchMonitor: every OPEN row counts.
RoomToOpen == Cardinality(P!OpenRows) < MaxOpenPositions

\* Mutant: the limit of the symbol may be reached once more.
SymbolRoomForOneMore == Cardinality(P!OpenRows \cap TradedSymbol) <= MaxPerSymbol

\* SignalValidator: the OPEN rows of the symbol count.
RoomInSymbol == Cardinality(P!OpenRows \cap TradedSymbol) < MaxPerSymbol

\* The startup recovery comes before the listener's first poll.
StartProcess == task = "idle" /\ Start /\ UNCHANGED positionVars

\* Mutant: a position cycle goes on in another thread when the listener dies.
ListenerEnds ==
    /\ UNCHANGED positionVars
    /\ Crash

\* The process takes both cycles with it; it may still be in its recovery.
ProcessEnds ==
    /\ P!Crash
    /\ Crash \/ (pc = "down" /\ UNCHANGED cycleVars)

\* The steps of a trading cycle that neither read nor change positions.
CycleStep ==
    /\ \/ CheckKillSwitch \/ ViolatedLimit \/ CollectData \/ IngestCandle
       \/ IngestNothing \/ GuardDataQuality \/ RunExecutionGate \/ RunApprovalEngine
       \/ RefuseExecution \/ BeginExecution \/ SubmitOrder \/ OrderCheckFailed
       \/ SendRefused \/ RecordResult \/ HandleExecutionError
       \/ StepRaises \/ IngestRaises \/ ExecutionRaises
    /\ UNCHANGED positionVars

\* A poll may find a new bar, but not while the position cycle runs.
PollBar == task = "idle" /\ PollNewCandle /\ UNCHANGED positionVars

CheckLimits == RoomToOpen /\ LimitsRespected /\ UNCHANGED positionVars

Filter ==
    /\ RunFilters
    /\ pc' = "ExecutionGate" => RoomInSymbol
    /\ UNCHANGED positionVars

\* An order that is filled opens a position, whatever answer reaches the worker.
OrderSent ==
    /\ SendOrder
    /\ IF broker'[Len(broker')].filled
       THEN \E t \in TradedSymbol : P!OpenPosition(t)
       ELSE UNCHANGED positionVars

SessionLost == task = "idle" /\ SessionPoisoned /\ UNCHANGED positionVars

\* The position cycle runs between trading cycles, the recovery before any.
PositionStep ==
    /\ \/ pc = "down" /\ P!StartRecovery
       \/ pc = "idle" /\ P!BeginCycle
       \/ P!UpsertRows \/ P!ReadForLifecycle \/ P!CloseMissing
       \/ P!CycleRaises
    /\ UNCHANGED cycleVars

\* The operator trades by hand, and stops and targets close positions.
BrokerStep == P!Broker /\ UNCHANGED cycleVars

EnvironmentStep == Environment /\ UNCHANGED positionVars

ExposureNext ==
    \/ StartProcess \/ ProcessEnds
    \/ PollBar \/ CycleStep \/ CheckLimits \/ Filter \/ OrderSent \/ SessionLost
    \/ PositionStep \/ BrokerStep \/ EnvironmentStep

ExposureSpec == ExposureInit /\ [][ExposureNext]_allVars
-----------------------------------------------------------------------------
\* Properties

\* An order is sent only while the positions the worker has had a chance to
\* know of leave room for it, in the account and in the symbol, even though
\* the limits were read from a table several steps before.
OrdersLeaveRoom ==
    [][broker' # broker =>
         /\ Cardinality(P!OpenAtBroker \ unseen) < MaxOpenPositions
         /\ Cardinality((P!OpenAtBroker \ unseen) \cap TradedSymbol) < MaxPerSymbol]_allVars

\* Seen alone, each of the two cycles does what its module says, although they
\* share the session and an order opens a position: what is shown of either
\* module holds of the worker.
CyclesKept == Spec /\ P!Spec

-----------------------------------------------------------------------------
\* What relates the two cycles

RoomSteps == (Steps \ {"KillSwitchMonitor", "SafetyLimits"}) \cup TrySteps
SymbolRoomSteps == {"ExecutionGate", "ApprovalEngine", "ExecutionEngine"} \cup TrySteps

\* One cycle runs at a time, an order is attempted on a usable session, and the
\* limits still hold of the table when it is sent.
TurnInv ==
    /\ session \in {"clean", "poisoned"}
    /\ pc \in TrySteps \cup {"ExecutionError"} => session = "clean"
    /\ pc = "down" => session = "clean" /\ task \in {"down", "recovery", "idle"}
    /\ pc \notin {"down", "idle"} => task = "idle"
    /\ pc = "idle" => task \notin {"down", "recovery"}
    /\ pc \in RoomSteps => RoomToOpen
    /\ pc \in SymbolRoomSteps => RoomInSymbol
=============================================================================
