---------------------------- MODULE TradingCycle ----------------------------
(***************************************************************************)
(* The listener thread of the production worker (src/bot_worker.py) and    *)
(* the pipeline it drives, from a new bar to a broker order:               *)
(*                                                                         *)
(*   MT5ListenerEngine -> TradingOrchestrator -> KillSwitchMonitor ->      *)
(*   DataCollectorEngine -> MarketDataIngestionEngine -> DataQualityGuard  *)
(*   -> the signal and risk filters -> ExecutionGate -> ApprovalEngine ->  *)
(*   ExecutionEngine -> MT5OrderExecutor -> broker                         *)
(*                                                                         *)
(* interleaved with the API process (kill switch), the operator (settings, *)
(* terminal login, restarts), the clock, and failures of the process, the  *)
(* database session and the broker call.  One action stands for what a     *)
(* step does between two points where another actor can interfere.         *)
(***************************************************************************)
EXTENDS Integers, Sequences, FiniteSets

CONSTANTS
    MaxCandle,          \* bound: bars that open during a behaviour
    MaxDay,             \* bound: days a behaviour spans
    MaxSwitches,        \* bound: kill-switch rows active at a time
    MaxTradesPerDay,    \* settings.max_trades_per_day
    SettingsChoices     \* the .env files the worker may be started with

SettingsType ==
    [autoTrade : BOOLEAN, dryRun : BOOLEAN,
     approvalRequired : BOOLEAN, demoAuto : BOOLEAN]

ASSUME BoundsAssumption ==
    /\ MaxCandle \in Nat \ {0}
    /\ MaxDay \in Nat \ {0}
    /\ MaxSwitches \in Nat \ {0}
    /\ MaxTradesPerDay \in Nat

ASSUME SettingsAssumption ==
    SettingsChoices # {} /\ SettingsChoices \subseteq SettingsType

VARIABLES
    \* broker, terminal and clock
    head,           \* open time of the bar now forming
    accountDemo,    \* the account the MT5 terminal is logged in to is a demo
    day,            \* the current UTC day
    broker,         \* the order_send calls that reached the broker
    \* database
    switches,       \* kill_switch_states rows with is_active and no deactivated_at
    dbCandle,       \* newest open_time in candles, 0 when the table is empty
    decisions,      \* execution_decisions
    approvals,      \* approval_requests that are PENDING, by candle
    orders,         \* execution_orders, in insertion order
    \* worker process
    settings,       \* AppSettings, read once at start
    lastCandle,     \* MT5ListenerEngine._last_candle_time, 0 for None
    pc,             \* where the listener thread is
    ctx,            \* the TradingContext of the cycle
    session,        \* the trading session: usable, or poisoned by a failed flush
    \* history, read by no action's guard
    leaked          \* orders sent since the kill switch last became active

envVars == <<head, accountDemo, day>>
dbVars  == <<dbCandle, decisions, approvals, orders>>
vars    == <<head, accountDemo, day, broker, switches, dbCandle, decisions,
             approvals, orders, settings, lastCandle, pc, ctx, session, leaked>>

-----------------------------------------------------------------------------

\* The steps run_and_audit runs, in PIPELINE_STEP_ORDER.  KillSwitchMonitor is
\* split at its two database reads, ExecutionEngine at its broker calls; the
\* ten steps between DataQualityGuard and ExecutionGate are "Filters".
ClaimedSteps == {"DataQualityGuard", "Filters", "ExecutionGate",
                 "ApprovalEngine", "ExecutionEngine"}
Steps == {"KillSwitchMonitor", "SafetyLimits", "DataCollectorEngine",
          "MarketDataIngestionEngine"} \cup ClaimedSteps
TrySteps == {"SubmitOrder", "SendOrder", "RecordResult"}
Positions == {"down", "idle"} \cup Steps \cup TrySteps \cup {"ExecutionError"}

Decisions   == {"APPROVE_AUTO", "DRY_RUN", "MANUAL_APPROVAL", "REJECT", "KILL_SWITCH"}
OrderStatus == {"SUBMITTED", "FILLED", "REJECTED", "DRY_RUN", "ERROR"}
Replies     == {"DONE", "PLACED", "DONE_PARTIAL", "REJECT", "NONE", "RAISED"}

Context ==
    [candle : Nat, history : BOOLEAN, duplicate : BOOLEAN, demo : BOOLEAN,
     decision : Decisions \cup {"UNSET"}, row : Nat,
     result : OrderStatus \cup {"UNSET"}]

NoContext ==
    [candle |-> 0, history |-> FALSE, duplicate |-> FALSE, demo |-> FALSE,
     decision |-> "UNSET", row |-> 0, result |-> "UNSET"]

At(step) == pc = step /\ session = "clean"

\* The cycle is over: rejected, failed or completed.
EndCycle == pc' = "idle" /\ ctx' = NoContext

\* Mutant: deactivated_at is compared with = NULL, which matches no row.
KillSwitchNeverFound == FALSE

KillSwitchActive == switches > 0

AddOrder(status) ==
    orders' = Append(orders, [candle |-> ctx.candle, day |-> day, status |-> status])

AddDecision(d) ==
    decisions' = decisions \cup {[candle |-> ctx.candle, decision |-> d]}

RowsOn(d) == {r \in DOMAIN orders : orders[r].day = d}

TradesToday == Cardinality(RowsOn(day))

\* Mutant: the limit is hit only when it is exceeded.
TradeLimitExceeded == TradesToday > MaxTradesPerDay

TradeLimitHit == TradesToday >= MaxTradesPerDay

\* candle_service.detect_duplicate, evaluated before the candles are saved.
IsDuplicate == ctx.candle = dbCandle

Init ==
    /\ head = 1
    /\ accountDemo \in BOOLEAN
    /\ day = 1
    /\ broker = <<>>
    /\ switches = 0
    /\ dbCandle = 0
    /\ decisions = {}
    /\ approvals = {}
    /\ orders = <<>>
    /\ settings \in SettingsChoices
    /\ lastCandle = 0
    /\ pc = "down"
    /\ ctx = NoContext
    /\ session = "clean"
    /\ leaked = 0

-----------------------------------------------------------------------------
\* The worker process and the listener

\* main() up to listener.start(): a new process reads its settings.  Recovery
\* only reads the tables of this module.
Start ==
    /\ pc = "down"
    /\ settings' \in SettingsChoices
    /\ pc' = "idle"
    /\ UNCHANGED <<envVars, broker, switches, dbVars, lastCandle, ctx, session,
                   leaked>>

\* The process dies, or main() returns and takes the daemon thread with it.
\* What its memory held is lost: the context of the cycle, the listener's last
\* candle and the session with whatever it had not committed.
Crash ==
    /\ pc # "down"
    /\ pc' = "down"
    /\ ctx' = NoContext
    /\ lastCandle' = 0
    /\ session' = "clean"
    /\ UNCHANGED <<envVars, broker, switches, dbVars, settings, leaked>>

\* Mutant: the listener waits for a bar more than one step ahead.
PollSkipsNextCandle ==
    /\ pc = "idle"
    /\ head > lastCandle + 1
    /\ lastCandle' = head
    /\ ctx' = [NoContext EXCEPT !.candle = head]
    /\ pc' = "KillSwitchMonitor"
    /\ UNCHANGED <<envVars, broker, switches, dbVars, settings, session, leaked>>

\* _poll_once: the candle is marked as seen before the callback runs it.
PollNewCandle ==
    /\ pc = "idle"
    /\ head > lastCandle
    /\ lastCandle' = head
    /\ ctx' = [NoContext EXCEPT !.candle = head]
    /\ pc' = "KillSwitchMonitor"
    /\ UNCHANGED <<envVars, broker, switches, dbVars, settings, session, leaked>>

\* A step raises, and run_cycle ends the cycle.  A database error leaves the
\* session in need of a rollback that nobody issues, and from then on
\* create_engine_run raises at the first step of every cycle.
StepRaises ==
    /\ pc \in Steps
    /\ EndCycle
    /\ session' \in {session, "poisoned"}
    /\ UNCHANGED <<envVars, broker, switches, dbVars, settings, lastCandle, leaked>>

\* A database error in anything else that runs on the trading session: the
\* position cycle of on_tick, the journal of a rejection, or the two steps
\* after ExecutionEngine.
SessionPoisoned ==
    /\ At("idle")
    /\ session' = "poisoned"
    /\ UNCHANGED <<envVars, broker, switches, dbVars, settings, lastCandle, pc,
                   ctx, leaked>>

-----------------------------------------------------------------------------
\* KillSwitchMonitor

CheckKillSwitch ==
    /\ At("KillSwitchMonitor")
    /\ \/ KillSwitchActive /\ EndCycle
       \/ ~KillSwitchActive /\ pc' = "SafetyLimits" /\ UNCHANGED ctx
    /\ UNCHANGED <<envVars, broker, switches, dbVars, settings, lastCandle,
                   session, leaked>>

InsertSwitch ==
    /\ switches' = switches + 1
    /\ leaked' = IF switches > 0 THEN leaked ELSE 0

\* A violated limit activates the switch.  The rules on open positions and on
\* consecutive losses read rows this module does not hold: they may be
\* violated at any time.
ViolatedLimit ==
    /\ At("SafetyLimits")
    /\ switches < MaxSwitches
    /\ InsertSwitch
    /\ EndCycle
    /\ UNCHANGED <<envVars, broker, dbVars, settings, lastCandle, session>>

LimitsRespected ==
    /\ At("SafetyLimits")
    /\ ~TradeLimitHit
    /\ pc' = "DataCollectorEngine"
    /\ UNCHANGED <<envVars, broker, switches, dbVars, settings, lastCandle, ctx,
                   session, leaked>>

-----------------------------------------------------------------------------
\* Data collection, ingestion and quality

\* The rates are fetched again, so the bar may be newer than the one of the
\* event; when MT5 returns none the snapshot of the event stays.  The account
\* read here is the one the gate and the execution engine judge later.
CollectData ==
    /\ At("DataCollectorEngine")
    /\ \E history, account \in BOOLEAN :
         ctx' = [ctx EXCEPT !.history = history,
                            !.candle = IF history THEN head ELSE ctx.candle,
                            !.demo = account /\ accountDemo]
    /\ pc' = "MarketDataIngestionEngine"
    /\ UNCHANGED <<envVars, broker, switches, dbVars, settings, lastCandle,
                   session, leaked>>

\* Mutant: the commit in save_candles is missing.
SaveUncommitted == UNCHANGED dbCandle

SaveCandle ==
    dbCandle' = IF ctx.candle > dbCandle THEN ctx.candle ELSE dbCandle

IngestCandle ==
    /\ At("MarketDataIngestionEngine")
    /\ ctx.history
    /\ SaveCandle
    /\ ctx' = [ctx EXCEPT !.duplicate = IsDuplicate]
    /\ pc' = "DataQualityGuard"
    /\ UNCHANGED <<envVars, broker, switches, decisions, approvals, orders,
                   settings, lastCandle, session, leaked>>

\* save_candles commits before the tick and the account snapshot are written:
\* a failure after it leaves the candle stored and the cycle over.
IngestRaises ==
    /\ At("MarketDataIngestionEngine")
    /\ ctx.history
    /\ SaveCandle
    /\ EndCycle
    /\ session' \in {"clean", "poisoned"}
    /\ UNCHANGED <<envVars, broker, switches, decisions, approvals, orders,
                   settings, lastCandle, leaked>>

IngestNothing ==
    /\ At("MarketDataIngestionEngine")
    /\ ~ctx.history
    /\ pc' = "DataQualityGuard"
    /\ UNCHANGED <<envVars, broker, switches, dbVars, settings, lastCandle, ctx,
                   session, leaked>>

\* Mutant: the guard ignores the duplicate flag.
QualityIgnoresDuplicate == TRUE

\* OHLC, spread and gap issues depend on data the model leaves out: the guard
\* may reject any candle, and must reject a duplicate.
QualityAllows == ~ctx.duplicate

\* MarketRegimeEngine rejects a cycle that collected no candles; the other
\* filters up to BrokerHealthCheck may reject any cycle.
FiltersAllow == ctx.history

Judge(step, allows, next) ==
    /\ At(step)
    /\ \/ allows /\ pc' = next /\ UNCHANGED ctx
       \/ EndCycle
    /\ UNCHANGED <<envVars, broker, switches, dbVars, settings, lastCandle,
                   session, leaked>>

GuardDataQuality == Judge("DataQualityGuard", QualityAllows, "Filters")
RunFilters       == Judge("Filters", FiltersAllow, "ExecutionGate")

-----------------------------------------------------------------------------
\* ExecutionGate and ApprovalEngine

\* Mutant: the gate's own word is stored instead of the database code.
GateDecisionUnmapped(checksPassed) ==
    IF KillSwitchActive THEN "KILL_SWITCH"
    ELSE IF settings.demoAuto /\ ~ctx.demo THEN "REJECT"
    ELSE IF ~settings.autoTrade \/ ~checksPassed THEN "REJECT"
    ELSE IF settings.dryRun THEN "DRY_RUN"
    ELSE IF settings.approvalRequired THEN "REQUIRE_MANUAL_APPROVAL"
    ELSE "APPROVE_AUTO"

\* Mutant: the gate forgets that a person must approve.
GateDecisionUnattended(checksPassed) ==
    IF KillSwitchActive THEN "KILL_SWITCH"
    ELSE IF settings.demoAuto /\ ~ctx.demo THEN "REJECT"
    ELSE IF ~settings.autoTrade \/ ~checksPassed THEN "REJECT"
    ELSE IF settings.dryRun THEN "DRY_RUN"
    ELSE "APPROVE_AUTO"

GateDecision(checksPassed) ==
    IF KillSwitchActive THEN "KILL_SWITCH"
    ELSE IF settings.demoAuto /\ ~ctx.demo THEN "REJECT"
    ELSE IF ~settings.autoTrade \/ ~checksPassed THEN "REJECT"
    ELSE IF settings.dryRun THEN "DRY_RUN"
    ELSE IF settings.approvalRequired THEN "MANUAL_APPROVAL"
    ELSE "APPROVE_AUTO"

RunExecutionGate ==
    /\ At("ExecutionGate")
    /\ \E checksPassed \in BOOLEAN :
         LET d == GateDecision(checksPassed) IN
         /\ AddDecision(d)
         /\ \/ d \in {"REJECT", "KILL_SWITCH"} /\ EndCycle
            \/ /\ d \notin {"REJECT", "KILL_SWITCH"}
               /\ ctx' = [ctx EXCEPT !.decision = d]
               /\ pc' = "ApprovalEngine"
    /\ UNCHANGED <<envVars, broker, switches, dbCandle, approvals, orders,
                   settings, lastCandle, session, leaked>>

NeedsApproval == settings.approvalRequired /\ ctx.decision = "MANUAL_APPROVAL"

RunApprovalEngine ==
    /\ At("ApprovalEngine")
    /\ \/ /\ NeedsApproval
          /\ approvals' = approvals \cup {ctx.candle}
          /\ EndCycle
       \/ /\ ~NeedsApproval
          /\ pc' = "ExecutionEngine"
          /\ UNCHANGED <<approvals, ctx>>
    /\ UNCHANGED <<envVars, broker, switches, dbCandle, decisions, orders,
                   settings, lastCandle, session, leaked>>

-----------------------------------------------------------------------------
\* ExecutionEngine

DemoLocked == settings.demoAuto /\ ~ctx.demo

MayExecute == ctx.decision = "APPROVE_AUTO" /\ ~settings.dryRun

\* The rows written for an order that will not be sent.
RefusalStatus ==
    {status \in {"REJECTED", "DRY_RUN"} :
        IF DemoLocked THEN status = "REJECTED" ELSE status = ctx.decision}

\* The returns before the try block.  A stop loss or take profit that is not
\* positive rejects the cycle without a row, as an active kill switch does.
RefuseExecution ==
    /\ At("ExecutionEngine")
    /\ \/ UNCHANGED orders
       \/ ~KillSwitchActive /\ \E status \in RefusalStatus : AddOrder(status)
    /\ EndCycle
    /\ UNCHANGED <<envVars, broker, switches, dbCandle, decisions, approvals,
                   settings, lastCandle, session, leaked>>

BeginExecution ==
    /\ At("ExecutionEngine")
    /\ ~KillSwitchActive
    /\ ~DemoLocked
    /\ MayExecute
    /\ pc' = "SubmitOrder"
    /\ UNCHANGED <<envVars, broker, switches, dbVars, settings, lastCandle, ctx,
                   session, leaked>>

\* Mutant: the SUBMITTED row is left to the transaction that records the answer.
SubmitWithoutRow ==
    /\ pc = "SubmitOrder"
    /\ ctx' = [ctx EXCEPT !.row = Len(orders) + 1]
    /\ pc' \in {"SendOrder", "ExecutionError"}
    /\ UNCHANGED <<envVars, broker, switches, dbVars, settings, lastCandle,
                   session, leaked>>

\* order_check passes: the SUBMITTED row is committed before the order is
\* sent.  The commit may reach the database and still raise here.
SubmitOrder ==
    /\ pc = "SubmitOrder"
    /\ AddOrder("SUBMITTED")
    /\ ctx' = [ctx EXCEPT !.row = Len(orders) + 1]
    /\ pc' \in {"SendOrder", "ExecutionError"}
    /\ UNCHANGED <<envVars, broker, switches, dbCandle, decisions, approvals,
                   settings, lastCandle, session, leaked>>

OrderCheckFailed ==
    /\ pc = "SubmitOrder"
    /\ AddOrder("REJECTED")
    /\ \/ EndCycle
       \/ pc' = "ExecutionError" /\ UNCHANGED ctx
    /\ UNCHANGED <<envVars, broker, switches, dbCandle, decisions, approvals,
                   settings, lastCandle, session, leaked>>

\* Building the request, the broker call or the database raised inside the try
\* block, before anything new was committed.
ExecutionRaises ==
    /\ pc \in TrySteps
    /\ pc' = "ExecutionError"
    /\ UNCHANGED <<envVars, broker, switches, dbVars, settings, lastCandle, ctx,
                   session, leaked>>

\* send_market_order gives up before order_send: its own guards, the rebuilt
\* request, or its second order_check.
SendRefused ==
    /\ pc = "SendOrder"
    /\ \E result \in {"DRY_RUN", "REJECTED", "ERROR"} :
         /\ result = "DRY_RUN" => settings.dryRun
         /\ ctx' = [ctx EXCEPT !.result = result]
    /\ pc' = "RecordResult"
    /\ UNCHANGED <<envVars, broker, switches, dbVars, settings, lastCandle,
                   session, leaked>>

ResultOf(reply) ==
    CASE reply \in {"DONE", "PLACED"} -> "FILLED"
      [] reply = "NONE" -> "ERROR"
      [] OTHER -> "REJECTED"

\* mt5.order_send.  An answer that is lost (None, or an exception) says
\* nothing about what the broker did.
SendOrder ==
    /\ pc = "SendOrder"
    /\ ~settings.dryRun
    /\ ctx.decision = "APPROVE_AUTO"
    /\ \E reply \in Replies, filled \in BOOLEAN :
         /\ reply \in {"DONE", "PLACED", "DONE_PARTIAL"} => filled
         /\ reply = "REJECT" => ~filled
         /\ broker' = Append(broker, [candle |-> ctx.candle, day |-> day,
                                      demo |-> accountDemo, filled |-> filled])
         /\ \/ /\ reply = "RAISED"
               /\ pc' = "ExecutionError"
               /\ UNCHANGED ctx
            \/ /\ reply # "RAISED"
               /\ ctx' = [ctx EXCEPT !.result = ResultOf(reply)]
               /\ pc' = "RecordResult"
    /\ leaked' = IF switches > 0 THEN leaked + 1 ELSE leaked
    /\ UNCHANGED <<envVars, switches, dbVars, settings, lastCandle, session>>

\* Mutant: the update is never committed.
RecordNothing ==
    /\ pc = "RecordResult"
    /\ EndCycle
    /\ UNCHANGED <<envVars, broker, switches, dbVars, settings, lastCandle,
                   session, leaked>>

\* update_execution_order_result and its commit.
RecordResult ==
    /\ pc = "RecordResult"
    /\ orders' = [orders EXCEPT ![ctx.row].status = ctx.result]
    /\ \/ EndCycle
       \/ pc' = "ExecutionError" /\ UNCHANGED ctx
    /\ UNCHANGED <<envVars, broker, switches, dbCandle, decisions, approvals,
                   settings, lastCandle, session, leaked>>

\* The except branch: rollback, a new ERROR row, rejection.  Inserting the row
\* may fail as well, and that poisons the session.
HandleExecutionError ==
    /\ pc = "ExecutionError"
    /\ \/ AddOrder("ERROR") /\ session' \in {"clean", "poisoned"}
       \/ UNCHANGED orders /\ session' = "poisoned"
    /\ EndCycle
    /\ UNCHANGED <<envVars, broker, switches, dbCandle, decisions, approvals,
                   settings, lastCandle, leaked>>

-----------------------------------------------------------------------------
\* The API process, the market, the operator and the clock

ActivateKillSwitch ==
    /\ switches < MaxSwitches
    /\ InsertSwitch
    /\ UNCHANGED <<envVars, broker, dbVars, settings, lastCandle, pc, ctx, session>>

\* The latest active row is deactivated; with none the call changes nothing.
DeactivateKillSwitch ==
    /\ switches' = IF KillSwitchActive THEN switches - 1 ELSE switches
    /\ UNCHANGED <<envVars, broker, dbVars, settings, lastCandle, pc, ctx,
                   session, leaked>>

NewBar ==
    /\ head < MaxCandle
    /\ head' = head + 1
    /\ UNCHANGED <<accountDemo, day, broker, switches, dbVars, settings,
                   lastCandle, pc, ctx, session, leaked>>

Midnight ==
    /\ day < MaxDay
    /\ day' = day + 1
    /\ UNCHANGED <<head, accountDemo, broker, switches, dbVars, settings,
                   lastCandle, pc, ctx, session, leaked>>

SwitchAccount ==
    /\ accountDemo' = ~accountDemo
    /\ UNCHANGED <<head, day, broker, switches, dbVars, settings, lastCandle, pc,
                   ctx, session, leaked>>

-----------------------------------------------------------------------------

Listener ==
    \/ PollNewCandle
    \/ CheckKillSwitch \/ ViolatedLimit \/ LimitsRespected
    \/ CollectData \/ IngestCandle \/ IngestNothing
    \/ GuardDataQuality \/ RunFilters
    \/ RunExecutionGate \/ RunApprovalEngine
    \/ RefuseExecution \/ BeginExecution
    \/ SubmitOrder \/ OrderCheckFailed \/ SendRefused \/ SendOrder
    \/ RecordResult \/ HandleExecutionError

Failures ==
    StepRaises \/ IngestRaises \/ ExecutionRaises \/ SessionPoisoned \/ Crash

Environment ==
    ActivateKillSwitch \/ DeactivateKillSwitch \/ NewBar \/ Midnight \/ SwitchAccount

Next == Start \/ Listener \/ Failures \/ Environment

Spec == Init /\ [][Next]_vars

\* Nothing fails: the process stays up, the database and the broker call never
\* raise, and MT5 answers the request for rates.  The listener thread wakes up
\* every second and is never blocked for good.
SteadyNext ==
    /\ Start \/ Listener \/ Environment
    /\ pc' # "ExecutionError"
    /\ pc' = "MarketDataIngestionEngine" => ctx'.history

SteadySpec == Init /\ [][SteadyNext]_vars /\ WF_vars(Start) /\ WF_vars(Listener)
-----------------------------------------------------------------------------
\* Properties

BrokerOrder == [candle : Nat, day : Nat, demo : BOOLEAN, filled : BOOLEAN]
OrderRow    == [candle : Nat, day : Nat, status : OrderStatus]

\* Every variable keeps to the values the code can give it.
TypeOK ==
    /\ head \in Nat /\ accountDemo \in BOOLEAN /\ day \in Nat
    /\ broker \in Seq(BrokerOrder)
    /\ switches \in Nat
    /\ dbCandle \in Nat
    /\ decisions \subseteq [candle : Nat, decision : Decisions]
    /\ approvals \subseteq Nat
    /\ orders \in Seq(OrderRow)
    /\ settings \in SettingsType
    /\ lastCandle \in Nat
    /\ pc \in Positions
    /\ ctx \in Context
    /\ session \in {"clean", "poisoned"}
    /\ leaked \in Nat

\* No candle gives rise to two order_send calls, whatever restarts, repeated
\* candle events and failures come between the first call and the second.
AtMostOneOrderPerCandle ==
    \A i, j \in DOMAIN broker : broker[i].candle = broker[j].candle => i = j

\* The kill switch lets at most one order through while it is active: the one
\* ExecutionEngine had already decided to send when the switch was activated.
KillSwitchLeaksAtMostOne == leaked <= 1

\* An order at the broker can be explained from the database: its candle was
\* approved automatically and has an order row, written before the call, and a
\* row that says FILLED stands for an order the broker did fill.
BrokerOrdersExplained ==
    /\ \A i \in DOMAIN broker :
         /\ [candle |-> broker[i].candle, decision |-> "APPROVE_AUTO"] \in decisions
         /\ \E r \in DOMAIN orders : /\ orders[r].candle = broker[i].candle
                                    /\ orders[r].status # "DRY_RUN"
                                    /\ orders[r].day <= broker[i].day
    /\ \A r \in DOMAIN orders : orders[r].status = "FILLED" =>
         \E i \in DOMAIN broker : /\ broker[i].candle = orders[r].candle
                                 /\ broker[i].filled

SentOn(d) == {i \in DOMAIN broker : broker[i].day = d}

LateOrders(d) == IF d = 1 THEN 0 ELSE 1

\* KillSwitchMonitor holds the orders of a day to max_trades_per_day; on every
\* day but the first one more may have its row written just before midnight and
\* be sent just after.
DailyTradeCap ==
    \A d \in 1..day : Cardinality(SentOn(d)) <= MaxTradesPerDay + LateOrders(d)

\* Orders go out only under settings that allow unattended live trading, and
\* with the demo lock on only if the cycle found a demo account.
OrdersObeySettings ==
    [][broker' # broker =>
         /\ settings.autoTrade /\ ~settings.dryRun /\ ~settings.approvalRequired
         /\ settings.demoAuto => ctx.demo]_vars

\* The worker keeps the promise of CandleOrders: a claim is the commit of a
\* candle newer than all stored ones, and lives until the order is sent or the
\* cycle is over.
ClaimLive ==
    /\ pc \in ClaimedSteps \cup {"SubmitOrder", "SendOrder"}
    /\ ctx.history /\ ~ctx.duplicate

Ordered == {broker[i].candle : i \in DOMAIN broker}

Promise == INSTANCE CandleOrders WITH
    claimed <- dbCandle, live <- ClaimLive, ordered <- Ordered

KeepsPromise == Promise!Spec

\* While nothing fails, a bar the listener has not seen yet is stored, by its
\* own cycle or by a later one, unless the kill switch gets in the way: a bar
\* is given out once, so a cycle that loses it has no second chance.
NewBarStored ==
    \A c \in 1..MaxCandle :
        (head = c /\ lastCandle < c) ~> (dbCandle >= c \/ KillSwitchActive)

\* While nothing fails, an order row does not stay SUBMITTED: the broker's
\* answer replaces it.
SubmittedResolved ==
    \A r \in 1..MaxCandle :
        (r \in DOMAIN orders /\ orders[r].status = "SUBMITTED")
            ~> (r \in DOMAIN orders /\ orders[r].status # "SUBMITTED")

\* GUIDE.md: while the kill switch is active the pipeline executes nothing.
KillSwitchStopsOrders == [][broker' # broker => ~KillSwitchActive]_vars

-----------------------------------------------------------------------------
\* The inductive invariant behind the properties, by part

ApprovedSteps == {"ApprovalEngine", "ExecutionEngine"} \cup TrySteps
ArmedSteps    == {"SubmitOrder", "SendOrder"}

\* What the context of a cycle says at each step.
ContextInv ==
    /\ pc \in (ClaimedSteps \ {"DataQualityGuard"}) \cup ArmedSteps => ~ctx.duplicate
    /\ pc \in (ClaimedSteps \ {"DataQualityGuard", "Filters"}) \cup ArmedSteps => ctx.history
    /\ pc \in TrySteps => ctx.decision = "APPROVE_AUTO" /\ ~settings.dryRun
    /\ pc = "RecordResult" => ctx.result \in {"FILLED", "REJECTED", "ERROR"}
    /\ pc \in {"down", "idle"} => ctx = NoContext

\* Candles are claimed in increasing order, and a claim in progress has not
\* been used.
ClaimInv ==
    /\ dbCandle <= head
    /\ pc = "MarketDataIngestionEngine" /\ ctx.history =>
         dbCandle <= ctx.candle /\ ctx.candle <= head
    /\ \A i \in DOMAIN broker : broker[i].candle <= dbCandle
    /\ pc \in ClaimedSteps \cup ArmedSteps /\ ctx.history /\ ~ctx.duplicate =>
         /\ ctx.candle = dbCandle
         /\ \A i \in DOMAIN broker : broker[i].candle # dbCandle

\* An order that may still leak has not leaked yet.
LeakInv == switches > 0 /\ pc \in ArmedSteps => leaked = 0

\* The decision and the order row that explain the order about to be sent.
TrailInv ==
    /\ pc \in ApprovedSteps => [candle |-> ctx.candle, decision |-> ctx.decision] \in decisions
    /\ pc \in {"SendOrder", "RecordResult"} =>
         /\ ctx.row \in DOMAIN orders
         /\ orders[ctx.row].candle = ctx.candle
         /\ orders[ctx.row].status # "DRY_RUN"
         /\ orders[ctx.row].day <= day
    /\ pc = "RecordResult" /\ ctx.result = "FILLED" =>
         \E i \in DOMAIN broker : broker[i].candle = ctx.candle /\ broker[i].filled

\* An order is approved only by settings that allow it, and settings do not
\* change while the process runs.
SettingsInv ==
    /\ pc \in ApprovedSteps /\ ctx.decision = "APPROVE_AUTO" =>
         settings.autoTrade /\ ~settings.approvalRequired
    /\ pc \in ArmedSteps => (settings.demoAuto => ctx.demo)

\* A row of the day stands for every order of the day but a late one; after the
\* check of the limits the day has room for one more row; and an order whose row
\* is written has its place among the orders of the day, or is the day's first.
LimitedSteps == {"DataCollectorEngine", "MarketDataIngestionEngine", "SubmitOrder"} \cup ClaimedSteps

CapInv ==
    /\ day >= 1
    /\ \A r \in DOMAIN orders : orders[r].day <= day
    /\ \A i \in DOMAIN broker : broker[i].day <= day
    /\ \A d \in 1..day : Cardinality(SentOn(d)) <= Cardinality(RowsOn(d)) + LateOrders(d)
    /\ DailyTradeCap
    /\ pc \in LimitedSteps => TradesToday < MaxTradesPerDay
    /\ pc = "SendOrder" =>
         \/ /\ TradesToday <= MaxTradesPerDay
            /\ Cardinality(SentOn(day)) < TradesToday + LateOrders(day)
         \/ day > 1 /\ SentOn(day) = {}

IInv ==
    /\ TypeOK /\ ContextInv /\ ClaimInv /\ LeakInv /\ TrailInv
    /\ AtMostOneOrderPerCandle /\ KillSwitchLeaksAtMostOne /\ BrokerOrdersExplained

=============================================================================
