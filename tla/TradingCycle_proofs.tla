------------------------ MODULE TradingCycle_proofs ------------------------
(***************************************************************************)
(* Proofs about TradingCycle, for every value of its constants: IInv is an *)
(* inductive invariant, and with it the safety properties of the module    *)
(* and the refinement of CandleOrders hold; and about Exposure, which lets *)
(* it take turns with PositionSync: either cycle keeps to its own module,  *)
(* and orders respect the limits on open positions.                        *)
(***************************************************************************)
EXTENDS Exposure, SequenceTheorems, FiniteSetTheorems, TLAPS

\* What is proved of PositionSync alone.
Alone == INSTANCE PositionSync_proofs

-----------------------------------------------------------------------------
\* The tables that grow

\* Every row of execution_orders and every order at the broker is well formed.
LEMMA RowTypes ==
    ASSUME TypeOK
    PROVE  /\ \A r \in DOMAIN orders : orders[r] \in OrderRow
           /\ \A i \in DOMAIN broker : broker[i] \in BrokerOrder
  <1>1. orders \in Seq(OrderRow) /\ broker \in Seq(BrokerOrder)
    BY DEF TypeOK
  <1>2. DOMAIN orders = 1 .. Len(orders) /\ DOMAIN broker = 1 .. Len(broker)
    BY <1>1, LenProperties
  <1> QED BY <1>1, <1>2, ElementOfSeq

\* A row added to execution_orders leaves the rows before it as they are.
LEMMA AddOrderExtends ==
    ASSUME TypeOK, NEW status \in OrderStatus, AddOrder(status)
    PROVE  /\ orders' \in Seq(OrderRow)
           /\ DOMAIN orders' = DOMAIN orders \cup {Len(orders) + 1}
           /\ \A r \in DOMAIN orders : orders'[r] = orders[r]
           /\ orders'[Len(orders) + 1] =
                [candle |-> ctx.candle, day |-> day, status |-> status]
  <1> DEFINE row == [candle |-> ctx.candle, day |-> day, status |-> status]
  <1>1. orders \in Seq(OrderRow)
    BY DEF TypeOK
  <1>2. row \in OrderRow
    BY DEF TypeOK, Context, OrderRow
  <1>3. orders' = Append(orders, row)
    BY DEF AddOrder
  <1>4. /\ orders' \in Seq(OrderRow)
        /\ Len(orders') = Len(orders) + 1
        /\ \A r \in 1 .. Len(orders) : orders'[r] = orders[r]
        /\ orders'[Len(orders) + 1] = row
    <2> HIDE DEF row
    <2> QED BY <1>1, <1>2, <1>3, AppendProperties
  <1>5. DOMAIN orders = 1 .. Len(orders) /\ DOMAIN orders' = 1 .. Len(orders')
        /\ Len(orders) \in Nat
    BY <1>1, <1>4, LenProperties
  <1>6. DOMAIN orders' = DOMAIN orders \cup {Len(orders) + 1}
    BY <1>4, <1>5
  <1> QED BY <1>4, <1>5, <1>6

\* The answer of the broker changes the status of one row and nothing else.
LEMMA RecordUpdates ==
    ASSUME TypeOK, ctx.row \in DOMAIN orders, ctx.result \in OrderStatus,
           orders' = [orders EXCEPT ![ctx.row].status = ctx.result]
    PROVE  /\ orders' \in Seq(OrderRow)
           /\ DOMAIN orders' = DOMAIN orders
           /\ \A q \in DOMAIN orders :
                /\ orders'[q].candle = orders[q].candle
                /\ orders'[q].day = orders[q].day
                /\ orders'[q].status = IF q = ctx.row THEN ctx.result ELSE orders[q].status
  <1> DEFINE row == [orders[ctx.row] EXCEPT !.status = ctx.result]
  <1>1. orders \in Seq(OrderRow) /\ DOMAIN orders = 1 .. Len(orders)
    BY LenProperties DEF TypeOK
  <1>2. \A q \in DOMAIN orders : orders[q] \in OrderRow
    BY <1>1, ElementOfSeq
  <1>3. /\ row \in OrderRow
        /\ row.candle = orders[ctx.row].candle
        /\ row.day = orders[ctx.row].day
        /\ row.status = ctx.result
    BY <1>2 DEF OrderRow
  <1>4. orders' = [orders EXCEPT ![ctx.row] = row]
    OBVIOUS
  <1>5. orders' \in Seq(OrderRow) /\ DOMAIN orders' = DOMAIN orders
    <2> HIDE DEF row
    <2> QED BY <1>1, <1>3, <1>4, ExceptSeq
  <1>6. \A q \in DOMAIN orders : orders'[q] = IF q = ctx.row THEN row ELSE orders[q]
    BY <1>4
  <1> QED BY <1>3, <1>5, <1>6

-----------------------------------------------------------------------------
\* What many steps have in common

\* While neither the tables nor the broker's orders change, what relates them
\* is kept.
LEMMA TablesKept ==
    ASSUME AtMostOneOrderPerCandle, BrokerOrdersExplained,
           UNCHANGED <<broker, decisions, orders>>
    PROVE  AtMostOneOrderPerCandle' /\ BrokerOrdersExplained'
  BY DEF AtMostOneOrderPerCandle, BrokerOrdersExplained

\* When the cycle ends, nothing is left to say about its context.
LEMMA CycleEnds ==
    ASSUME EndCycle
    PROVE  ContextInv' /\ LeakInv' /\ TrailInv'
  BY DEF EndCycle, ContextInv, LeakInv, TrailInv, ClaimedSteps, TrySteps, ApprovedSteps, ArmedSteps

\* A cycle that ends without writing or sending anything keeps the invariant.
LEMMA QuietEnd ==
    ASSUME IInv, EndCycle, session' \in {"clean", "poisoned"}, switches' \in Nat,
           leaked' \in {0, leaked},
           UNCHANGED <<envVars, broker, dbVars, settings, lastCandle>>
    PROVE  IInv'
  <1>1. TypeOK'
    BY DEF IInv, TypeOK, EndCycle, NoContext, Context, Positions, envVars, dbVars
  <1>2. ContextInv' /\ LeakInv' /\ TrailInv'
    BY CycleEnds
  <1>3. ClaimInv'
    BY DEF IInv, ClaimInv, EndCycle, ClaimedSteps, ArmedSteps, envVars, dbVars
  <1>4. KillSwitchLeaksAtMostOne'
    BY DEF IInv, TypeOK, KillSwitchLeaksAtMostOne
  <1>5. AtMostOneOrderPerCandle' /\ BrokerOrdersExplained'
    BY TablesKept DEF IInv, dbVars
  <1> QED BY <1>1, <1>2, <1>3, <1>4, <1>5 DEF IInv

\* Rows are added to execution_orders without harm: an explanation found in the
\* table stays there.
LEMMA RowAdded ==
    ASSUME TypeOK, BrokerOrdersExplained, NEW status \in OrderStatus,
           AddOrder(status), status # "FILLED", UNCHANGED <<broker, decisions>>
    PROVE  BrokerOrdersExplained'
  <1>1. /\ DOMAIN orders' = DOMAIN orders \cup {Len(orders) + 1}
        /\ \A r \in DOMAIN orders : orders'[r] = orders[r]
        /\ orders'[Len(orders) + 1] =
             [candle |-> ctx.candle, day |-> day, status |-> status]
    BY AddOrderExtends
  <1> QED BY <1>1 DEF BrokerOrdersExplained

-----------------------------------------------------------------------------
\* The invariant is inductive

\* A database without rows and a worker that is down satisfy the invariant.
LEMMA InitInv == Init => IInv
  <1> SUFFICES ASSUME Init PROVE IInv
    OBVIOUS
  <1>1. TypeOK
    BY SettingsAssumption, EmptySeq
       DEF Init, TypeOK, NoContext, Context, Positions
  <1>2. DOMAIN broker = {} /\ DOMAIN orders = {}
    BY DEF Init
  <1>3. ContextInv /\ ClaimInv /\ LeakInv /\ TrailInv
    BY <1>2 DEF Init, ContextInv, ClaimInv, LeakInv, TrailInv, NoContext,
                ClaimedSteps, TrySteps, ApprovedSteps, ArmedSteps
  <1>4. AtMostOneOrderPerCandle /\ KillSwitchLeaksAtMostOne /\ BrokerOrdersExplained
    BY <1>2 DEF Init, AtMostOneOrderPerCandle, KillSwitchLeaksAtMostOne, BrokerOrdersExplained
  <1> QED BY <1>1, <1>3, <1>4 DEF IInv

\* Steps of the market, the API, the clock and the operator.
LEMMA WorldStep == IInv /\ Environment => IInv'
  <1> SUFFICES ASSUME IInv, Environment PROVE IInv'
    OBVIOUS
  <1> USE DEF IInv
  <1>1. AtMostOneOrderPerCandle' /\ BrokerOrdersExplained'
    BY TablesKept DEF Environment, ActivateKillSwitch, DeactivateKillSwitch, NewBar, Midnight,
                      SwitchAccount, dbVars
  <1>2. CASE ActivateKillSwitch
    <2>1. TypeOK' /\ ContextInv' /\ ClaimInv' /\ TrailInv'
      BY <1>2 DEF ActivateKillSwitch, InsertSwitch, TypeOK, ContextInv, ClaimInv, TrailInv,
                  envVars, dbVars
    <2>2. LeakInv' /\ KillSwitchLeaksAtMostOne'
      BY <1>2 DEF ActivateKillSwitch, InsertSwitch, TypeOK, LeakInv, KillSwitchLeaksAtMostOne
    <2> QED BY <1>1, <2>1, <2>2
  <1>3. CASE DeactivateKillSwitch
    <2>1. TypeOK' /\ ContextInv' /\ ClaimInv' /\ TrailInv'
      BY <1>3 DEF DeactivateKillSwitch, KillSwitchActive, TypeOK, ContextInv, ClaimInv, TrailInv,
                  envVars, dbVars
    <2>2. LeakInv' /\ KillSwitchLeaksAtMostOne'
      BY <1>3 DEF DeactivateKillSwitch, KillSwitchActive, TypeOK, LeakInv, KillSwitchLeaksAtMostOne
    <2> QED BY <1>1, <2>1, <2>2
  <1>4. CASE NewBar
    <2>1. TypeOK' /\ ContextInv' /\ LeakInv' /\ TrailInv' /\ KillSwitchLeaksAtMostOne'
      BY <1>4 DEF NewBar, TypeOK, ContextInv, LeakInv, TrailInv, KillSwitchLeaksAtMostOne, dbVars
    <2>2. ctx.candle \in Nat
      BY DEF TypeOK, Context
    <2>3. ClaimInv'
      BY <1>4, <2>2 DEF NewBar, TypeOK, ClaimInv, dbVars
    <2> QED BY <1>1, <2>1, <2>3
  <1>5. CASE Midnight
    <2>1. TypeOK' /\ ContextInv' /\ ClaimInv' /\ LeakInv' /\ KillSwitchLeaksAtMostOne'
      BY <1>5 DEF Midnight, TypeOK, ContextInv, ClaimInv, LeakInv, KillSwitchLeaksAtMostOne, dbVars
    <2>2. TrailInv'
      <3>1. \A r \in DOMAIN orders : orders[r].day \in Nat
        BY RowTypes DEF OrderRow
      <3> QED BY <1>5, <3>1 DEF Midnight, TypeOK, TrailInv, dbVars
    <2> QED BY <1>1, <2>1, <2>2
  <1>6. CASE SwitchAccount
    BY <1>1, <1>6 DEF SwitchAccount, TypeOK, ContextInv, ClaimInv, LeakInv, TrailInv,
                      KillSwitchLeaksAtMostOne, dbVars
  <1> QED BY <1>2, <1>3, <1>4, <1>5, <1>6 DEF Environment

\* Steps of the process: it starts, dies, takes up a bar, or fails.
LEMMA ProcessStep ==
    ASSUME IInv, Start \/ Crash \/ PollNewCandle \/ StepRaises \/ SessionPoisoned \/ ExecutionRaises
    PROVE  IInv'
  <1> USE DEF IInv
  <1>1. AtMostOneOrderPerCandle' /\ BrokerOrdersExplained'
    BY TablesKept DEF Start, Crash, PollNewCandle, StepRaises, SessionPoisoned, ExecutionRaises,
                      dbVars
  <1>2. CASE Start
    BY <1>1, <1>2, SettingsAssumption
       DEF Start, TypeOK, ContextInv, ClaimInv, LeakInv, TrailInv, KillSwitchLeaksAtMostOne,
           Positions, ClaimedSteps, TrySteps, ApprovedSteps, ArmedSteps, envVars, dbVars
  <1>3. CASE Crash
    BY <1>1, <1>3
       DEF Crash, TypeOK, ContextInv, ClaimInv, LeakInv, TrailInv, KillSwitchLeaksAtMostOne,
           NoContext, Context, Positions, ClaimedSteps, TrySteps, ApprovedSteps, ArmedSteps,
           envVars, dbVars
  <1>4. CASE PollNewCandle
    BY <1>1, <1>4
       DEF PollNewCandle, TypeOK, ContextInv, ClaimInv, LeakInv, TrailInv,
           KillSwitchLeaksAtMostOne, NoContext, Context, Positions, Steps, ClaimedSteps,
           TrySteps, ApprovedSteps, ArmedSteps, envVars, dbVars
  <1>5. CASE StepRaises
    BY <1>5, QuietEnd DEF StepRaises, TypeOK
  <1>6. CASE SessionPoisoned
    BY <1>1, <1>6
       DEF SessionPoisoned, TypeOK, ContextInv, ClaimInv, LeakInv, TrailInv,
           KillSwitchLeaksAtMostOne, envVars, dbVars
  <1>7. CASE ExecutionRaises
    BY <1>1, <1>7
       DEF ExecutionRaises, TypeOK, ContextInv, ClaimInv, LeakInv, TrailInv,
           KillSwitchLeaksAtMostOne, Positions, Steps, ClaimedSteps, TrySteps, ApprovedSteps,
           ArmedSteps, envVars, dbVars
  <1> QED BY <1>2, <1>3, <1>4, <1>5, <1>6, <1>7

\* Steps from KillSwitchMonitor to the filters.
LEMMA FilterStep ==
    ASSUME IInv,
           \/ CheckKillSwitch \/ ViolatedLimit \/ LimitsRespected
           \/ CollectData \/ IngestCandle \/ IngestRaises \/ IngestNothing
           \/ GuardDataQuality \/ RunFilters
    PROVE  IInv'
  <1> USE DEF IInv
  <1>1. AtMostOneOrderPerCandle' /\ BrokerOrdersExplained'
    BY TablesKept DEF CheckKillSwitch, ViolatedLimit, LimitsRespected, CollectData, IngestCandle,
                      IngestRaises, IngestNothing, GuardDataQuality, RunFilters, Judge, dbVars
  <1>2. CASE CheckKillSwitch
    <2>1. CASE EndCycle
      BY <1>2, <2>1, QuietEnd DEF CheckKillSwitch, TypeOK
    <2>2. CASE pc' = "SafetyLimits" /\ UNCHANGED ctx
      BY <1>1, <1>2, <2>2
         DEF CheckKillSwitch, TypeOK, ContextInv, ClaimInv, LeakInv, TrailInv,
             KillSwitchLeaksAtMostOne, Positions, Steps, ClaimedSteps, TrySteps, ApprovedSteps,
             ArmedSteps, envVars, dbVars
    <2> QED BY <1>2, <2>1, <2>2 DEF CheckKillSwitch
  <1>3. CASE ViolatedLimit
    BY <1>3, QuietEnd DEF ViolatedLimit, InsertSwitch, TypeOK, KillSwitchLeaksAtMostOne
  <1>4. CASE LimitsRespected
    BY <1>1, <1>4
       DEF LimitsRespected, TypeOK, ContextInv, ClaimInv, LeakInv, TrailInv,
           KillSwitchLeaksAtMostOne, Positions, Steps, ClaimedSteps, TrySteps, ApprovedSteps,
           ArmedSteps, envVars, dbVars
  <1>5. CASE CollectData
    <2>1. PICK history, account \in BOOLEAN :
            ctx' = [ctx EXCEPT !.history = history,
                               !.candle = IF history THEN head ELSE ctx.candle,
                               !.demo = account /\ accountDemo]
      BY <1>5 DEF CollectData
    <2>2. /\ ctx' \in Context
          /\ ctx'.history = history
          /\ ctx'.history => ctx'.candle = head
      BY <2>1 DEF TypeOK, Context
    <2>3. TypeOK'
      BY <1>5, <2>2 DEF CollectData, TypeOK, Positions, Steps, envVars, dbVars
    <2>4. ContextInv' /\ LeakInv' /\ TrailInv' /\ KillSwitchLeaksAtMostOne'
      BY <1>5 DEF CollectData, ContextInv, LeakInv, TrailInv, KillSwitchLeaksAtMostOne,
                  ClaimedSteps, TrySteps, ApprovedSteps, ArmedSteps
    <2>5. /\ pc' = "MarketDataIngestionEngine"
          /\ UNCHANGED <<head, dbCandle, broker>>
          /\ head \in Nat /\ dbCandle <= head
      BY <1>5 DEF CollectData, TypeOK, ClaimInv, envVars, dbVars
    <2>6. ClaimInv'
      BY <2>2, <2>5 DEF ClaimInv, ClaimedSteps, ArmedSteps
    <2> QED BY <1>1, <2>3, <2>4, <2>6
  <1>6. CASE IngestCandle
    <2>1. /\ ctx.candle \in Nat /\ dbCandle \in Nat /\ head \in Nat
          /\ dbCandle <= ctx.candle /\ ctx.candle <= head
          /\ dbCandle' = ctx.candle
      BY <1>6 DEF IngestCandle, At, SaveCandle, TypeOK, Context, ClaimInv
    <2>2. /\ ctx' \in Context
          /\ ctx'.candle = ctx.candle /\ ctx'.history
          /\ ctx'.duplicate <=> ctx.candle = dbCandle
      BY <1>6 DEF IngestCandle, IsDuplicate, TypeOK, Context
    <2>3. TypeOK'
      BY <1>6, <2>1, <2>2 DEF IngestCandle, TypeOK, Positions, Steps, ClaimedSteps, envVars
    <2>4. ContextInv' /\ LeakInv' /\ TrailInv' /\ KillSwitchLeaksAtMostOne'
      BY <1>6 DEF IngestCandle, ContextInv, LeakInv, TrailInv, KillSwitchLeaksAtMostOne,
                  ClaimedSteps, TrySteps, ApprovedSteps, ArmedSteps
    <2>5. \A i \in DOMAIN broker : broker[i].candle \in Nat /\ broker[i].candle <= dbCandle
      BY RowTypes DEF BrokerOrder, ClaimInv
    <2>6. ClaimInv'
      BY <1>6, <2>1, <2>2, <2>5 DEF IngestCandle, ClaimInv, envVars
    <2> QED BY <1>1, <2>3, <2>4, <2>6
  <1>7. CASE IngestRaises
    <2>1. /\ ctx.candle \in Nat /\ dbCandle \in Nat /\ head \in Nat
          /\ dbCandle <= ctx.candle /\ ctx.candle <= head
          /\ dbCandle' = ctx.candle
      BY <1>7 DEF IngestRaises, At, SaveCandle, TypeOK, Context, ClaimInv
    <2>2. TypeOK'
      BY <1>7, <2>1 DEF IngestRaises, EndCycle, NoContext, Context, TypeOK, Positions, envVars
    <2>3. ContextInv' /\ LeakInv' /\ TrailInv' /\ KillSwitchLeaksAtMostOne'
      BY <1>7, CycleEnds DEF IngestRaises, KillSwitchLeaksAtMostOne
    <2>4. \A i \in DOMAIN broker : broker[i].candle \in Nat /\ broker[i].candle <= dbCandle
      BY RowTypes DEF BrokerOrder, ClaimInv
    <2>5. ClaimInv'
      BY <1>7, <2>1, <2>4 DEF IngestRaises, EndCycle, ClaimInv, ClaimedSteps, ArmedSteps, envVars
    <2> QED BY <1>1, <2>2, <2>3, <2>5
  <1>8. CASE IngestNothing
    BY <1>1, <1>8
       DEF IngestNothing, TypeOK, ContextInv, ClaimInv, LeakInv, TrailInv,
           KillSwitchLeaksAtMostOne, Positions, Steps, ClaimedSteps, TrySteps, ApprovedSteps,
           ArmedSteps, envVars, dbVars
  <1>9. CASE GuardDataQuality
    <2>1. CASE EndCycle
      BY <1>9, <2>1, QuietEnd DEF GuardDataQuality, Judge, TypeOK
    <2>2. CASE ~ctx.duplicate /\ pc' = "Filters" /\ UNCHANGED ctx
      BY <1>1, <1>9, <2>2
         DEF GuardDataQuality, Judge, At, TypeOK, ContextInv, ClaimInv, LeakInv, TrailInv,
             KillSwitchLeaksAtMostOne, Positions, Steps, ClaimedSteps, TrySteps, ApprovedSteps,
             ArmedSteps, envVars, dbVars
    <2> QED BY <1>9, <2>1, <2>2 DEF GuardDataQuality, Judge, QualityAllows
  <1>10. CASE RunFilters
    <2>1. CASE EndCycle
      BY <1>10, <2>1, QuietEnd DEF RunFilters, Judge, TypeOK
    <2>2. CASE ctx.history /\ pc' = "ExecutionGate" /\ UNCHANGED ctx
      BY <1>1, <1>10, <2>2
         DEF RunFilters, Judge, At, TypeOK, ContextInv, ClaimInv, LeakInv, TrailInv,
             KillSwitchLeaksAtMostOne, Positions, Steps, ClaimedSteps, TrySteps, ApprovedSteps,
             ArmedSteps, envVars, dbVars
    <2> QED BY <1>10, <2>1, <2>2 DEF RunFilters, Judge, FiltersAllow
  <1> QED BY <1>2, <1>3, <1>4, <1>5, <1>6, <1>7, <1>8, <1>9, <1>10

\* A cycle that ends with a new order row keeps the invariant.
LEMMA RowAddedAtEnd ==
    ASSUME IInv, EndCycle, session' \in {"clean", "poisoned"},
           NEW status \in OrderStatus, AddOrder(status), status # "FILLED",
           UNCHANGED <<envVars, broker, switches, dbCandle, decisions, approvals, settings,
                       lastCandle, leaked>>
    PROVE  IInv'
  <1> USE DEF IInv
  <1>1. orders' \in Seq(OrderRow)
    BY AddOrderExtends
  <1>2. TypeOK'
    BY <1>1 DEF EndCycle, NoContext, Context, TypeOK, Positions, envVars
  <1>3. ContextInv' /\ LeakInv' /\ TrailInv'
    BY CycleEnds
  <1>4. ClaimInv' /\ KillSwitchLeaksAtMostOne' /\ AtMostOneOrderPerCandle'
    BY DEF EndCycle, ClaimInv, KillSwitchLeaksAtMostOne, AtMostOneOrderPerCandle, ClaimedSteps,
           ArmedSteps, envVars
  <1>5. BrokerOrdersExplained'
    BY RowAdded
  <1> QED BY <1>2, <1>3, <1>4, <1>5

\* ExecutionGate and ApprovalEngine.
LEMMA DecisionStep ==
    ASSUME IInv, RunExecutionGate \/ RunApprovalEngine
    PROVE  IInv'
  <1> USE DEF IInv
  <1>1. CASE RunExecutionGate
    <2>1. PICK checksPassed \in BOOLEAN :
            LET d == GateDecision(checksPassed) IN
            /\ AddDecision(d)
            /\ \/ d \in {"REJECT", "KILL_SWITCH"} /\ EndCycle
               \/ /\ d \notin {"REJECT", "KILL_SWITCH"}
                  /\ ctx' = [ctx EXCEPT !.decision = d]
                  /\ pc' = "ApprovalEngine"
      BY <1>1 DEF RunExecutionGate
    <2> DEFINE d == GateDecision(checksPassed)
               record == [candle |-> ctx.candle, decision |-> d]
    <2>2. d \in Decisions /\ ctx.candle \in Nat
      BY DEF GateDecision, Decisions, TypeOK, Context
    <2>3. decisions' = decisions \cup {record}
      BY <2>1 DEF AddDecision
    <2>4. decisions' \subseteq [candle : Nat, decision : Decisions]
      BY <2>2, <2>3 DEF TypeOK
    <2>5. AtMostOneOrderPerCandle' /\ BrokerOrdersExplained' /\ KillSwitchLeaksAtMostOne'
      BY <1>1, <2>3 DEF RunExecutionGate, AtMostOneOrderPerCandle, BrokerOrdersExplained,
                        KillSwitchLeaksAtMostOne
    <2>6. CASE EndCycle
      <3>1. TypeOK'
        BY <1>1, <2>4, <2>6 DEF RunExecutionGate, EndCycle, NoContext, Context, TypeOK, Positions,
                                envVars
      <3>2. ContextInv' /\ LeakInv' /\ TrailInv'
        BY <2>6, CycleEnds
      <3>3. ClaimInv'
        BY <1>1, <2>6 DEF RunExecutionGate, EndCycle, ClaimInv, ClaimedSteps, ArmedSteps, envVars
      <3> QED BY <2>5, <3>1, <3>2, <3>3
    <2>7. CASE ctx' = [ctx EXCEPT !.decision = d] /\ pc' = "ApprovalEngine"
      <3> HIDE DEF d
      <3>1. /\ ctx' \in Context
            /\ ctx'.candle = ctx.candle /\ ctx'.decision = d
            /\ ctx'.history = ctx.history /\ ctx'.duplicate = ctx.duplicate
        BY <2>2, <2>7 DEF TypeOK, Context
      <3>2. TypeOK'
        BY <1>1, <2>4, <2>7, <3>1 DEF RunExecutionGate, TypeOK, Positions, Steps, ClaimedSteps,
                                      envVars
      <3>3. ContextInv' /\ LeakInv'
        BY <1>1, <2>7, <3>1 DEF RunExecutionGate, At, ContextInv, LeakInv, ClaimedSteps, TrySteps,
                                ArmedSteps
      <3>4. ClaimInv'
        BY <1>1, <2>7, <3>1 DEF RunExecutionGate, At, ClaimInv, ClaimedSteps, ArmedSteps, envVars
      <3>5. TrailInv'
        BY <2>3, <2>7, <3>1 DEF TrailInv, ApprovedSteps, TrySteps
      <3> QED BY <2>5, <3>2, <3>3, <3>4, <3>5
    <2> QED BY <2>1, <2>6, <2>7
  <1>2. CASE RunApprovalEngine
    <2>1. AtMostOneOrderPerCandle' /\ BrokerOrdersExplained' /\ KillSwitchLeaksAtMostOne'
      BY <1>2, TablesKept DEF RunApprovalEngine, KillSwitchLeaksAtMostOne
    <2>2. CASE EndCycle /\ approvals' = approvals \cup {ctx.candle}
      <3>1. TypeOK'
        BY <1>2, <2>2 DEF RunApprovalEngine, EndCycle, NoContext, Context, TypeOK, Positions,
                          envVars
      <3>2. ContextInv' /\ LeakInv' /\ TrailInv'
        BY <2>2, CycleEnds
      <3>3. ClaimInv'
        BY <1>2, <2>2 DEF RunApprovalEngine, EndCycle, ClaimInv, ClaimedSteps, ArmedSteps, envVars
      <3> QED BY <2>1, <3>1, <3>2, <3>3
    <2>3. CASE pc' = "ExecutionEngine" /\ UNCHANGED <<approvals, ctx>>
      BY <1>2, <2>1, <2>3
         DEF RunApprovalEngine, At, TypeOK, ContextInv, ClaimInv, LeakInv, TrailInv, Positions,
             Steps, ClaimedSteps, TrySteps, ApprovedSteps, ArmedSteps, envVars
    <2> QED BY <1>2, <2>2, <2>3 DEF RunApprovalEngine
  <1> QED BY <1>1, <1>2

\* ExecutionEngine before its try block, and the broker's order_check.
LEMMA PreparationStep ==
    ASSUME IInv, RefuseExecution \/ BeginExecution \/ SubmitOrder \/ OrderCheckFailed
    PROVE  IInv'
  <1> USE DEF IInv
  <1>1. CASE RefuseExecution
    <2>1. CASE UNCHANGED orders
      BY <1>1, <2>1, QuietEnd DEF RefuseExecution, TypeOK, dbVars
    <2>2. ASSUME NEW status \in RefusalStatus, AddOrder(status)
          PROVE  IInv'
      BY <1>1, <2>2, RowAddedAtEnd DEF RefuseExecution, RefusalStatus, TypeOK, OrderStatus
    <2> QED BY <1>1, <2>1, <2>2 DEF RefuseExecution
  <1>2. CASE BeginExecution
    <2>1. AtMostOneOrderPerCandle' /\ BrokerOrdersExplained' /\ KillSwitchLeaksAtMostOne'
      BY <1>2, TablesKept DEF BeginExecution, KillSwitchLeaksAtMostOne, dbVars
    <2>2. TypeOK' /\ ClaimInv' /\ TrailInv'
      BY <1>2 DEF BeginExecution, At, TypeOK, ClaimInv, TrailInv, Positions, Steps, ClaimedSteps,
                  TrySteps, ApprovedSteps, ArmedSteps, envVars, dbVars
    <2>3. ContextInv' /\ LeakInv'
      BY <1>2 DEF BeginExecution, At, MayExecute, KillSwitchActive, ContextInv, LeakInv,
                  ClaimedSteps, TrySteps, ArmedSteps
    <2> QED BY <2>1, <2>2, <2>3
  <1>3. CASE SubmitOrder
    <2>1. AddOrder("SUBMITTED") /\ UNCHANGED <<broker, decisions, leaked>>
      BY <1>3 DEF SubmitOrder
    <2>2. /\ orders' \in Seq(OrderRow)
          /\ Len(orders) + 1 \in DOMAIN orders'
          /\ orders'[Len(orders) + 1] =
               [candle |-> ctx.candle, day |-> day, status |-> "SUBMITTED"]
      BY <2>1, AddOrderExtends DEF OrderStatus
    <2>3. Len(orders) \in Nat
      BY LenProperties DEF TypeOK
    <2>4. /\ ctx' \in Context
          /\ ctx'.candle = ctx.candle /\ ctx'.decision = ctx.decision
          /\ ctx'.history = ctx.history /\ ctx'.duplicate = ctx.duplicate
          /\ ctx'.row = Len(orders) + 1
      BY <1>3, <2>3 DEF SubmitOrder, TypeOK, Context
    <2>5. AtMostOneOrderPerCandle' /\ BrokerOrdersExplained' /\ KillSwitchLeaksAtMostOne'
      BY <2>1, RowAdded DEF OrderStatus, AtMostOneOrderPerCandle, KillSwitchLeaksAtMostOne
    <2>6. TypeOK'
      BY <1>3, <2>2, <2>4 DEF SubmitOrder, TypeOK, Positions, TrySteps, envVars
    <2>7. ContextInv' /\ ClaimInv' /\ LeakInv'
      BY <1>3, <2>4 DEF SubmitOrder, ContextInv, ClaimInv, LeakInv, ClaimedSteps, TrySteps,
                        ArmedSteps, envVars
    <2>8. TrailInv'
      <3>1. [candle |-> ctx'.candle, decision |-> ctx'.decision] \in decisions'
        BY <1>3, <2>1, <2>4 DEF SubmitOrder, TrailInv, ApprovedSteps, TrySteps
      <3>2. pc' \in {"SendOrder", "ExecutionError"} /\ day' = day /\ day \in Nat
        BY <1>3 DEF SubmitOrder, TypeOK, envVars
      <3> QED BY <2>2, <2>4, <3>1, <3>2 DEF TrailInv
    <2> QED BY <2>5, <2>6, <2>7, <2>8
  <1>4. CASE OrderCheckFailed
    <2>1. AddOrder("REJECTED")
      BY <1>4 DEF OrderCheckFailed
    <2>2. CASE EndCycle
      BY <1>4, <2>1, <2>2, RowAddedAtEnd DEF OrderCheckFailed, TypeOK, OrderStatus
    <2>3. CASE pc' = "ExecutionError" /\ UNCHANGED ctx
      <3>1. orders' \in Seq(OrderRow)
        BY <2>1, AddOrderExtends DEF OrderStatus
      <3>2. BrokerOrdersExplained'
        BY <1>4, <2>1, RowAdded DEF OrderCheckFailed, OrderStatus
      <3> QED
        BY <1>4, <2>3, <3>1, <3>2
           DEF OrderCheckFailed, TypeOK, ContextInv, ClaimInv, LeakInv, TrailInv,
               AtMostOneOrderPerCandle, KillSwitchLeaksAtMostOne, Positions, Steps, ClaimedSteps,
               TrySteps, ApprovedSteps, ArmedSteps, envVars
    <2> QED BY <1>4, <2>2, <2>3 DEF OrderCheckFailed
  <1> QED BY <1>1, <1>2, <1>3, <1>4

\* MT5OrderExecutor gives up, or order_send goes out.
LEMMA SendStep ==
    ASSUME IInv, SendRefused \/ SendOrder
    PROVE  IInv'
  <1> USE DEF IInv
  <1>1. CASE SendRefused
    <2>1. PICK result \in {"DRY_RUN", "REJECTED", "ERROR"} :
            /\ result = "DRY_RUN" => settings.dryRun
            /\ ctx' = [ctx EXCEPT !.result = result]
      BY <1>1 DEF SendRefused
    <2>2. /\ ctx' \in Context
          /\ ctx'.candle = ctx.candle /\ ctx'.decision = ctx.decision
          /\ ctx'.row = ctx.row /\ ctx'.result = result
      BY <2>1 DEF TypeOK, Context, OrderStatus
    <2>3. pc = "SendOrder" /\ pc' = "RecordResult"
      BY <1>1 DEF SendRefused
    <2>4. result \in {"REJECTED", "ERROR"}
      BY <2>1, <2>3 DEF ContextInv, TrySteps
    <2>5. AtMostOneOrderPerCandle' /\ BrokerOrdersExplained' /\ KillSwitchLeaksAtMostOne'
      BY <1>1, TablesKept DEF SendRefused, KillSwitchLeaksAtMostOne, dbVars
    <2>6. TypeOK'
      BY <1>1, <2>2 DEF SendRefused, TypeOK, Positions, TrySteps, envVars, dbVars
    <2>7. ContextInv' /\ ClaimInv' /\ LeakInv'
      BY <1>1, <2>2, <2>3, <2>4 DEF SendRefused, ContextInv, ClaimInv, LeakInv, ClaimedSteps,
                                    TrySteps, ArmedSteps, envVars, dbVars
    <2>8. TrailInv'
      BY <1>1, <2>2, <2>3, <2>4 DEF SendRefused, TrailInv, ApprovedSteps, TrySteps, envVars, dbVars
    <2> QED BY <2>5, <2>6, <2>7, <2>8
  <1>2. CASE SendOrder
    <2>1. PICK reply \in Replies, filled \in BOOLEAN :
            /\ reply \in {"DONE", "PLACED", "DONE_PARTIAL"} => filled
            /\ reply = "REJECT" => ~filled
            /\ broker' = Append(broker, [candle |-> ctx.candle, day |-> day,
                                         demo |-> accountDemo, filled |-> filled])
            /\ \/ /\ reply = "RAISED"
                  /\ pc' = "ExecutionError"
                  /\ UNCHANGED ctx
               \/ /\ reply # "RAISED"
                  /\ ctx' = [ctx EXCEPT !.result = ResultOf(reply)]
                  /\ pc' = "RecordResult"
      BY <1>2 DEF SendOrder
    <2> DEFINE order == [candle |-> ctx.candle, day |-> day, demo |-> accountDemo,
                         filled |-> filled]
               new == Len(broker) + 1
    <2>2. order \in BrokerOrder
      BY DEF BrokerOrder, TypeOK, Context
    <2>3. /\ order.candle = ctx.candle /\ order.day = day
          /\ filled => order.filled
      OBVIOUS
    <2>4. /\ broker' \in Seq(BrokerOrder)
          /\ DOMAIN broker' = DOMAIN broker \cup {new}
          /\ \A i \in DOMAIN broker : broker'[i] = broker[i]
          /\ broker'[new] = order
      <3> HIDE DEF order
      <3>1. broker' = Append(broker, order) /\ broker \in Seq(BrokerOrder)
        BY <2>1 DEF TypeOK, order
      <3>2. /\ broker' \in Seq(BrokerOrder)
            /\ Len(broker') = Len(broker) + 1
            /\ \A i \in 1 .. Len(broker) : broker'[i] = broker[i]
            /\ broker'[new] = order
        BY <2>2, <3>1, AppendProperties
      <3>3. DOMAIN broker = 1 .. Len(broker) /\ DOMAIN broker' = 1 .. Len(broker')
            /\ Len(broker) \in Nat
        BY <3>1, <3>2, LenProperties
      <3> QED BY <3>2, <3>3
    <2> HIDE DEF order, new
    <2>5. ctx.candle = dbCandle /\ \A i \in DOMAIN broker : broker[i].candle # dbCandle
      BY <1>2 DEF SendOrder, ContextInv, ClaimInv, ArmedSteps, ClaimedSteps
    <2>6. /\ ctx' \in Context
          /\ ctx'.candle = ctx.candle /\ ctx'.decision = ctx.decision
          /\ ctx'.row = ctx.row
          /\ pc' \in {"ExecutionError", "RecordResult"}
          /\ pc' = "RecordResult" =>
               ctx'.result \in {"FILLED", "REJECTED", "ERROR"} /\ (ctx'.result = "FILLED" => filled)
      BY <2>1 DEF ResultOf, Replies, TypeOK, Context, OrderStatus
    <2>7. AtMostOneOrderPerCandle'
      BY <2>3, <2>4, <2>5 DEF AtMostOneOrderPerCandle
    <2>8. BrokerOrdersExplained'
      <3>1. /\ [candle |-> ctx.candle, decision |-> "APPROVE_AUTO"] \in decisions
            /\ ctx.row \in DOMAIN orders
            /\ orders[ctx.row].candle = ctx.candle
            /\ orders[ctx.row].status # "DRY_RUN"
            /\ orders[ctx.row].day <= day
        BY <1>2 DEF SendOrder, TrailInv, ApprovedSteps, TrySteps
      <3>2. UNCHANGED <<orders, decisions>>
        BY <1>2 DEF SendOrder, dbVars
      <3>3. \A i \in DOMAIN broker' :
              /\ [candle |-> broker'[i].candle, decision |-> "APPROVE_AUTO"] \in decisions
              /\ \E r \in DOMAIN orders : /\ orders[r].candle = broker'[i].candle
                                         /\ orders[r].status # "DRY_RUN"
                                         /\ orders[r].day <= broker'[i].day
        BY <2>3, <2>4, <3>1 DEF BrokerOrdersExplained
      <3>4. \A r \in DOMAIN orders : orders[r].status = "FILLED" =>
              \E i \in DOMAIN broker' : broker'[i].candle = orders[r].candle /\ broker'[i].filled
        BY <2>4 DEF BrokerOrdersExplained
      <3> QED BY <3>2, <3>3, <3>4 DEF BrokerOrdersExplained
    <2>9. KillSwitchLeaksAtMostOne' /\ leaked' \in Nat
      BY <1>2 DEF SendOrder, LeakInv, KillSwitchLeaksAtMostOne, ArmedSteps, TypeOK
    <2>10. TypeOK'
      BY <1>2, <2>4, <2>6, <2>9 DEF SendOrder, TypeOK, Positions, TrySteps, envVars, dbVars
    <2>11. ContextInv' /\ LeakInv'
      BY <1>2, <2>6 DEF SendOrder, ContextInv, LeakInv, ClaimedSteps, TrySteps, ArmedSteps
    <2>12. ClaimInv'
      <3>1. \A i \in DOMAIN broker' : broker'[i].candle <= dbCandle
        BY <2>3, <2>4, <2>5 DEF ClaimInv, TypeOK
      <3> QED BY <1>2, <2>6, <3>1 DEF SendOrder, ClaimInv, ClaimedSteps, ArmedSteps, envVars, dbVars
    <2>13. TrailInv'
      <3>1. filled => \E i \in DOMAIN broker' : broker'[i].candle = ctx.candle /\ broker'[i].filled
        BY <2>3, <2>4
      <3> QED BY <1>2, <2>6, <3>1 DEF SendOrder, TrailInv, ApprovedSteps, TrySteps, envVars, dbVars
    <2> QED BY <2>7, <2>8, <2>9, <2>10, <2>11, <2>12, <2>13
  <1> QED BY <1>1, <1>2

\* The answer is recorded, or the except branch adds an ERROR row.
LEMMA ResultStep ==
    ASSUME IInv, RecordResult \/ HandleExecutionError
    PROVE  IInv'
  <1> USE DEF IInv
  <1>1. CASE RecordResult
    <2>1. /\ ctx.row \in DOMAIN orders
          /\ orders[ctx.row].candle = ctx.candle
          /\ ctx.result \in {"FILLED", "REJECTED", "ERROR"}
          /\ orders' = [orders EXCEPT ![ctx.row].status = ctx.result]
      BY <1>1 DEF RecordResult, ContextInv, TrailInv
    <2>2. /\ orders' \in Seq(OrderRow)
          /\ DOMAIN orders' = DOMAIN orders
          /\ \A q \in DOMAIN orders :
               /\ orders'[q].candle = orders[q].candle
               /\ orders'[q].day = orders[q].day
               /\ orders'[q].status = IF q = ctx.row THEN ctx.result ELSE orders[q].status
      BY <2>1, RecordUpdates DEF OrderStatus
    <2>3. ctx.result = "FILLED" =>
            \E i \in DOMAIN broker : broker[i].candle = ctx.candle /\ broker[i].filled
      BY <1>1 DEF RecordResult, TrailInv
    <2>4. UNCHANGED <<broker, decisions>>
      BY <1>1 DEF RecordResult
    <2>5. BrokerOrdersExplained'
      <3>1. \A i \in DOMAIN broker :
              /\ [candle |-> broker[i].candle, decision |-> "APPROVE_AUTO"] \in decisions
              /\ \E r \in DOMAIN orders' : /\ orders'[r].candle = broker[i].candle
                                          /\ orders'[r].status # "DRY_RUN"
                                          /\ orders'[r].day <= broker[i].day
        BY <2>1, <2>2 DEF BrokerOrdersExplained
      <3>2. \A r \in DOMAIN orders' : orders'[r].status = "FILLED" =>
              \E i \in DOMAIN broker : broker[i].candle = orders'[r].candle /\ broker[i].filled
        BY <2>1, <2>2, <2>3 DEF BrokerOrdersExplained
      <3> QED BY <2>4, <3>1, <3>2 DEF BrokerOrdersExplained
    <2>6. AtMostOneOrderPerCandle' /\ KillSwitchLeaksAtMostOne'
      BY <1>1 DEF RecordResult, AtMostOneOrderPerCandle, KillSwitchLeaksAtMostOne
    <2>7. TypeOK'
      <3>1. ctx' \in {ctx, NoContext} /\ pc' \in Positions
        BY <1>1 DEF RecordResult, EndCycle, Positions
      <3>2. NoContext \in Context
        BY DEF NoContext, Context
      <3> QED BY <1>1, <2>2, <3>1, <3>2 DEF RecordResult, TypeOK, envVars
    <2>8. pc' \in {"idle", "ExecutionError"} /\ (pc' = "idle" => ctx' = NoContext)
      BY <1>1 DEF RecordResult, EndCycle
    <2>9. ContextInv' /\ LeakInv' /\ TrailInv'
      BY <2>8 DEF ContextInv, LeakInv, TrailInv, ClaimedSteps, TrySteps, ApprovedSteps, ArmedSteps
    <2>10. ClaimInv'
      BY <1>1, <2>8 DEF RecordResult, ClaimInv, ClaimedSteps, ArmedSteps, envVars
    <2> QED BY <2>5, <2>6, <2>7, <2>9, <2>10
  <1>2. CASE HandleExecutionError
    <2>1. CASE UNCHANGED orders
      BY <1>2, <2>1, QuietEnd DEF HandleExecutionError, TypeOK, dbVars
    <2>2. CASE AddOrder("ERROR")
      BY <1>2, <2>2, RowAddedAtEnd DEF HandleExecutionError, OrderStatus
    <2> QED BY <1>2, <2>1, <2>2 DEF HandleExecutionError
  <1> QED BY <1>1, <1>2

\* Every step keeps the invariant.
LEMMA NextInv == IInv /\ [Next]_vars => IInv'
  <1> SUFFICES ASSUME IInv, [Next]_vars PROVE IInv'
    OBVIOUS
  <1>1. CASE UNCHANGED vars
    BY <1>1 DEF vars, IInv, TypeOK, ContextInv, ClaimInv, LeakInv, TrailInv,
                AtMostOneOrderPerCandle, KillSwitchLeaksAtMostOne, BrokerOrdersExplained
  <1>2. CASE Next
    BY <1>2, WorldStep, ProcessStep, FilterStep, DecisionStep, PreparationStep, SendStep,
       ResultStep DEF Next, Listener, Failures
  <1> QED BY <1>1, <1>2

-----------------------------------------------------------------------------
\* Theorems

\* The invariant that carries the others holds throughout.
THEOREM Invariance == Spec => []IInv
  BY InitInv, NextInv, PTL DEF Spec

\* Every variable keeps to its type: no write of the pipeline, in whatever
\* order failures and restarts come, leaves a row or a context malformed.
THEOREM TypeCorrect == Spec => []TypeOK
  <1>1. IInv => TypeOK
    BY DEF IInv
  <1> QED BY <1>1, Invariance, PTL

\* A candle reaches the broker's order_send at most once, for any number of
\* candles, days, restarts and failures: the commit of the candle in
\* MarketDataIngestionEngine is the claim that no later cycle can repeat.
THEOREM OneOrderPerCandle == Spec => []AtMostOneOrderPerCandle
  <1>1. IInv => AtMostOneOrderPerCandle
    BY DEF IInv
  <1> QED BY <1>1, Invariance, PTL

\* At most one order gets past an activation of the kill switch: the one that
\* ExecutionEngine had already found clear to send.
THEOREM OneLeakPerActivation == Spec => []KillSwitchLeaksAtMostOne
  <1>1. IInv => KillSwitchLeaksAtMostOne
    BY DEF IInv
  <1> QED BY <1>1, Invariance, PTL

\* Every order at the broker has its automatic approval and its order row, and
\* a FILLED row stands for an order that was filled.
THEOREM OrdersExplained == Spec => []BrokerOrdersExplained
  <1>1. IInv => BrokerOrdersExplained
    BY DEF IInv
  <1> QED BY <1>1, Invariance, PTL

\* What approves an order stays true until the order is sent.
LEMMA SettingsStep == IInv /\ SettingsInv /\ [Next]_vars => SettingsInv'
  <1> SUFFICES ASSUME IInv, SettingsInv, [Next]_vars PROVE SettingsInv'
    OBVIOUS
  <1> USE DEF SettingsInv, ApprovedSteps, ArmedSteps, TrySteps
  <1>1. CASE RunExecutionGate
    <2>1. PICK checksPassed \in BOOLEAN :
            \/ EndCycle
            \/ /\ ctx' = [ctx EXCEPT !.decision = GateDecision(checksPassed)]
               /\ pc' = "ApprovalEngine"
      BY <1>1 DEF RunExecutionGate
    <2>2. CASE EndCycle
      BY <2>2 DEF EndCycle
    <2>3. CASE /\ ctx' = [ctx EXCEPT !.decision = GateDecision(checksPassed)]
               /\ pc' = "ApprovalEngine"
      <3>1. ctx'.decision = GateDecision(checksPassed)
        BY <2>3 DEF IInv, TypeOK, Context
      <3> QED BY <1>1, <2>3, <3>1 DEF RunExecutionGate, GateDecision
    <2> QED BY <2>1, <2>2, <2>3
  <1>2. CASE RunApprovalEngine \/ BeginExecution
    BY <1>2 DEF RunApprovalEngine, BeginExecution, At, DemoLocked, EndCycle
  <1>3. CASE SubmitOrder
    <2>1. ctx'.decision = ctx.decision /\ ctx'.demo = ctx.demo
      BY <1>3 DEF SubmitOrder, IInv, TypeOK, Context
    <2> QED BY <1>3, <2>1 DEF SubmitOrder
  <1>4. CASE SendRefused \/ SendOrder
    <2>1. ctx'.decision = ctx.decision /\ pc = "SendOrder" /\ pc' \in {"RecordResult", "ExecutionError"}
      BY <1>4 DEF SendRefused, SendOrder, IInv, TypeOK, Context
    <2> QED BY <1>4, <2>1 DEF SendRefused, SendOrder
  <1>5. CASE Start \/ Crash \/ PollNewCandle \/ CheckKillSwitch \/ ViolatedLimit \/ LimitsRespected
             \/ CollectData \/ IngestCandle \/ IngestRaises \/ IngestNothing
             \/ GuardDataQuality \/ RunFilters \/ RefuseExecution \/ OrderCheckFailed
             \/ RecordResult \/ HandleExecutionError \/ StepRaises \/ ExecutionRaises
    BY <1>5 DEF Start, Crash, PollNewCandle, CheckKillSwitch, ViolatedLimit, LimitsRespected,
                CollectData, IngestCandle, IngestRaises, IngestNothing, GuardDataQuality, RunFilters,
                Judge, RefuseExecution, OrderCheckFailed, RecordResult, HandleExecutionError,
                StepRaises, ExecutionRaises, EndCycle
  <1>6. CASE UNCHANGED <<pc, ctx, settings>>
    BY <1>6
  <1> QED
    BY <1>1, <1>2, <1>3, <1>4, <1>5, <1>6
       DEF Next, Listener, Failures, Environment, SessionPoisoned, ActivateKillSwitch,
           DeactivateKillSwitch, NewBar, Midnight, SwitchAccount, vars

\* Whatever the operator restarts the worker with, an order leaves only under
\* AUTO_TRADE without DRY_RUN and without APPROVAL_REQUIRED, and under
\* DEMO_AUTO only after this cycle read a demo account.
THEOREM SettingsObeyed == Spec => OrdersObeySettings
  <1>1. Init => SettingsInv
    BY DEF Init, SettingsInv, ApprovedSteps, ArmedSteps, TrySteps
  <1>2. ASSUME IInv, SettingsInv, [Next]_vars
        PROVE  [broker' # broker =>
                  /\ settings.autoTrade /\ ~settings.dryRun /\ ~settings.approvalRequired
                  /\ settings.demoAuto => ctx.demo]_vars
    <2>1. broker' = broker \/ SendOrder
      BY <1>2 DEF Next, Listener, Failures, Environment, Start, Crash, PollNewCandle,
             CheckKillSwitch, ViolatedLimit, LimitsRespected, CollectData, IngestCandle,
             IngestRaises, IngestNothing, GuardDataQuality, RunFilters, Judge, RunExecutionGate,
             RunApprovalEngine, RefuseExecution, BeginExecution, SubmitOrder, OrderCheckFailed,
             SendRefused, RecordResult, HandleExecutionError, StepRaises, ExecutionRaises,
             SessionPoisoned, ActivateKillSwitch, DeactivateKillSwitch, NewBar, Midnight,
             SwitchAccount, vars
    <2> QED BY <1>2, <2>1 DEF SendOrder, SettingsInv, ApprovedSteps, ArmedSteps, TrySteps
  <1> QED BY <1>1, <1>2, InitInv, NextInv, SettingsStep, PTL DEF Spec, OrdersObeySettings

-----------------------------------------------------------------------------
\* The orders of a day

\* The rows and the sent orders of a day can be counted.
LEMMA Countable ==
    ASSUME TypeOK, NEW d
    PROVE  /\ IsFiniteSet(RowsOn(d)) /\ Cardinality(RowsOn(d)) \in Nat
           /\ IsFiniteSet(SentOn(d)) /\ Cardinality(SentOn(d)) \in Nat
  <1>1. /\ DOMAIN orders = 1 .. Len(orders) /\ Len(orders) \in Int
        /\ DOMAIN broker = 1 .. Len(broker) /\ Len(broker) \in Int
    BY LenProperties DEF TypeOK
  <1>2. IsFiniteSet(DOMAIN orders) /\ IsFiniteSet(DOMAIN broker)
    BY <1>1, FS_Interval
  <1>3. RowsOn(d) \in SUBSET DOMAIN orders /\ SentOn(d) \in SUBSET DOMAIN broker
    BY DEF RowsOn, SentOn
  <1>4. IsFiniteSet(RowsOn(d)) /\ IsFiniteSet(SentOn(d))
    BY <1>2, <1>3, FS_Subset
  <1> QED BY <1>4, FS_CardinalityType

\* The row that is added is of today.
LEMMA RowOfToday ==
    ASSUME TypeOK, NEW status \in OrderStatus, AddOrder(status)
    PROVE  /\ DOMAIN orders' = DOMAIN orders \cup {Len(orders) + 1}
           /\ \A r \in DOMAIN orders : orders'[r] = orders[r]
           /\ orders'[Len(orders) + 1].day = day
  <1> DEFINE row == [candle |-> ctx.candle, day |-> day, status |-> status]
  <1>1. /\ DOMAIN orders' = DOMAIN orders \cup {Len(orders) + 1}
        /\ \A r \in DOMAIN orders : orders'[r] = orders[r]
        /\ orders'[Len(orders) + 1] = row
    BY AddOrderExtends
  <1>2. row.day = day
    OBVIOUS
  <1> HIDE DEF row
  <1> QED BY <1>1, <1>2

\* A row that is added counts for its own day only.
LEMMA RowCounted ==
    ASSUME TypeOK, NEW status \in OrderStatus, AddOrder(status), day' = day
    PROVE  /\ \A d : d # day => RowsOn(d)' = RowsOn(d)
           /\ TradesToday' = TradesToday + 1
  <1>1. /\ DOMAIN orders' = DOMAIN orders \cup {Len(orders) + 1}
        /\ \A r \in DOMAIN orders : orders'[r] = orders[r]
        /\ orders'[Len(orders) + 1].day = day
    BY RowOfToday
  <1>2. Len(orders) + 1 \notin DOMAIN orders
    BY LenProperties DEF TypeOK
  <1>3. \A d : d # day => RowsOn(d)' = RowsOn(d)
    BY <1>1 DEF RowsOn
  <1>4. RowsOn(day)' = RowsOn(day) \cup {Len(orders) + 1}
    BY <1>1 DEF RowsOn
  <1>5. Len(orders) + 1 \notin RowsOn(day)
    BY <1>2 DEF RowsOn
  <1>6. Cardinality(RowsOn(day) \cup {Len(orders) + 1}) = Cardinality(RowsOn(day)) + 1
    BY <1>5, Countable, FS_AddElement
  <1> QED BY <1>3, <1>4, <1>6 DEF TradesToday

\* No row is dated later than today.
LEMMA RowsDated ==
    ASSUME TypeOK, CapInv, NEW status \in OrderStatus, AddOrder(status), day' = day
    PROVE  \A r \in DOMAIN orders' : orders'[r].day <= day'
  <1>1. /\ DOMAIN orders' = DOMAIN orders \cup {Len(orders) + 1}
        /\ \A r \in DOMAIN orders : orders'[r] = orders[r]
        /\ orders'[Len(orders) + 1].day = day
    BY RowOfToday
  <1>2. day <= day /\ \A r \in DOMAIN orders : orders[r].day <= day
    BY DEF CapInv, TypeOK
  <1> QED BY <1>1, <1>2

\* An order that is sent counts for its own day only.
LEMMA OrderCounted ==
    ASSUME TypeOK, NEW sent \in BrokerOrder, broker' = Append(broker, sent), sent.day = day,
           day' = day
    PROVE  /\ \A d : d # day => SentOn(d)' = SentOn(d)
           /\ Cardinality(SentOn(day)') = Cardinality(SentOn(day)) + 1
           /\ \A i \in DOMAIN broker' : broker'[i].day = day \/ (i \in DOMAIN broker /\ broker'[i] = broker[i])
  <1>1. broker \in Seq(BrokerOrder)
    BY DEF TypeOK
  <1>2. /\ broker' \in Seq(BrokerOrder)
        /\ Len(broker') = Len(broker) + 1
        /\ \A i \in 1 .. Len(broker) : broker'[i] = broker[i]
        /\ broker'[Len(broker) + 1] = sent
    BY <1>1, AppendProperties
  <1>3. DOMAIN broker = 1 .. Len(broker) /\ DOMAIN broker' = 1 .. Len(broker')
        /\ Len(broker) \in Nat
    BY <1>1, <1>2, LenProperties
  <1>4. DOMAIN broker' = DOMAIN broker \cup {Len(broker) + 1} /\ Len(broker) + 1 \notin DOMAIN broker
    BY <1>2, <1>3
  <1>5. \A i \in DOMAIN broker : broker'[i] = broker[i]
    BY <1>2, <1>3
  <1>6. \A d : d # day => SentOn(d)' = SentOn(d)
    BY <1>2, <1>4, <1>5 DEF SentOn
  <1>7. SentOn(day)' = SentOn(day) \cup {Len(broker) + 1}
    BY <1>2, <1>4, <1>5 DEF SentOn
  <1>8. Len(broker) + 1 \notin SentOn(day)
    BY <1>4 DEF SentOn
  <1>9. Cardinality(SentOn(day) \cup {Len(broker) + 1}) = Cardinality(SentOn(day)) + 1
    BY <1>8, Countable, FS_AddElement
  <1>10. \A i \in DOMAIN broker' : broker'[i].day = day \/ (i \in DOMAIN broker /\ broker'[i] = broker[i])
    BY <1>2, <1>4, <1>5
  <1>11. Cardinality(SentOn(day)') = Cardinality(SentOn(day)) + 1
    BY <1>7, <1>9
  <1> QED BY <1>6, <1>10, <1>11

\* A step that neither writes a row nor sends an order keeps the invariant,
\* unless it opens the way to an order.
LEMMA CalmStep ==
    ASSUME CapInv, UNCHANGED <<day, broker, orders>>,
           pc' \in LimitedSteps => pc \in LimitedSteps \/ TradesToday < MaxTradesPerDay,
           pc' = "SendOrder" => pc = "SendOrder"
    PROVE  CapInv'
  BY DEF CapInv, DailyTradeCap, RowsOn, SentOn, TradesToday

\* A row that is not followed by an order only leaves less room.
LEMMA RowStep ==
    ASSUME TypeOK, CapInv, NEW status \in OrderStatus, AddOrder(status),
           UNCHANGED <<day, broker>>, pc' \notin LimitedSteps, pc' # "SendOrder"
    PROVE  CapInv'
  <1>1. /\ \A d : d # day => RowsOn(d)' = RowsOn(d)
        /\ TradesToday' = TradesToday + 1
    BY RowCounted
  <1>2. \A r \in DOMAIN orders' : orders'[r].day <= day'
    BY RowsDated
  <1>3. \A d : SentOn(d)' = SentOn(d)
    BY DEF SentOn
  <1>4. \A d \in 1..day' : Cardinality(SentOn(d)') <= Cardinality(RowsOn(d)') + LateOrders(d)
    <2> SUFFICES ASSUME NEW d \in 1..day
                 PROVE  Cardinality(SentOn(d)) <= Cardinality(RowsOn(d)') + LateOrders(d)
      BY <1>3
    <2>1. Cardinality(SentOn(d)) <= Cardinality(RowsOn(d)) + LateOrders(d)
      BY DEF CapInv
    <2>2. CASE d # day
      BY <1>1, <2>1, <2>2
    <2>3. CASE d = day
      <3>1. Cardinality(RowsOn(d)') = Cardinality(RowsOn(d)) + 1
        BY <1>1, <2>3 DEF TradesToday
      <3> QED BY <2>1, <3>1, Countable DEF LateOrders
    <2> QED BY <2>2, <2>3
  <1> QED BY <1>2, <1>3, <1>4 DEF CapInv, DailyTradeCap, SentOn

\* The SUBMITTED row takes the place that the check of the limits found free.
LEMMA SubmitStep ==
    ASSUME TypeOK, CapInv, SubmitOrder
    PROVE  CapInv'
  <1>1. /\ pc = "SubmitOrder" /\ pc' \in {"SendOrder", "ExecutionError"}
        /\ AddOrder("SUBMITTED") /\ UNCHANGED <<day, broker>>
        /\ "SUBMITTED" \in OrderStatus
    BY DEF SubmitOrder, envVars, OrderStatus
  <1>2. CASE pc' = "ExecutionError"
    <2>1. pc' \notin LimitedSteps /\ pc' # "SendOrder"
      BY <1>2 DEF LimitedSteps, ClaimedSteps
    <2> QED BY <1>1, <2>1, RowStep
  <1>3. CASE pc' = "SendOrder"
    <2>1. /\ \A d : d # day => RowsOn(d)' = RowsOn(d)
          /\ TradesToday' = TradesToday + 1
      BY <1>1, RowCounted
    <2>2. \A r \in DOMAIN orders' : orders'[r].day <= day'
      BY <1>1, RowsDated
    <2>3. \A d : SentOn(d)' = SentOn(d)
      BY <1>1 DEF SentOn
    <2>4. /\ TradesToday \in Nat /\ Cardinality(SentOn(day)) \in Nat
          /\ TradesToday < MaxTradesPerDay /\ MaxTradesPerDay \in Nat
          /\ day \in 1..day
          /\ Cardinality(SentOn(day)) <= TradesToday + LateOrders(day)
      BY <1>1, Countable, BoundsAssumption DEF CapInv, TypeOK, TradesToday, LimitedSteps
    <2>5. \A d \in 1..day' : Cardinality(SentOn(d)') <= Cardinality(RowsOn(d)') + LateOrders(d)
      <3> SUFFICES ASSUME NEW d \in 1..day
                   PROVE  Cardinality(SentOn(d)) <= Cardinality(RowsOn(d)') + LateOrders(d)
        BY <1>1, <2>3
      <3>1. CASE d # day
        BY <2>1, <3>1 DEF CapInv
      <3>2. CASE d = day
        <4>1. Cardinality(RowsOn(d)') = TradesToday + 1
          BY <1>1, <2>1, <3>2 DEF TradesToday
        <4> QED BY <2>4, <3>2, <4>1 DEF LateOrders
      <3> QED BY <3>1, <3>2
    <2>6. /\ TradesToday' <= MaxTradesPerDay
          /\ Cardinality(SentOn(day)') < TradesToday' + LateOrders(day)
      <3>1. Cardinality(SentOn(day)') = Cardinality(SentOn(day))
        BY <1>1 DEF SentOn
      <3> QED BY <2>1, <2>4, <3>1 DEF LateOrders
    <2>7. LateOrders(day)' = LateOrders(day)
      BY <1>1
    <2> QED BY <1>1, <1>3, <2>2, <2>3, <2>5, <2>6, <2>7
            DEF CapInv, DailyTradeCap, LimitedSteps, ClaimedSteps, SentOn
  <1> QED BY <1>1, <1>2, <1>3

\* The order takes the place its row left it, or is the first of the next day.
LEMMA OrderStep ==
    ASSUME TypeOK, CapInv, SendOrder
    PROVE  CapInv'
  <1>1. PICK reply \in Replies, filled \in BOOLEAN :
          broker' = Append(broker, [candle |-> ctx.candle, day |-> day,
                                    demo |-> accountDemo, filled |-> filled])
    BY DEF SendOrder
  <1> DEFINE sent == [candle |-> ctx.candle, day |-> day, demo |-> accountDemo, filled |-> filled]
  <1>2. sent \in BrokerOrder /\ sent.day = day /\ broker' = Append(broker, sent)
    BY <1>1 DEF TypeOK, Context, BrokerOrder
  <1>3. /\ pc = "SendOrder" /\ pc' \in {"RecordResult", "ExecutionError"}
        /\ UNCHANGED <<day, orders>>
    BY DEF SendOrder, envVars, dbVars
  <1>4. /\ \A d : d # day => SentOn(d)' = SentOn(d)
        /\ Cardinality(SentOn(day)') = Cardinality(SentOn(day)) + 1
        /\ \A i \in DOMAIN broker' : broker'[i].day = day \/ (i \in DOMAIN broker /\ broker'[i] = broker[i])
    <2> HIDE DEF sent
    <2> QED BY <1>2, <1>3, OrderCounted
  <1>5. \A i \in DOMAIN broker' : broker'[i].day <= day'
    BY <1>3, <1>4 DEF CapInv, TypeOK
  <1>6. \A d : RowsOn(d)' = RowsOn(d)
    BY <1>3 DEF RowsOn
  <1>7. /\ TradesToday \in Nat /\ Cardinality(SentOn(day)) \in Nat /\ MaxTradesPerDay \in Nat
        /\ day \in 1..day
    BY Countable, BoundsAssumption DEF CapInv, TypeOK, TradesToday
  <1>8. /\ Cardinality(SentOn(day)) + 1 <= TradesToday + LateOrders(day)
        /\ Cardinality(SentOn(day)) + 1 <= MaxTradesPerDay + LateOrders(day)
    <2>1. CASE /\ TradesToday <= MaxTradesPerDay
               /\ Cardinality(SentOn(day)) < TradesToday + LateOrders(day)
      BY <1>7, <2>1 DEF LateOrders
    <2>2. CASE day > 1 /\ SentOn(day) = {}
      BY <1>7, <2>2, FS_EmptySet DEF LateOrders
    <2> QED BY <1>3, <2>1, <2>2 DEF CapInv
  <1>9. \A d \in 1..day' : /\ Cardinality(SentOn(d)') <= Cardinality(RowsOn(d)') + LateOrders(d)
                           /\ Cardinality(SentOn(d)') <= MaxTradesPerDay + LateOrders(d)
    <2> SUFFICES ASSUME NEW d \in 1..day
                 PROVE  /\ Cardinality(SentOn(d)') <= Cardinality(RowsOn(d)) + LateOrders(d)
                        /\ Cardinality(SentOn(d)') <= MaxTradesPerDay + LateOrders(d)
      BY <1>3, <1>6
    <2>1. CASE d # day
      BY <1>4, <2>1 DEF CapInv, DailyTradeCap
    <2>2. CASE d = day
      <3>1. Cardinality(SentOn(d)') = Cardinality(SentOn(day)) + 1
        BY <1>3, <1>4, <2>2
      <3> QED BY <1>8, <2>2, <3>1 DEF TradesToday
    <2> QED BY <2>1, <2>2
  <1> QED BY <1>3, <1>5, <1>6, <1>9 DEF CapInv, DailyTradeCap, LimitedSteps, ClaimedSteps

\* A new day has neither rows nor orders.
LEMMA MidnightStep ==
    ASSUME TypeOK, CapInv, Midnight
    PROVE  CapInv'
  <1>1. /\ day' = day + 1 /\ day \in Nat /\ day >= 1 /\ MaxTradesPerDay \in Nat
        /\ UNCHANGED <<broker, orders, pc>>
    BY BoundsAssumption DEF Midnight, TypeOK, CapInv, dbVars
  <1>2. /\ \A r \in DOMAIN orders : orders[r].day \in Nat
        /\ \A i \in DOMAIN broker : broker[i].day \in Nat
    BY RowTypes DEF OrderRow, BrokerOrder
  <1>3. /\ \A r \in DOMAIN orders' : orders'[r].day <= day'
        /\ \A i \in DOMAIN broker' : broker'[i].day <= day'
    BY <1>1, <1>2 DEF CapInv
  <1>4. RowsOn(day + 1) = {} /\ SentOn(day + 1) = {}
    BY <1>1, <1>2 DEF CapInv, RowsOn, SentOn
  <1>5. \A d : RowsOn(d)' = RowsOn(d) /\ SentOn(d)' = SentOn(d)
    BY <1>1 DEF RowsOn, SentOn
  <1>6. \A d \in 1..day' : /\ Cardinality(SentOn(d)') <= Cardinality(RowsOn(d)') + LateOrders(d)
                           /\ Cardinality(SentOn(d)') <= MaxTradesPerDay + LateOrders(d)
    <2> SUFFICES ASSUME NEW d \in 1..(day + 1)
                 PROVE  /\ Cardinality(SentOn(d)) <= Cardinality(RowsOn(d)) + LateOrders(d)
                        /\ Cardinality(SentOn(d)) <= MaxTradesPerDay + LateOrders(d)
      BY <1>1, <1>5
    <2>1. CASE d \in 1..day
      BY <2>1 DEF CapInv, DailyTradeCap
    <2>2. CASE d = day + 1
      BY <1>1, <1>4, <2>2, FS_EmptySet DEF LateOrders
    <2> QED BY <1>1, <2>1, <2>2
  <1>7. SentOn(day)' = {} /\ TradesToday' = 0
    BY <1>1, <1>4, FS_EmptySet DEF TradesToday, RowsOn, SentOn
  <1>8. pc \in LimitedSteps => 0 < MaxTradesPerDay
    BY <1>1, Countable DEF CapInv, TradesToday
  <1> QED BY <1>1, <1>3, <1>6, <1>7, <1>8 DEF CapInv, DailyTradeCap

\* Every step keeps the counts of the days.
LEMMA CapStep == IInv /\ CapInv /\ [Next]_vars => CapInv'
  <1> SUFFICES ASSUME IInv, CapInv, [Next]_vars PROVE CapInv'
    OBVIOUS
  <1>0. TypeOK
    BY DEF IInv
  <1>1. CASE SubmitOrder \/ SendOrder \/ Midnight
    BY <1>0, <1>1, SubmitStep, OrderStep, MidnightStep
  <1>2. CASE RefuseExecution \/ OrderCheckFailed \/ HandleExecutionError
    <2>1. /\ UNCHANGED <<day, broker>>
          /\ pc' \notin LimitedSteps /\ pc' # "SendOrder"
          /\ UNCHANGED orders \/ \E status \in OrderStatus : AddOrder(status)
      BY <1>2 DEF RefuseExecution, OrderCheckFailed, HandleExecutionError, RefusalStatus, EndCycle,
                  envVars, OrderStatus, LimitedSteps, ClaimedSteps
    <2> QED BY <1>0, <2>1, CalmStep, RowStep
  <1>3. CASE RecordResult
    <2>1. /\ UNCHANGED <<day, broker>> /\ pc' \in {"idle", "ExecutionError"}
          /\ DOMAIN orders' = DOMAIN orders
          /\ \A r \in DOMAIN orders : orders'[r].day = orders[r].day
      <3>1. ctx.row \in DOMAIN orders /\ ctx.result \in OrderStatus
        BY <1>3 DEF RecordResult, IInv, TrailInv, ContextInv, OrderStatus
      <3> QED BY <1>0, <1>3, <3>1, RecordUpdates DEF RecordResult, EndCycle, envVars
    <2>2. \A d : RowsOn(d)' = RowsOn(d) /\ SentOn(d)' = SentOn(d)
      BY <2>1 DEF RowsOn, SentOn
    <2> QED BY <2>1, <2>2 DEF CapInv, DailyTradeCap, LimitedSteps, ClaimedSteps
  <1>4. CASE LimitsRespected
    <2>1. TradesToday < MaxTradesPerDay
      BY <1>0, <1>4, Countable, BoundsAssumption DEF LimitsRespected, TradeLimitHit, TradesToday
    <2> QED BY <1>4, <2>1, CalmStep DEF LimitsRespected, envVars, dbVars
  <1>5. CASE \/ Start \/ Crash \/ PollNewCandle \/ CheckKillSwitch \/ ViolatedLimit
             \/ CollectData \/ IngestCandle \/ IngestRaises \/ IngestNothing
             \/ GuardDataQuality \/ RunFilters \/ RunExecutionGate \/ RunApprovalEngine
             \/ BeginExecution \/ SendRefused \/ StepRaises \/ ExecutionRaises
    <2>1. /\ UNCHANGED <<day, broker, orders>>
          /\ pc' \in LimitedSteps => pc \in LimitedSteps
          /\ pc' = "SendOrder" => pc = "SendOrder"
      BY <1>5 DEF Start, Crash, PollNewCandle, CheckKillSwitch, ViolatedLimit, CollectData,
                  IngestCandle, IngestRaises, IngestNothing, GuardDataQuality, RunFilters, Judge, At,
                  RunExecutionGate, RunApprovalEngine, BeginExecution, SendRefused, StepRaises,
                  ExecutionRaises, EndCycle, envVars, dbVars, LimitedSteps, ClaimedSteps
    <2> QED BY <2>1, CalmStep
  <1>6. CASE UNCHANGED <<day, broker, orders, pc>>
    BY <1>6, CalmStep
  <1> QED
    BY <1>1, <1>2, <1>3, <1>4, <1>5, <1>6
       DEF Next, Listener, Failures, Environment, SessionPoisoned, ActivateKillSwitch,
           DeactivateKillSwitch, NewBar, SwitchAccount, vars, envVars, dbVars

\* The orders of a day stay within max_trades_per_day, plus one on every day but
\* the first: the count of the day's rows, read once per cycle, is enough,
\* because a cycle writes at most one row that is followed by an order, and only
\* midnight can fall between the row and the order.
THEOREM TradesCapped == Spec => []DailyTradeCap
  <1>1. Init => CapInv
    <2> SUFFICES ASSUME Init PROVE CapInv
      OBVIOUS
    <2>1. /\ day = 1 /\ DOMAIN orders = {} /\ DOMAIN broker = {}
          /\ pc \notin LimitedSteps /\ pc # "SendOrder" /\ MaxTradesPerDay \in Nat
      BY BoundsAssumption DEF Init, LimitedSteps, ClaimedSteps
    <2>2. \A d : RowsOn(d) = {} /\ SentOn(d) = {}
      BY <2>1 DEF RowsOn, SentOn
    <2> QED BY <2>1, <2>2, FS_EmptySet DEF CapInv, DailyTradeCap, LateOrders
  <1>2. CapInv => DailyTradeCap
    BY DEF CapInv
  <1> QED BY <1>1, <1>2, InitInv, NextInv, CapStep, PTL DEF Spec

-----------------------------------------------------------------------------
\* Refinement of CandleOrders

\* A step that neither stores a candle nor sends an order can only drop the
\* claim, or leave it alone.
LEMMA DropOrStutter ==
    ASSUME UNCHANGED <<broker, dbCandle>>, ClaimLive' => ClaimLive
    PROVE  [Promise!Next]_Promise!vars
  <1>1. Ordered' = Ordered
    BY DEF Ordered
  <1>2. ClaimLive \in BOOLEAN /\ ClaimLive' \in BOOLEAN
    BY DEF ClaimLive
  <1>3. CASE ClaimLive' = ClaimLive
    BY <1>1, <1>3 DEF Promise!vars
  <1>4. CASE ClaimLive /\ ClaimLive' = FALSE
    BY <1>1, <1>4 DEF Promise!Next, Promise!Drop
  <1> QED BY <1>2, <1>3, <1>4

\* A step that stores a newer candle and sends nothing is a claim.
LEMMA NewClaim ==
    ASSUME UNCHANGED broker, dbCandle' \in Nat, dbCandle' > dbCandle
    PROVE  [Promise!Next]_Promise!vars
  <1>1. Ordered' = Ordered
    BY DEF Ordered
  <1>2. ClaimLive' \in BOOLEAN
    BY DEF ClaimLive
  <1> QED BY <1>1, <1>2 DEF Promise!Next, Promise!Claim

\* Every step of the worker is a step of CandleOrders or a stutter.
LEMMA StepRefines == IInv /\ [Next]_vars => [Promise!Next]_Promise!vars
  <1> SUFFICES ASSUME IInv, [Next]_vars PROVE [Promise!Next]_Promise!vars
    OBVIOUS
  <1>1. CASE IngestCandle \/ IngestRaises
    <2>1. /\ dbCandle' = IF ctx.candle > dbCandle THEN ctx.candle ELSE dbCandle
          /\ ctx.candle \in Nat /\ dbCandle \in Nat /\ dbCandle <= ctx.candle
          /\ UNCHANGED broker /\ pc = "MarketDataIngestionEngine"
      BY <1>1 DEF IngestCandle, IngestRaises, At, SaveCandle, IInv, TypeOK, ClaimInv, Context
    <2>2. CASE ctx.candle > dbCandle
      BY <2>1, <2>2, NewClaim
    <2>3. CASE ctx.candle = dbCandle
      <3>1. ~ClaimLive'
        BY <1>1, <2>3 DEF IngestCandle, IngestRaises, IsDuplicate, EndCycle, ClaimLive,
                          ClaimedSteps, IInv, TypeOK, Context
      <3> QED BY <2>1, <2>3, <3>1, DropOrStutter
    <2> QED BY <2>1, <2>2, <2>3
  <1>2. CASE SendOrder
    <2>1. PICK order \in BrokerOrder : order.candle = dbCandle /\ broker' = Append(broker, order)
      <3>1. PICK filled \in BOOLEAN :
              broker' = Append(broker, [candle |-> ctx.candle, day |-> day, demo |-> accountDemo,
                                        filled |-> filled])
        BY <1>2 DEF SendOrder
      <3>2. ctx.candle = dbCandle
        BY <1>2 DEF SendOrder, IInv, ContextInv, ClaimInv, ClaimedSteps, ArmedSteps
      <3> QED BY <3>1, <3>2 DEF IInv, TypeOK, BrokerOrder
    <2>2. Ordered' = Ordered \cup {dbCandle}
      <3>1. broker \in Seq(BrokerOrder)
        BY DEF IInv, TypeOK
      <3>2. /\ broker' \in Seq(BrokerOrder)
            /\ Len(broker') = Len(broker) + 1
            /\ \A i \in 1 .. Len(broker) : broker'[i] = broker[i]
            /\ broker'[Len(broker) + 1] = order
        BY <2>1, <3>1, AppendProperties
      <3>3. DOMAIN broker = 1 .. Len(broker) /\ DOMAIN broker' = 1 .. Len(broker) + 1
            /\ Len(broker) \in Nat
        BY <3>1, <3>2, LenProperties
      <3> QED BY <2>1, <3>2, <3>3 DEF Ordered
    <2>3. dbCandle \notin Ordered /\ ClaimLive
      BY <1>2 DEF SendOrder, Ordered, ClaimLive, IInv, ContextInv, ClaimInv, ClaimedSteps,
                  ArmedSteps
    <2>4. ClaimLive' = FALSE /\ dbCandle' = dbCandle
      BY <1>2 DEF SendOrder, ClaimLive, ClaimedSteps, dbVars
    <2> QED BY <2>2, <2>3, <2>4 DEF Promise!Next, Promise!Place
  <1>3. CASE RunExecutionGate \/ SubmitOrder
    <2>1. /\ ctx' = NoContext \/ (ctx'.history = ctx.history /\ ctx'.duplicate = ctx.duplicate)
          /\ pc \in {"ExecutionGate", "SubmitOrder"}
          /\ UNCHANGED <<broker, dbCandle>>
      BY <1>3 DEF RunExecutionGate, SubmitOrder, At, EndCycle, IInv, TypeOK, Context
    <2>2. ctx'.history /\ ~ctx'.duplicate => ctx.history /\ ~ctx.duplicate
      <3>1. ~NoContext.history
        BY DEF NoContext
      <3> QED BY <2>1, <3>1
    <2>3. ClaimLive' => ClaimLive
      BY <2>1, <2>2 DEF ClaimLive, ClaimedSteps
    <2> QED BY <2>1, <2>3, DropOrStutter
  <1>4. CASE IngestNothing
    BY <1>4, DropOrStutter DEF IngestNothing, ClaimLive, dbVars
  <1>5. CASE GuardDataQuality \/ RunFilters \/ RunApprovalEngine \/ BeginExecution
             \/ RefuseExecution \/ OrderCheckFailed \/ RecordResult \/ HandleExecutionError
             \/ StepRaises \/ ExecutionRaises
    BY <1>5, DropOrStutter
       DEF GuardDataQuality, RunFilters, Judge, At, RunApprovalEngine, BeginExecution,
           RefuseExecution, OrderCheckFailed, RecordResult, HandleExecutionError, StepRaises,
           ExecutionRaises, EndCycle, ClaimLive, ClaimedSteps, dbVars
  <1>6. CASE Start \/ Crash \/ PollNewCandle \/ CheckKillSwitch \/ ViolatedLimit
             \/ LimitsRespected \/ CollectData \/ SendRefused
    BY <1>6, DropOrStutter
       DEF Start, Crash, PollNewCandle, CheckKillSwitch, ViolatedLimit, LimitsRespected,
           CollectData, SendRefused, EndCycle, ClaimLive, ClaimedSteps, dbVars
  <1>7. CASE UNCHANGED <<pc, ctx, broker, dbCandle>>
    BY <1>7, DropOrStutter DEF ClaimLive
  <1> QED
    BY <1>1, <1>2, <1>3, <1>4, <1>5, <1>6, <1>7
       DEF Next, Listener, Failures, Environment, SessionPoisoned, ActivateKillSwitch,
           DeactivateKillSwitch, NewBar, Midnight, SwitchAccount, vars, dbVars

\* The worker implements CandleOrders: candles are claimed in increasing order
\* and a claim places at most one order, of the candle claimed last.
THEOREM PromiseKept == Spec => KeepsPromise
  <1>1. Init => Promise!Init
    BY DEF Init, Promise!Init, ClaimLive, Ordered, ClaimedSteps
  <1> QED BY <1>1, InitInv, NextInv, StepRefines, PTL DEF Spec, KeepsPromise, Promise!Spec

-----------------------------------------------------------------------------
\* Turns of the two cycles

\* Both cycles are down at first.
LEMMA TurnInit == ExposureInit => TurnInv
  BY DEF ExposureInit, Init, P!Init, TurnInv, RoomSteps, SymbolRoomSteps, Steps, ClaimedSteps, TrySteps

\* While the rows stay as they are, so does the room they leave.
LEMMA RoomKept ==
    ASSUME UNCHANGED rows
    PROVE  RoomToOpen' = RoomToOpen /\ RoomInSymbol' = RoomInSymbol
  BY DEF RoomToOpen, RoomInSymbol, P!OpenRows

\* A step of the trading cycle that leaves positions alone.
LEMMA CycleStepTurn ==
    ASSUME TurnInv, CycleStep
    PROVE  TurnInv'
  <1> USE DEF TurnInv, RoomSteps, SymbolRoomSteps, Steps, ClaimedSteps, TrySteps
  <1>1. /\ RoomToOpen' = RoomToOpen /\ RoomInSymbol' = RoomInSymbol
        /\ task' = task
    BY RoomKept DEF CycleStep, positionVars
  <1>2. CASE CheckKillSwitch \/ ViolatedLimit \/ CollectData \/ IngestCandle \/ IngestNothing
    BY <1>1, <1>2 DEF CheckKillSwitch, ViolatedLimit, CollectData, IngestCandle, IngestNothing,
                      At, EndCycle
  <1>3. CASE GuardDataQuality \/ RunExecutionGate \/ RunApprovalEngine
    BY <1>1, <1>3 DEF GuardDataQuality, Judge, RunExecutionGate, RunApprovalEngine, At, EndCycle
  <1>4. CASE RefuseExecution \/ BeginExecution \/ SubmitOrder \/ OrderCheckFailed \/ SendRefused
    BY <1>1, <1>4 DEF RefuseExecution, BeginExecution, SubmitOrder, OrderCheckFailed, SendRefused,
                      At, EndCycle
  <1>5. CASE RecordResult \/ HandleExecutionError
    BY <1>1, <1>5 DEF RecordResult, HandleExecutionError, EndCycle
  <1>6. CASE StepRaises \/ IngestRaises \/ ExecutionRaises
    BY <1>1, <1>6 DEF StepRaises, IngestRaises, ExecutionRaises, At, EndCycle
  <1> QED BY <1>2, <1>3, <1>4, <1>5, <1>6 DEF CycleStep

\* Every step keeps the turns.
LEMMA TurnNext == TurnInv /\ [ExposureNext]_allVars => TurnInv'
  <1> SUFFICES ASSUME TurnInv, [ExposureNext]_allVars PROVE TurnInv'
    OBVIOUS
  <1> USE DEF TurnInv, RoomSteps, SymbolRoomSteps, Steps, ClaimedSteps, TrySteps
  <1>1. CASE CycleStep
    BY <1>1, CycleStepTurn
  <1>2. CASE StartProcess \/ PollBar \/ SessionLost
    BY <1>2, RoomKept DEF StartProcess, Start, PollBar, PollNewCandle, SessionLost, SessionPoisoned,
                          At, positionVars
  <1>3. CASE CheckLimits \/ Filter
    BY <1>3, RoomKept DEF CheckLimits, LimitsRespected, Filter, RunFilters, Judge, At, EndCycle,
                          positionVars
  <1>4. CASE OrderSent
    <2>1. UNCHANGED <<rows, task>>
      BY <1>4 DEF OrderSent, P!OpenPosition, positionVars
    <2> QED BY <1>4, <2>1, RoomKept DEF OrderSent, SendOrder
  <1>5. CASE ProcessEnds
    BY <1>5 DEF ProcessEnds, P!Crash, Crash, cycleVars
  <1>6. CASE PositionStep
    <2>1. UNCHANGED pc
      BY <1>6 DEF PositionStep, cycleVars
    <2>2. CASE pc = "down" /\ P!StartRecovery
      BY <2>1, <2>2 DEF P!StartRecovery
    <2>3. CASE pc = "idle" /\ P!BeginCycle
      BY <2>1, <2>3 DEF P!BeginCycle
    <2>4. CASE P!UpsertRows \/ P!ReadForLifecycle \/ P!CloseMissing \/ P!CycleRaises
      BY <2>1, <2>4
         DEF P!UpsertRows, P!AfterUpsert, P!ReadForLifecycle, P!CloseMissing, P!CycleRaises
    <2> QED BY <1>6, <2>2, <2>3, <2>4 DEF PositionStep
  <1>7. CASE BrokerStep
    BY <1>7, RoomKept DEF BrokerStep, P!Broker, P!OpenPosition, P!ClosePosition, cycleVars
  <1>8. CASE EnvironmentStep
    BY <1>8, RoomKept DEF EnvironmentStep, Environment, ActivateKillSwitch, DeactivateKillSwitch,
                          NewBar, Midnight, SwitchAccount, positionVars
  <1>9. CASE UNCHANGED allVars
    BY <1>9, RoomKept DEF allVars, vars, positionVars
  <1> QED BY <1>1, <1>2, <1>3, <1>4, <1>5, <1>6, <1>7, <1>8, <1>9 DEF ExposureNext

-----------------------------------------------------------------------------
\* Each cycle alone

\* A step of the worker is a step of TradingCycle, or none.
LEMMA TradingStep == TurnInv /\ [ExposureNext]_allVars => [Next]_vars
  <1> SUFFICES ASSUME TurnInv, [ExposureNext]_allVars PROVE [Next]_vars
    OBVIOUS
  <1>1. CASE StartProcess \/ PollBar \/ SessionLost \/ CycleStep
    BY <1>1 DEF StartProcess, PollBar, SessionLost, CycleStep, Next, Listener, Failures
  <1>2. CASE CheckLimits \/ Filter \/ OrderSent \/ EnvironmentStep
    BY <1>2 DEF CheckLimits, Filter, OrderSent, EnvironmentStep, Next, Listener
  <1>3. CASE ProcessEnds
    BY <1>3 DEF ProcessEnds, P!Crash, TurnInv, Next, Failures, cycleVars, envVars, dbVars, vars
  <1>4. CASE PositionStep
    <2>1. UNCHANGED cycleVars
      BY <1>4 DEF PositionStep
    <2>2. CASE UNCHANGED session
      BY <2>1, <2>2 DEF cycleVars, envVars, dbVars, vars
    <2>3. CASE P!CycleRaises /\ session' # session
      <3>1. pc = "idle" /\ session = "clean" /\ session' = "poisoned"
        BY <2>3 DEF P!CycleRaises, TurnInv
      <3>2. SessionPoisoned
        BY <2>1, <3>1 DEF SessionPoisoned, At, cycleVars
      <3> QED BY <3>2 DEF Next, Failures
    <2> QED
      BY <1>4, <2>2, <2>3 DEF PositionStep, P!StartRecovery, P!BeginCycle, P!UpsertRows,
                              P!ReadForLifecycle, P!CloseMissing
  <1>5. CASE BrokerStep
    BY <1>5 DEF BrokerStep, P!Broker, P!OpenPosition, P!ClosePosition, cycleVars, envVars, dbVars, vars
  <1>6. CASE UNCHANGED allVars
    BY <1>6 DEF allVars
  <1> QED BY <1>1, <1>2, <1>3, <1>4, <1>5, <1>6 DEF ExposureNext

\* Steps of the trading cycle poison the session while the position cycle is
\* idle, or leave it alone.
LEMMA SessionStep ==
    ASSUME TurnInv, UNCHANGED positionVars,
           UNCHANGED session \/ (task = "idle" /\ session' = "poisoned")
    PROVE  [P!Next]_P!vars
  BY DEF P!Next, P!Failures, P!SessionPoisoned, P!vars, positionVars

\* A step of the worker is a step of PositionSync, or none.
LEMMA PositionsStep == TurnInv /\ [ExposureNext]_allVars => [P!Next]_P!vars
  <1> SUFFICES ASSUME TurnInv, [ExposureNext]_allVars PROVE [P!Next]_P!vars
    OBVIOUS
  <1>1. CASE StartProcess \/ PollBar \/ SessionLost
    BY <1>1, SessionStep DEF StartProcess, Start, PollBar, PollNewCandle, SessionLost, SessionPoisoned
  <1>2. CASE CycleStep
    <2>1. UNCHANGED session \/ (task = "idle" /\ session' = "poisoned")
      BY <1>2 DEF CycleStep, CheckKillSwitch, ViolatedLimit, CollectData, IngestCandle,
                  IngestNothing, GuardDataQuality, Judge, RunExecutionGate, RunApprovalEngine,
                  RefuseExecution, BeginExecution, SubmitOrder, OrderCheckFailed, SendRefused,
                  RecordResult, HandleExecutionError, StepRaises, IngestRaises, ExecutionRaises,
                  At, TurnInv, Steps, ClaimedSteps, TrySteps
    <2> QED BY <1>2, <2>1, SessionStep DEF CycleStep
  <1>3. CASE CheckLimits \/ Filter
    BY <1>3, SessionStep DEF CheckLimits, LimitsRespected, Filter, RunFilters, Judge
  <1>4. CASE OrderSent
    <2>1. CASE UNCHANGED positionVars
      BY <1>4, <2>1, SessionStep DEF OrderSent, SendOrder
    <2>2. CASE \E t \in TradedSymbol : P!OpenPosition(t)
      BY <2>2, ExposureAssumption DEF P!Next, P!Broker
    <2> QED BY <1>4, <2>1, <2>2 DEF OrderSent
  <1>5. CASE ProcessEnds \/ PositionStep \/ BrokerStep
    BY <1>5 DEF ProcessEnds, PositionStep, BrokerStep, P!Next, P!Failures, P!Worker
  <1>6. CASE EnvironmentStep
    BY <1>6, SessionStep DEF EnvironmentStep, Environment, ActivateKillSwitch, DeactivateKillSwitch,
                             NewBar, Midnight, SwitchAccount
  <1>7. CASE UNCHANGED allVars
    BY <1>7, SessionStep DEF allVars, vars
  <1> QED BY <1>1, <1>2, <1>3, <1>4, <1>5, <1>6, <1>7 DEF ExposureNext

\* The two cycles, taking turns on one thread and sharing a session, each keep
\* to the module that describes it alone.
THEOREM CyclesCompose == ExposureSpec => CyclesKept
  <1>1. ExposureInit => Init /\ P!Init
    BY DEF ExposureInit
  <1> QED
    BY <1>1, TurnInit, TurnNext, TradingStep, PositionsStep, PTL
       DEF ExposureSpec, CyclesKept, Spec, P!Spec

-----------------------------------------------------------------------------
\* Room for orders

\* Positions that are known to be open have a row each, so there are no more
\* of them than rows.
LEMMA KnownPositions ==
    ASSUME P!Mirrored, NEW S \in SUBSET Tickets
    PROVE  Cardinality((P!OpenAtBroker \ unseen) \cap S) <= Cardinality(P!OpenRows \cap S)
  <1>1. (P!OpenAtBroker \ unseen) \cap S \subseteq P!OpenRows \cap S
    BY DEF P!Mirrored
  <1>2. IsFiniteSet(P!OpenRows \cap S)
    BY ExposureAssumption, FS_Subset DEF P!OpenRows
  <1> QED BY <1>1, <1>2, FS_Subset

\* An order is sent only where both limits leave room.
LEMMA RoomForOrder ==
    ASSUME TurnInv, P!Mirrored, OrderSent
    PROVE  /\ Cardinality(P!OpenAtBroker \ unseen) < MaxOpenPositions
           /\ Cardinality((P!OpenAtBroker \ unseen) \cap TradedSymbol) < MaxPerSymbol
  <1>1. RoomToOpen /\ RoomInSymbol
    BY DEF OrderSent, SendOrder, TurnInv, RoomSteps, SymbolRoomSteps, TrySteps
  <1>2. /\ IsFiniteSet(P!OpenRows) /\ IsFiniteSet(P!OpenAtBroker \ unseen)
        /\ P!OpenRows \cap Tickets = P!OpenRows
        /\ (P!OpenAtBroker \ unseen) \cap Tickets = P!OpenAtBroker \ unseen
    BY ExposureAssumption, FS_Subset DEF P!OpenRows, P!OpenAtBroker
  <1>3. /\ Cardinality(P!OpenAtBroker \ unseen) <= Cardinality(P!OpenRows)
        /\ Cardinality((P!OpenAtBroker \ unseen) \cap TradedSymbol)
             <= Cardinality(P!OpenRows \cap TradedSymbol)
    BY <1>2, KnownPositions, ExposureAssumption
  <1>4. /\ IsFiniteSet(P!OpenRows \cap TradedSymbol)
        /\ IsFiniteSet((P!OpenAtBroker \ unseen) \cap TradedSymbol)
    BY <1>2, FS_Subset
  <1>5. /\ Cardinality(P!OpenAtBroker \ unseen) \in Nat /\ Cardinality(P!OpenRows) \in Nat
        /\ Cardinality((P!OpenAtBroker \ unseen) \cap TradedSymbol) \in Nat
        /\ Cardinality(P!OpenRows \cap TradedSymbol) \in Nat
    BY <1>2, <1>4, FS_CardinalityType
  <1> QED BY <1>1, <1>3, <1>5, ExposureAssumption DEF RoomToOpen, RoomInSymbol

\* The instance of the proofs speaks of the same formulas as P.
LEMMA SameFormulas ==
    /\ P!Init <=> Alone!Init
    /\ [P!Next]_P!vars <=> [Alone!Next]_Alone!vars
    /\ P!Mirrored <=> Alone!Mirrored
  <1>1. P!Init <=> Alone!Init
    BY DEF P!Init, Alone!Init
  <1>2. P!Mirrored <=> Alone!Mirrored
    BY DEF P!Mirrored, P!OpenAtBroker, P!OpenRows,
           Alone!Mirrored, Alone!OpenAtBroker, Alone!OpenRows
  <1>3. P!ReadPositions <=> Alone!ReadPositions
    BY DEF P!ReadPositions, P!OpenAtBroker, Alone!ReadPositions, Alone!OpenAtBroker
  <1>4. P!Worker <=> Alone!Worker
    BY <1>3
       DEF P!Worker, P!StartRecovery, P!BeginCycle, P!UpsertRows, P!AfterUpsert,
           P!ReadForLifecycle, P!OpenAtBroker, P!CloseMissing, P!OpenRows,
           Alone!Worker, Alone!StartRecovery, Alone!BeginCycle, Alone!UpsertRows,
           Alone!AfterUpsert, Alone!ReadForLifecycle, Alone!OpenAtBroker, Alone!CloseMissing,
           Alone!OpenRows
  <1>5. P!Failures <=> Alone!Failures
    BY DEF P!Failures, P!CycleRaises, P!SessionPoisoned, P!Crash,
           Alone!Failures, Alone!CycleRaises, Alone!SessionPoisoned, Alone!Crash
  <1>6. P!Broker <=> Alone!Broker
    BY DEF P!Broker, P!OpenPosition, P!ClosePosition,
           Alone!Broker, Alone!OpenPosition, Alone!ClosePosition
  <1> QED BY <1>1, <1>2, <1>4, <1>5, <1>6 DEF P!Next, P!vars, Alone!Next, Alone!vars

\* For any limits, any number of positions and any failures, an order finds
\* room among the positions the worker has had a chance to know of.
THEOREM RoomRespected == ExposureSpec => OrdersLeaveRoom
  <1>1. P!Init => Alone!IInv
    BY SameFormulas, Alone!InitInv, ExposureAssumption DEF Alone!LostReadsAssumption
  <1>2. Alone!IInv /\ [P!Next]_P!vars => Alone!IInv'
    BY SameFormulas, Alone!NextInv, ExposureAssumption DEF Alone!LostReadsAssumption
  <1>3. Alone!IInv => P!Mirrored
    BY SameFormulas DEF Alone!IInv
  <1>4. ASSUME TurnInv, P!Mirrored, [ExposureNext]_allVars
        PROVE  [broker' # broker =>
                  /\ Cardinality(P!OpenAtBroker \ unseen) < MaxOpenPositions
                  /\ Cardinality((P!OpenAtBroker \ unseen) \cap TradedSymbol) < MaxPerSymbol]_allVars
    <2>1. CASE OrderSent
      BY <1>4, <2>1, RoomForOrder
    <2>2. CASE ~OrderSent
      <3>1. UNCHANGED broker
        BY <1>4, <2>2
           DEF ExposureNext, StartProcess, Start, ProcessEnds, Crash, cycleVars, PollBar,
               PollNewCandle, CycleStep, CheckKillSwitch, ViolatedLimit, CollectData, IngestCandle,
               IngestNothing, GuardDataQuality, Judge, RunExecutionGate, RunApprovalEngine,
               RefuseExecution, BeginExecution, SubmitOrder, OrderCheckFailed, SendRefused,
               RecordResult, HandleExecutionError, StepRaises, IngestRaises, ExecutionRaises,
               CheckLimits, LimitsRespected, Filter, RunFilters, SessionLost, SessionPoisoned,
               PositionStep, BrokerStep, EnvironmentStep, Environment, ActivateKillSwitch,
               DeactivateKillSwitch, NewBar, Midnight, SwitchAccount, allVars, vars
      <3> QED BY <3>1
    <2> QED BY <2>1, <2>2
  <1> QED
    BY <1>1, <1>2, <1>3, <1>4, CyclesCompose, TurnInit, TurnNext, PTL
       DEF ExposureSpec, CyclesKept, P!Spec, OrdersLeaveRoom
=============================================================================
