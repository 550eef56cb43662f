--------------------------- MODULE PaperPipeline ----------------------------
(***************************************************************************)
(* The API of the paper pipeline: ApiShellService and, behind it, one      *)
(* PipelineOrchestratorService with its order store, journal and report.   *)
(* Routes are plain functions, so FastAPI runs requests in threads of one  *)
(* process; they share the service, its stores and its last_* fields, and  *)
(* nothing is locked.  A run is a request and its way through the stages.  *)
(***************************************************************************)
EXTENDS PaperDecision, SequencesExt

CONSTANTS
    Runs,       \* requests to POST /pipeline/run
    Cases,      \* datasets and figures a request may come with
    Settings,   \* storage backends and strictness the process may start with
    Ledgers     \* profits of the closed trades the journals may start with

SettingsType == [orders: {"memory", "db"}, journal: {"file", "db"}, strict: BOOLEAN]

ASSUME PaperAssumption ==
    /\ Cases \subseteq CaseType
    /\ \A c \in Cases : Exact(c)
    /\ Settings \subseteq SettingsType
    /\ Ledgers \subseteq Seq(Int \ {0})  \* stop and target are off the entry: no closed trade breaks even
    /\ NONE \notin Runs

VARIABLES
    backend,    \* the stores of the running process, or DOWN
    run,        \* where each run is and what it holds
    orders,     \* status of the run's paper order, by store
    journal,    \* entries, by store
    report,     \* the report file: its numbers and the run that wrote it
    last,       \* last_run_at, last_decision, last_run_result: the run they are of
    \* history, read by no guard
    overlapped  \* since a run last started alone, another was in flight with it

paperVars == <<backend, run, orders, journal, report, last, overlapped>>

-----------------------------------------------------------------------------

OrderStores == {"memory", "db"}
JournalStores == {"file", "db"}

DOWN == [down |-> TRUE]
None == [none |-> TRUE]

\* The shared state a stage is about to read or write names the position.
Working == {"paper_execution", "position_monitor", "trade_journal", "performance_analyzer",
            "persist_report"}
Answering == {"record_run_at", "record_decision", "record_result"}
Positions == {"new", "answered", "killed"} \cup Working \cup Answering

InFlight == {r \in Runs : run[r].at \in Working \cup Answering}

NoLast == [runAt |-> NONE, decision |-> NONE, result |-> NONE]

\* An entry of a run long ago.
Earlier(pnl) == [run |-> NONE, decision |-> "APPROVE", orderState |-> "CLOSED",
                 result |-> "CLOSED", pnl |-> pnl]

Init ==
    /\ backend = DOWN
    /\ run = [r \in Runs |-> [at |-> "new", decision |-> NONE, case |-> None, failedAt |-> NONE, read |-> 0]]
    /\ orders = [s \in OrderStores |-> [r \in Runs |-> NONE]]
    /\ \E pnls \in Ledgers : journal = [s \in JournalStores |-> [i \in DOMAIN pnls |-> Earlier(pnls[i])]]
    /\ report = None
    /\ last = NoLast
    /\ overlapped = FALSE

\* build_pipeline_orchestrator_from_settings creates tables for a db backend;
\* if that raises, a process that is not strict goes on without database.
Boot ==
    /\ backend = DOWN
    /\ \E s \in Settings :
          \/ backend' = [orders |-> s.orders, journal |-> s.journal]
          \/ /\ ~s.strict
             /\ "db" \in {s.orders, s.journal}
             /\ backend' = [orders |-> "memory", journal |-> "file"]
    /\ UNCHANGED <<run, orders, journal, report, last, overlapped>>

\* The process ends, and all that it only remembers is gone.
ProcessEnds ==
    /\ backend # DOWN
    /\ backend' = DOWN
    /\ run' = [r \in Runs |-> IF r \in InFlight THEN [run[r] EXCEPT !.at = "killed"] ELSE run[r]]
    /\ orders' = [orders EXCEPT !["memory"] = [r \in Runs |-> NONE]]
    /\ last' = NoLast
    /\ overlapped' = FALSE
    /\ UNCHANGED <<journal, report>>

-----------------------------------------------------------------------------
\* The stages of PipelineOrchestratorService.run

\* What saving an order, or its new status, and an entry makes of the stores.
OrdersWith(r, status) == [orders EXCEPT ![backend.orders][r] = status]
JournalWith(entry) == [journal EXCEPT ![backend.journal] = Append(@, entry)]

Approved(r) == run[r].decision = "APPROVE"

\* A request and its stages from market_data to execution_gate.  Of the case
\* only the decision matters from here on, unless an order is made of it.
Receive(r) ==
    /\ backend # DOWN
    /\ run[r].at = "new"
    /\ \E c \in Cases :
          IF FailsAt(c) # NONE
          THEN run' = [run EXCEPT ![r].at = "record_run_at", ![r].failedAt = FailsAt(c)]
          ELSE run' = [run EXCEPT ![r].at = "paper_execution", ![r].decision = Decision(c),
                                  ![r].case = IF Decision(c) = "APPROVE" THEN c ELSE None]
    /\ overlapped' = (InFlight # {})
    /\ UNCHANGED <<backend, orders, journal, report, last>>

\* create_order refuses all but approved decisions, which is no failure.
CreateOrder(r) ==
    /\ run[r].at = "paper_execution"
    /\ IF Approved(r)
       THEN /\ orders' = OrdersWith(r, "OPEN")
            /\ run' = [run EXCEPT ![r].at = "position_monitor"]
       ELSE /\ run' = [run EXCEPT ![r].at = "trade_journal"]
            /\ UNCHANGED orders
    /\ UNCHANGED <<backend, journal, report, last, overlapped>>

\* Mutant: the new state stays with the monitor.
MonitorUnsynced(r) ==
    /\ run[r].at = "position_monitor"
    /\ run' = [run EXCEPT ![r].at = "trade_journal"]
    /\ UNCHANGED <<backend, orders, journal, report, last, overlapped>>

\* PositionMonitorService.update on the dataset's last candle, which is the
\* one the order was entered on, then sync_position_state.
MonitorPosition(r) ==
    /\ run[r].at = "position_monitor"
    /\ orders' = OrdersWith(r, MonitoredStatus(run[r].case.market))
    /\ run' = [run EXCEPT ![r].at = "trade_journal"]
    /\ UNCHANGED <<backend, journal, report, last, overlapped>>

\* The monitor changes the order it was given only if the store is memory,
\* where order and stored order are one object.
Entry(r) ==
    IF ~Approved(r)
    THEN [run |-> r, decision |-> run[r].decision, orderState |-> NONE, result |-> NONE, pnl |-> 0]
    ELSE LET c      == run[r].case
             status == MonitoredStatus(c.market)
         IN  [run |-> r, decision |-> "APPROVE",
              orderState |-> IF backend.orders = "db" THEN "OPEN" ELSE status,
              result |-> status, pnl |-> IF status = "CLOSED" THEN RealizedPnl(c) ELSE 0]

WriteEntry(r) ==
    /\ run[r].at = "trade_journal"
    /\ journal' = JournalWith(Entry(r))
    /\ run' = [run EXCEPT ![r].at = "performance_analyzer"]
    /\ UNCHANGED <<backend, orders, report, last, overlapped>>

\* In a file in order of writing, in the database in order of id.
EntriesStored == Len(journal[backend.journal])

\* Mutant: the entries are always read from the file.
ReadFile(r) ==
    /\ run[r].at = "performance_analyzer"
    /\ \E next \in {"persist_report", "record_run_at"} :
          run' = [run EXCEPT ![r].at = next, ![r].read = Len(journal["file"])]
    /\ UNCHANGED <<backend, orders, journal, report, last, overlapped>>

\* Entries are only ever appended, so how many were read says which.  The
\* request says whether the report is wanted as a file.
ReadEntries(r) ==
    /\ run[r].at = "performance_analyzer"
    /\ \E next \in {"persist_report", "record_run_at"} :
          run' = [run EXCEPT ![r].at = next, ![r].read = EntriesStored]
    /\ UNCHANGED <<backend, orders, journal, report, last, overlapped>>

\* PerformanceAnalyzerService.analyze
ClosedPnls(entries) ==
    FoldLeft(LAMBDA pnls, e : IF e.result = "CLOSED" THEN Append(pnls, e.pnl) ELSE pnls,
             <<>>, entries)

Drop(acc, equity) ==
    LET peak == IF equity > acc.peak THEN equity ELSE acc.peak
    IN  [equity |-> equity, peak |-> peak,
         worst |-> IF peak - equity > acc.worst THEN peak - equity ELSE acc.worst]

FromFirst(pnls) == [equity |-> 0, peak |-> Head(pnls), worst |-> 0]

\* Mutant: the profits themselves for the equity curve.
DrawdownOfPnls(pnls) ==
    IF pnls = <<>> THEN 0
    ELSE FoldLeft(LAMBDA acc, pnl : Drop(acc, pnl), FromFirst(pnls), pnls).worst

\* _calculate_max_drawdown: the first peak is the equity after the first trade.
MaxDrawdown(pnls) ==
    IF pnls = <<>> THEN 0
    ELSE FoldLeft(LAMBDA acc, pnl : Drop(acc, acc.equity + pnl), FromFirst(pnls), pnls).worst

Analyzed(entries) ==
    LET pnls == ClosedPnls(entries)
        Count(seq, Test(_)) == Cardinality({i \in DOMAIN seq : Test(seq[i])})
    IN  [total     |-> Len(entries),
         rejected  |-> Count(entries, LAMBDA e : e.decision = "REJECT"),
         closed    |-> Len(pnls),
         wins      |-> Count(pnls, LAMBDA pnl : pnl > 0),
         losses    |-> Count(pnls, LAMBDA pnl : pnl < 0),
         drawdown  |-> MaxDrawdown(pnls)]

\* The file is replaced, whatever it says.
PersistReport(r) ==
    /\ run[r].at = "persist_report"
    /\ report' = [by |-> r, of |-> backend.journal,
                  numbers |-> Analyzed(SubSeq(journal[backend.journal], 1, run[r].read))]
    /\ run' = [run EXCEPT ![r].at = "record_run_at"]
    /\ UNCHANGED <<backend, orders, journal, last, overlapped>>

\* A store raises.  What it was asked to write may have been written.
StageFails(r) ==
    /\ run[r].at \in Working
    /\ run[r].at \in {"paper_execution", "position_monitor"} => backend.orders = "db" /\ Approved(r)
    /\ run' = [run EXCEPT ![r].at = "record_run_at", ![r].failedAt = run[r].at]
    /\ UNCHANGED <<backend, last, overlapped>>
    /\ \/ UNCHANGED <<orders, journal, report>>
       \/ /\ run[r].at = "paper_execution"
          /\ orders' = OrdersWith(r, "OPEN")
          /\ UNCHANGED <<journal, report>>
       \/ /\ run[r].at = "position_monitor"
          /\ orders' = OrdersWith(r, MonitoredStatus(run[r].case.market))
          /\ UNCHANGED <<journal, report>>
       \/ /\ run[r].at = "trade_journal"
          /\ journal' = JournalWith(Entry(r))
          /\ UNCHANGED <<orders, report>>
       \/ /\ run[r].at = "persist_report"
          /\ report' = None
          /\ UNCHANGED <<orders, journal>>

-----------------------------------------------------------------------------
\* ApiShellService.run_pipeline, after the run

RecordRunAt(r) ==
    /\ run[r].at = "record_run_at"
    /\ last' = [last EXCEPT !.runAt = r]
    /\ run' = [run EXCEPT ![r].at = "record_decision"]
    /\ UNCHANGED <<backend, orders, journal, report, overlapped>>

\* Mutant: a failed run, which has no decision, does not replace one.
RecordDecisionIfAny(r) ==
    /\ run[r].at = "record_decision"
    /\ last' = IF run[r].failedAt = NONE THEN [last EXCEPT !.decision = r] ELSE last
    /\ run' = [run EXCEPT ![r].at = "record_result"]
    /\ UNCHANGED <<backend, orders, journal, report, overlapped>>

RecordDecision(r) ==
    /\ run[r].at = "record_decision"
    /\ last' = [last EXCEPT !.decision = r]
    /\ run' = [run EXCEPT ![r].at = "record_result"]
    /\ UNCHANGED <<backend, orders, journal, report, overlapped>>

RecordResult(r) ==
    /\ run[r].at = "record_result"
    /\ last' = [last EXCEPT !.result = r]
    /\ run' = [run EXCEPT ![r].at = "answered"]
    /\ UNCHANGED <<backend, orders, journal, report, overlapped>>

-----------------------------------------------------------------------------

Stage(r) ==
    \/ Receive(r) \/ CreateOrder(r) \/ MonitorPosition(r)
    \/ WriteEntry(r) \/ ReadEntries(r) \/ PersistReport(r)
    \/ RecordRunAt(r) \/ RecordDecision(r) \/ RecordResult(r)

Next == Boot \/ ProcessEnds \/ \E r \in Runs : Stage(r) \/ StageFails(r)

Spec == Init /\ [][Next]_paperVars
-----------------------------------------------------------------------------
\* Properties

Stored(r, s) == orders[s][r] # NONE

IsEntry(r, s, i) == i \in DOMAIN journal[s] /\ journal[s][i].run = r

HasEntry(r) == \E s \in JournalStores : \E i \in DOMAIN journal[s] : IsEntry(r, s, i)

\* Stages that each look at one thing add up to a policy none of them states:
\* a paper order goes with a trend, its stop and target enclose the entry, it
\* risks less than 0.9 percent of the balance, and with the losses of the day
\* no more than 3.
OrdersSound ==
    \A r \in Runs, s \in OrderStores : Stored(r, s) =>
        LET m == run[r].case.market
            q == run[r].case.request
        IN  /\ \/ Regime(m) = "TREND_UP" /\ StopLoss(m) < m.close /\ m.close < TakeProfit(m)
               \/ Regime(m) = "TREND_DOWN" /\ TakeProfit(m) < m.close /\ m.close < StopLoss(m)
            /\ q.risk < 9
            /\ 1000 * (q.dailyLoss + RiskAmount(q)) <= 30 * q.balance

\* Whichever stores are in use, and whatever fails between them: a run has at
\* most one entry, which tells the status its stored order has; one reported
\* as accepted has exactly one; and an order without an entry belongs to a run
\* that is on its way, was killed or is reported as failed.
JournalTellsOrders ==
    \A r \in Runs :
        /\ \A s, t \in JournalStores : \A i \in DOMAIN journal[s], j \in DOMAIN journal[t] :
              IsEntry(r, s, i) /\ IsEntry(r, t, j) => s = t /\ i = j
        /\ run[r].at = "answered" /\ run[r].failedAt = NONE => HasEntry(r)
        /\ \A o \in OrderStores : Stored(r, o) =>
              IF HasEntry(r)
              THEN \A s \in JournalStores : \A i \in DOMAIN journal[s] :
                      IsEntry(r, s, i) => journal[s][i].result = orders[o][r]
              ELSE r \in InFlight \/ run[r].at = "killed" \/ run[r].failedAt # NONE

\* A report written while other runs append to the journal still counts the
\* entry of the run that wrote it, and counts no entry twice.
ReportCountsItsRun ==
    report # None =>
        LET n == report.numbers
        IN  /\ \E i \in 1 .. n.total : IsEntry(report.by, report.of, i)
            /\ n.closed + n.rejected <= n.total
            /\ n.wins + n.losses = n.closed

Total(pnls) == FoldLeft(LAMBDA sum, pnl : sum + pnl, 0, pnls)
Equity(pnls, i) == Total(SubSeq(pnls, 1, i))

\* The drawdown reported is the deepest fall of the equity curve, from any
\* trade to a later one.
DrawdownIsWorstFall ==
    report # None =>
        LET pnls == ClosedPnls(SubSeq(journal[report.of], 1, report.numbers.total))
            falls == UNION {{Equity(pnls, i) - Equity(pnls, j) : j \in i .. Len(pnls)} : i \in DOMAIN pnls}
        IN  /\ \A fall \in falls : fall <= report.numbers.drawdown
            /\ report.numbers.drawdown \in falls \cup {0}

\* A paper trade is never booked better than the candle allows: not as a profit
\* if the stop was within the candle, and with no loss beyond the planned one.
LossesAssumed ==
    \A r \in Runs, s \in JournalStores : \A i \in DOMAIN journal[s] :
        LET c == run[r].case
            e == journal[s][i]
        IN  IsEntry(r, s, i) /\ e.result = "CLOSED" =>
                /\ e.pnl > 0 => ~StopHit(c.market)
                /\ e.pnl >= -RiskAmount(c.request)

\* GET /pipeline/status and /pipeline/last-run speak of one run, unless it
\* shared the process with another: the three fields are set one by one.
StatusOfOneRun ==
    InFlight = {} /\ ~overlapped => last.runAt = last.decision /\ last.decision = last.result
-----------------------------------------------------------------------------
\* The inductive invariant behind the properties

Decisions == {NONE, "APPROVE", "REDUCE_RISK", "WAIT", "REJECT"}
Stages == {"market_data", "ohlcv_validation", "market_regime", "strategy_engine",
           "signal_contract", "risk_engine"} \cup Working
Statuses == {NONE, "OPEN", "CLOSED"}

RunType == [at: Positions, decision: Decisions, case: Cases \cup {None},
            failedAt: Stages \cup {NONE}, read: Nat]

EntryType == [run: Runs \cup {NONE}, decision: Decisions, orderState: Statuses,
              result: Statuses, pnl: Int]

\* Every variable keeps to the values the code can give it.
TypeOK ==
    /\ backend \in {DOWN} \cup [orders: OrderStores, journal: JournalStores]
    /\ run \in [Runs -> RunType]
    /\ orders \in [OrderStores -> [Runs -> Statuses]]
    /\ journal \in [JournalStores -> Seq(EntryType)]
    /\ report # None => report.by \in Runs /\ report.of \in JournalStores
    /\ last \in [runAt: Runs \cup {NONE}, decision: Runs \cup {NONE}, result: Runs \cup {NONE}]
    /\ overlapped \in BOOLEAN

\* A run that has an order still has the case that was approved.
CaseInv ==
    \A r \in Runs :
        /\ Approved(r) => /\ run[r].case \in Cases
                          /\ FailsAt(run[r].case) = NONE
                          /\ Decision(run[r].case) = "APPROVE"
        /\ \A o \in OrderStores : Stored(r, o) => Approved(r)

\* What a run has left in the stores when it is at a stage.
StageOf(r) ==
    /\ r \in InFlight => backend # DOWN
    /\ run[r].at \in {"new"} \cup Working => run[r].failedAt = NONE
    /\ run[r].at = "new" => ~Approved(r)
    /\ run[r].at = "position_monitor" => Approved(r)
    /\ \A o \in OrderStores : Stored(r, o) =>
          /\ run[r].at # "paper_execution"
          /\ run[r].at = "position_monitor" => o = backend.orders
    /\ run[r].at \in {"new", "paper_execution", "position_monitor", "trade_journal"} => ~HasEntry(r)
    /\ run[r].at \in {"performance_analyzer", "persist_report"} => HasEntry(r)
    /\ run[r].at \in Answering \cup {"answered"} /\ run[r].failedAt = NONE => HasEntry(r)
    /\ run[r].at = "trade_journal" \/ HasEntry(r) =>
          \A o \in OrderStores : Stored(r, o) => orders[o][r] = MonitoredStatus(run[r].case.market)

StageInv == \A r \in Runs : StageOf(r)

\* An entry tells what became of its run's case, and no other is of that run.
EntryOf(r, s, i) ==
    /\ \A t \in JournalStores : \A j \in DOMAIN journal[t] : IsEntry(r, t, j) => s = t /\ i = j
    /\ Approved(r) => journal[s][i].result = MonitoredStatus(run[r].case.market)
    /\ journal[s][i].result = "CLOSED" => Approved(r) /\ journal[s][i].pnl = RealizedPnl(run[r].case)

EntryInv ==
    \A r \in Runs, s \in JournalStores : \A i \in DOMAIN journal[s] :
        IsEntry(r, s, i) => EntryOf(r, s, i)

\* A run that is alone finds the fields as it left them.
LastInv ==
    ~overlapped =>
        /\ \A r, q \in InFlight : r = q
        /\ InFlight = {} => last.runAt = last.decision /\ last.decision = last.result
        /\ \A r \in InFlight :
              /\ run[r].at \in {"record_decision", "record_result"} => last.runAt = r
              /\ run[r].at = "record_result" => last.decision = r

IInv == TypeOK /\ CaseInv /\ StageInv /\ EntryInv /\ LastInv

-----------------------------------------------------------------------------
\* What the reports add to it

\* Only approved trades are ever closed, and none breaks even.
ClosedInv ==
    \A s \in JournalStores : \A i \in DOMAIN journal[s] :
        journal[s][i].result = "CLOSED" => /\ journal[s][i].decision = "APPROVE"
                                           /\ journal[s][i].pnl # 0

\* The first n entries of a journal are written, and one of them is the run's.
Covers(r, s, n) ==
    /\ n \in 0 .. Len(journal[s])
    /\ \E i \in 1 .. n : IsEntry(r, s, i)

\* What a run reads includes its own entry, however many are appended since.
ReadInv ==
    \A r \in Runs :
        /\ run[r].at = "performance_analyzer" => Covers(r, backend.journal, EntriesStored)
        /\ run[r].at = "persist_report" => Covers(r, backend.journal, run[r].read)

\* The report still is what analysing the entries it counts would give.
WrittenInv ==
    report # None =>
        /\ Covers(report.by, report.of, report.numbers.total)
        /\ report.numbers = Analyzed(SubSeq(journal[report.of], 1, report.numbers.total))

ReportInv == ClosedInv /\ ReadInv /\ WrittenInv
=============================================================================
