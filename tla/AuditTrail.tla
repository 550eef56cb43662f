----------------------------- MODULE AuditTrail -----------------------------
(***************************************************************************)
(* What a trading cycle leaves in engine_runs and trade_journals:          *)
(*                                                                         *)
(*   TradingOrchestrator -> EngineAuditService -> a step of the pipeline   *)
(*                       -> RejectionJournalService                        *)
(*                                                                         *)
(* together with the position cycle of PositionSync, which runs in turn    *)
(* with it on the listener thread and on the same database session.  The   *)
(* steps up to ApprovalEngine are one step here, "Checks".                 *)
(***************************************************************************)
EXTENDS PositionSync

CONSTANT MaxCycles      \* bound: trading cycles that get into the database

ASSUME CyclesAssumption == MaxCycles \in Nat

VARIABLES
    cycle,      \* the latest cycle
    mine,       \* cycles of the running process
    step,       \* the step run_cycle is at
    phase,      \* where run_cycle and run_and_audit are with it
    audit,      \* engine_runs: the last status of each cycle and step
    journal,    \* trade_journals of the pipeline
    orderResult,\* status of the order_result in the context of the cycle
    sent        \* cycles whose order the broker was asked to fill, and did

auditVars == <<cycle, mine, step, phase, audit, journal, orderResult, sent>>
allVars == <<vars, auditVars>>

-----------------------------------------------------------------------------

Cycles == 1..MaxCycles
Steps  == {"Checks", "ExecutionEngine", "TradeJournalEngine", "RuntimeStateUpdater"}

\* PIPELINE_STEP_ORDER
After == [Checks             |-> "ExecutionEngine",
          ExecutionEngine    |-> "TradeJournalEngine",
          TradeJournalEngine |-> "RuntimeStateUpdater"]

\* "next": the step's RUNNING row comes next; "running": it is in the database;
\* then what the step did, and what of it run_cycle has yet to journal.
Phases == {"idle", "next", "running", "passed", "rejects", "raises", "rejected", "fatal"}

Statuses == {"none", "RUNNING", "SUCCESS", "REJECTED", "FAILED"}
Entries  == {"PIPELINE_REJECTION", "PIPELINE_FATAL", "EXECUTION_DECISION", "ORDER_EXECUTION"}
Results  == {"none", "FILLED", "DRY_RUN"}

\* An entry of the current step.  The order's own entry gives its order_status.
Entry(type) ==
    [cycle |-> cycle, step |-> step, type |-> type,
     status |-> IF type = "ORDER_EXECUTION" THEN orderResult ELSE "none"]

\* TradeJournalEngine writes about the order only if there is an order_result.
OrderEntries == IF orderResult = "none" THEN {} ELSE {Entry("ORDER_EXECUTION")}

SetAudit(status) == audit' = [audit EXCEPT ![<<cycle, step>>] = status]

\* A transaction of the cycle ends, and the cycle goes on to next.  If the
\* commit raises, what it wrote is there or not, the session can no longer be
\* used, and whatever the cycle has left to write fails as well.  The context
\* goes with the cycle.
Commits(next) ==
    /\ \/ phase' = next /\ UNCHANGED session
       \/ phase' = "idle" /\ session' = "poisoned"
    /\ orderResult' = IF phase' = "idle" THEN "none" ELSE orderResult

AuditInit ==
    /\ Init
    /\ cycle = 0
    /\ mine = {}
    /\ step = "Checks"
    /\ phase = "idle"
    /\ audit = [r \in Cycles \X Steps |-> "none"]
    /\ journal = {}
    /\ orderResult = "none"
    /\ sent = {}

positionVars == <<market, rows, closings, task, answer, lost, unseen, lostReads>>

-----------------------------------------------------------------------------
\* run_cycle and run_and_audit

\* A new bar.  On a poisoned session the first RUNNING row already raises, and
\* the cycle leaves nothing at all.
BeginTradingCycle ==
    /\ phase = "idle"
    /\ task = "idle"
    /\ session = "clean"
    /\ cycle < MaxCycles
    /\ cycle' = cycle + 1
    /\ mine' = mine \cup {cycle'}
    /\ step' = "Checks"
    /\ audit' = [audit EXCEPT ![<<cycle', "Checks">>] = "RUNNING"]
    /\ Commits("running")
    /\ UNCHANGED <<positionVars, journal, sent>>

OpenStep ==
    /\ phase = "next"
    /\ SetAudit("RUNNING")
    /\ Commits("running")
    /\ UNCHANGED <<positionVars, cycle, mine, step, journal, sent>>

\* A step rejects the context, or raises: an exception that is not the
\* database's leaves the session usable.
StepEnds ==
    /\ phase = "running"
    /\ \/ step = "Checks" /\ phase' \in {"passed", "rejects", "raises"}
       \/ step # "Checks" /\ phase' = "raises"
       \/ step = "RuntimeStateUpdater" /\ phase' = "passed"
    /\ UNCHANGED <<vars, cycle, mine, step, audit, journal, orderResult, sent>>

\* ExecutionEngine passes with an order that is recorded as filled, and with a
\* DRY_RUN decision, which is the default, for which it sends nothing.  All else
\* it rejects, its own exception handler too, whatever became of the order;
\* what order_result a rejected context holds no later step reads.
ExecuteOrder ==
    /\ phase = "running"
    /\ step = "ExecutionEngine"
    /\ \/ sent' = sent \cup {cycle} /\ orderResult' = "FILLED" /\ phase' = "passed"
       \/ UNCHANGED sent /\ orderResult' = "DRY_RUN" /\ phase' = "passed"
       \/ sent' \in {sent, sent \cup {cycle}} /\ UNCHANGED orderResult /\ phase' = "rejects"
    /\ UNCHANGED <<vars, cycle, mine, step, audit, journal>>

\* Mutant: the order is left out of the journal.
JournalDecisionOnly ==
    /\ phase = "running"
    /\ step = "TradeJournalEngine"
    /\ journal' = journal \cup {Entry("EXECUTION_DECISION")}
    /\ Commits("passed")
    /\ UNCHANGED <<positionVars, cycle, mine, step, audit, sent>>

\* TradeJournalEngine: a cycle that gets here has a decision and is not rejected.
JournalOrder ==
    /\ phase = "running"
    /\ step = "TradeJournalEngine"
    /\ journal' = journal \cup {Entry("EXECUTION_DECISION")} \cup OrderEntries
    /\ Commits("passed")
    /\ UNCHANGED <<positionVars, cycle, mine, step, audit, sent>>

CloseStep ==
    /\ phase = "passed"
    /\ SetAudit("SUCCESS")
    /\ IF step = "RuntimeStateUpdater"
       THEN Commits("idle") /\ UNCHANGED step
       ELSE Commits("next") /\ step' = After[step]
    /\ UNCHANGED <<positionVars, cycle, mine, journal, sent>>

CloseRejected ==
    /\ phase = "rejects"
    /\ SetAudit("REJECTED")
    /\ Commits("rejected")
    /\ UNCHANGED <<positionVars, cycle, mine, step, journal, sent>>

\* What the failing step had flushed is committed with its FAILED row.
Flushed ==
    IF step = "TradeJournalEngine"
    THEN {{}, {Entry("EXECUTION_DECISION")},
          {Entry("EXECUTION_DECISION")} \cup OrderEntries}
    ELSE {{}}

CloseFailed ==
    /\ phase = "raises"
    /\ SetAudit("FAILED")
    /\ \E entries \in Flushed : journal' = journal \cup entries
    /\ Commits("fatal")
    /\ UNCHANGED <<positionVars, cycle, mine, step, sent>>

\* RejectionJournalService, called after the audit row is committed.
JournalRejection ==
    /\ phase = "rejected"
    /\ journal' = journal \cup {Entry("PIPELINE_REJECTION")}
    /\ Commits("idle")
    /\ UNCHANGED <<positionVars, cycle, mine, step, audit, sent>>

\* Mutant: run_cycle breaks off without a word.
ForgetFatal ==
    /\ phase = "fatal"
    /\ phase' = "idle"
    /\ orderResult' = "none"
    /\ UNCHANGED <<vars, cycle, mine, step, audit, journal, sent>>

JournalFatal ==
    /\ phase = "fatal"
    /\ journal' = journal \cup {Entry("PIPELINE_FATAL")}
    /\ Commits("idle")
    /\ UNCHANGED <<positionVars, cycle, mine, step, audit, sent>>

\* Mutant: run_cycle rolls the session back and goes on with the next bar.
DatabaseErrorRolledBack ==
    /\ phase # "idle"
    /\ phase' = "idle"
    /\ orderResult' = "none"
    /\ UNCHANGED <<vars, cycle, mine, step, audit, journal, sent>>

\* The database raises before the commit: the FAILED row and the journal entry
\* raise too, and the latter's exception is only logged.
DatabaseError ==
    /\ phase # "idle"
    /\ phase' = "idle"
    /\ orderResult' = "none"
    /\ session' = "poisoned"
    /\ UNCHANGED <<positionVars, cycle, mine, step, audit, journal, sent>>

-----------------------------------------------------------------------------
\* The listener thread runs one cycle at a time

PositionStep ==
    /\ phase = "idle"
    /\ Worker \/ CycleRaises
    /\ UNCHANGED auditVars

\* A bar that comes while the session is poisoned, or a cycle whose first row
\* cannot be written.
LostBar ==
    /\ phase = "idle"
    /\ SessionPoisoned
    /\ UNCHANGED auditVars

ProcessEnds ==
    /\ Crash
    /\ phase' = "idle"
    /\ orderResult' = "none"
    /\ mine' = {}
    /\ UNCHANGED <<cycle, step, audit, journal, sent>>

BrokerStep == Broker /\ UNCHANGED auditVars

TradingStep ==
    \/ BeginTradingCycle \/ OpenStep \/ StepEnds \/ ExecuteOrder \/ JournalOrder
    \/ CloseStep \/ CloseRejected \/ CloseFailed \/ JournalRejection \/ JournalFatal

AuditNext == TradingStep \/ DatabaseError \/ PositionStep \/ LostBar \/ ProcessEnds \/ BrokerStep

AuditSpec == AuditInit /\ [][AuditNext]_allVars

\* The listener thread goes on with the cycle it runs, and comes to on_tick in
\* every round of its loop.
AuditFairSpec ==
    AuditSpec /\ WF_allVars(phase # "idle" /\ TradingStep) /\ WF_allVars(PositionStep)

\* A step in which nothing fails: no request is lost and the session stays usable.
SteadyStep ==
    \/ TradingStep /\ UNCHANGED session
    \/ phase = "idle" /\ SteadyNext /\ UNCHANGED auditVars
    \/ BrokerStep
-----------------------------------------------------------------------------
\* Properties

Endings == {"PIPELINE_REJECTION", "PIPELINE_FATAL"}

\* The tables tell how cycle c ended.
Told(c) ==
    \/ \E e \in journal : e.cycle = c /\ e.type \in Endings
    \/ audit[<<c, "RuntimeStateUpdater">>] = "SUCCESS"

\* Of the cycles a process has got into the database only the last can lack
\* its ending, although errors while journaling are swallowed: a database error
\* that loses an ending stops all later cycles from leaving a row.
OnlyLastUntold == \A c, d \in mine : c < d => Told(c)

Has(c, s, type, status) ==
    [cycle |-> c, step |-> s, type |-> type, status |-> status] \in journal

\* The journal tells of the order of cycle c: the order's own entry, the rejection
\* of ExecutionEngine, or the failure of the step that writes the entry.
Traced(c) ==
    \/ Has(c, "TradeJournalEngine", "ORDER_EXECUTION", "FILLED")
    \/ Has(c, "ExecutionEngine", "PIPELINE_REJECTION", "none")
    \/ Has(c, "TradeJournalEngine", "PIPELINE_FATAL", "none")

\* A cycle that sent an order and whose ending is told says so in the journal.
\* An order entry of status FILLED stands for an order that was sent; one of a
\* cycle that sent none, a dry run, says DRY_RUN.
OrdersTold ==
    /\ \A c \in sent : Told(c) => Traced(c)
    /\ \A e \in journal : e.type = "ORDER_EXECUTION" =>
         e.status = IF e.cycle \in sent THEN "FILLED" ELSE "DRY_RUN"

\* A cycle in progress comes to an ending that is told, unless the database
\* fails or the process ends first.
CyclesTold ==
    \A c \in Cycles :
        (cycle = c /\ phase # "idle") ~> (Told(c) \/ session = "poisoned" \/ task = "down")

\* Once nothing fails any more the positions table catches up with the broker,
\* although the position cycles wait for the trading cycles of the same thread
\* and share their session.
TableSettles ==
    <>[](session = "clean") /\ <>[][SteadyStep]_allVars => TableCatchesUp

-----------------------------------------------------------------------------
\* The inductive invariant behind OnlyLastUntold and OrdersTold

AuditTypeOK ==
    /\ cycle \in 0..MaxCycles
    /\ mine \subseteq 1..cycle
    /\ step \in Steps
    /\ phase \in Phases
    /\ audit \in [Cycles \X Steps -> Statuses]
    /\ journal \subseteq [cycle : 1..cycle, step : Steps, type : Entries, status : Results]
    /\ orderResult \in Results
    /\ sent \subseteq 1..cycle

\* While a cycle runs no position cycle does and the session can be used.
OneAtATime == phase # "idle" => task = "idle" /\ session = "clean" /\ cycle \in mine

\* No cycle is told before it ends, and one that ended on a usable session is.
EndingInv ==
    /\ \A c \in mine : c < cycle => Told(c)
    /\ phase = "idle" /\ session = "clean" /\ cycle \in mine => Told(cycle)
    /\ phase # "idle" => ~Told(cycle)
    /\ \A c \in Cycles : c > cycle => audit[<<c, "RuntimeStateUpdater">>] = "none"

\* The order_result of the cycle is the one of a sent order or of a dry run.
ResultTells == orderResult = IF cycle \in sent THEN "FILLED" ELSE "DRY_RUN"

NoOrderEntry == \A e \in journal : e.type = "ORDER_EXECUTION" => e.cycle # cycle

\* Where the cycle is says whether it sent an order, whether its context tells of
\* it, and whether that is journaled.
OrderInv ==
    phase # "idle" =>
        /\ step = "Checks" => cycle \notin sent
        /\ step \in {"Checks", "ExecutionEngine"} => NoOrderEntry
        /\ step = "ExecutionEngine" /\ phase \notin {"passed", "rejects", "rejected"} =>
             cycle \notin sent
        /\ step = "ExecutionEngine" /\ phase = "passed" => ResultTells
        /\ step \in {"TradeJournalEngine", "RuntimeStateUpdater"} =>
             ResultTells /\ phase \notin {"rejects", "rejected"}
        /\ step = "RuntimeStateUpdater" \/ (step = "TradeJournalEngine" /\ phase = "passed") =>
             Has(cycle, "TradeJournalEngine", "ORDER_EXECUTION", orderResult)

AuditIInv == AuditTypeOK /\ OneAtATime /\ EndingInv /\ OrderInv /\ OrdersTold

=============================================================================
