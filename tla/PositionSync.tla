---------------------------- MODULE PositionSync ----------------------------
(***************************************************************************)
(* How the worker mirrors the broker's positions into its database:        *)
(*                                                                         *)
(*   startup recovery -> PositionSyncService                               *)
(*   on_tick -> PositionOrchestrator -> PositionSyncService                *)
(*                                   -> TradeLifecycleService              *)
(*                                                                         *)
(* A cycle asks the terminal for the open positions twice, once to write   *)
(* the rows of those it reports and once to close the rows of those it no  *)
(* longer reports.  A request that fails is answered with an empty list.   *)
(* Positions open and close at the broker at any time.                     *)
(***************************************************************************)
EXTENDS Integers, FiniteSets

CONSTANTS
    Tickets,        \* positions of the account, by MT5 ticket
    MaxLostReads    \* bound: requests for positions that fail

ASSUME LostReadsAssumption == MaxLostReads \in Nat

VARIABLES
    market,     \* what a position is at the broker: unborn, open or closed
    rows,       \* its status in the positions table, NONE without a row
    closings,   \* POSITION_CLOSED rows in trade_journals, by ticket
    task,       \* where the position cycle, or the startup recovery, is
    answer,     \* the tickets the last request for positions returned
    lost,       \* that request failed
    session,    \* the trading session: usable, or poisoned by a failed flush
    \* history, read by no action's guard but the bound on lostReads
    unseen,     \* positions the worker has had no chance to know are open
    lostReads   \* requests that failed while a position was open

vars == <<market, rows, closings, task, answer, lost, session, unseen, lostReads>>

-----------------------------------------------------------------------------

Tasks == {"down", "recovery", "idle", "upsert", "lifecycle", "close"}

OpenAtBroker == {t \in Tickets : market[t] = "open"}

\* Mutant: the status is missing from the query.
AllRows == {t \in Tickets : rows[t] # "NONE"}

\* PositionRepository.get_open_positions
OpenRows == {t \in Tickets : rows[t] = "OPEN"}

Init ==
    /\ market = [t \in Tickets |-> "unborn"]
    /\ rows = [t \in Tickets |-> "NONE"]
    /\ closings = [t \in Tickets |-> 0]
    /\ task = "down"
    /\ answer = {}
    /\ lost = FALSE
    /\ session = "clean"
    /\ unseen = {}
    /\ lostReads = 0

\* MT5PositionClient.get_open_positions: positions_get may return None.
ReadPositions ==
    \/ /\ answer' = OpenAtBroker
       /\ lost' = FALSE
       /\ UNCHANGED lostReads
    \/ /\ OpenAtBroker # {}
       /\ lostReads < MaxLostReads
       /\ answer' = {}
       /\ lost' = TRUE
       /\ lostReads' = lostReads + 1

\* run_startup_recovery syncs before the listener starts, and closes no row.
StartRecovery ==
    /\ task = "down"
    /\ ReadPositions
    /\ task' = "recovery"
    /\ UNCHANGED <<market, rows, closings, session, unseen>>

\* on_tick, once the interval has passed.
BeginCycle ==
    /\ task = "idle"
    /\ ReadPositions
    /\ task' = "upsert"
    /\ UNCHANGED <<market, rows, closings, session, unseen>>

AfterUpsert == IF task = "recovery" THEN "idle" ELSE "lifecycle"

\* Mutant: an existing row keeps the status it has.
UpsertNewRows ==
    /\ task \in {"recovery", "upsert"}
    /\ session = "clean"
    /\ rows' = [t \in Tickets |->
                  IF t \in answer /\ rows[t] = "NONE" THEN "OPEN" ELSE rows[t]]
    /\ unseen' = unseen \ answer
    /\ task' = AfterUpsert
    /\ UNCHANGED <<market, closings, answer, lost, session, lostReads>>

\* A row that was closed by mistake is opened again here.
UpsertRows ==
    /\ task \in {"recovery", "upsert"}
    /\ session = "clean"
    /\ rows' = [t \in Tickets |-> IF t \in answer THEN "OPEN" ELSE rows[t]]
    /\ unseen' = unseen \ answer
    /\ task' = AfterUpsert
    /\ UNCHANGED <<market, closings, answer, lost, session, lostReads>>

\* After the snapshots, the second request.
ReadForLifecycle ==
    /\ task = "lifecycle"
    /\ session = "clean"
    /\ ReadPositions
    /\ unseen' = IF lost' THEN unseen \cup OpenAtBroker ELSE unseen
    /\ task' = "close"
    /\ UNCHANGED <<market, rows, closings, session>>

\* Mutant: an empty answer is taken for a failed request.
CloseUnlessEmpty ==
    /\ task = "close"
    /\ session = "clean"
    /\ rows' = [t \in Tickets |->
                  IF t \in OpenRows \ answer /\ answer # {} THEN "CLOSED" ELSE rows[t]]
    /\ closings' = [t \in Tickets |->
                      closings[t] + (IF t \in OpenRows \ answer /\ answer # {} THEN 1 ELSE 0)]
    /\ task' = "idle"
    /\ UNCHANGED <<market, answer, lost, session, unseen, lostReads>>

\* Rows the answer does not name are closed and journaled in one commit.
CloseMissing ==
    /\ task = "close"
    /\ session = "clean"
    /\ rows' = [t \in Tickets |-> IF t \in OpenRows \ answer THEN "CLOSED" ELSE rows[t]]
    /\ closings' = [t \in Tickets |-> closings[t] + (IF t \in OpenRows \ answer THEN 1 ELSE 0)]
    /\ task' = "idle"
    /\ UNCHANGED <<market, answer, lost, session, unseen, lostReads>>

\* The database fails: the cycle ends and nobody rolls the session back.
CycleRaises ==
    /\ task \in {"upsert", "lifecycle", "close"}
    /\ task' = "idle"
    /\ session' \in {session, "poisoned"}
    /\ UNCHANGED <<market, rows, closings, answer, lost, unseen, lostReads>>

\* Anything else that runs on the session poisons it.
SessionPoisoned ==
    /\ task = "idle"
    /\ session' = "poisoned"
    /\ UNCHANGED <<market, rows, closings, task, answer, lost, unseen, lostReads>>

\* The process ends, also by a recovery that raises.
Crash ==
    /\ task # "down"
    /\ task' = "down"
    /\ answer' = {}
    /\ lost' = FALSE
    /\ session' = "clean"
    /\ UNCHANGED <<market, rows, closings, unseen, lostReads>>

-----------------------------------------------------------------------------
\* The broker

OpenPosition(t) ==
    /\ market[t] = "unborn"
    /\ market' = [market EXCEPT ![t] = "open"]
    /\ unseen' = unseen \cup {t}
    /\ UNCHANGED <<rows, closings, task, answer, lost, session, lostReads>>

ClosePosition(t) ==
    /\ market[t] = "open"
    /\ market' = [market EXCEPT ![t] = "closed"]
    /\ UNCHANGED <<rows, closings, task, answer, lost, session, unseen, lostReads>>

-----------------------------------------------------------------------------

Worker   == StartRecovery \/ BeginCycle \/ UpsertRows \/ ReadForLifecycle \/ CloseMissing
Failures == CycleRaises \/ SessionPoisoned \/ Crash
Broker   == \E t \in Tickets : OpenPosition(t) \/ ClosePosition(t)

Next == Worker \/ Failures \/ Broker

Spec == Init /\ [][Next]_vars

\* A step in which no request fails: the worker's, or the broker's.
SteadyNext == (Worker /\ UNCHANGED lostReads) \/ Broker
-----------------------------------------------------------------------------
\* Properties

\* Every variable keeps to the values the code can give it.
TypeOK ==
    /\ market \in [Tickets -> {"unborn", "open", "closed"}]
    /\ rows \in [Tickets -> {"NONE", "OPEN", "CLOSED"}]
    /\ closings \in [Tickets -> Nat]
    /\ task \in Tasks
    /\ answer \subseteq Tickets
    /\ lost \in BOOLEAN
    /\ session \in {"clean", "poisoned"}
    /\ unseen \subseteq Tickets
    /\ lostReads \in Nat

\* A position open at the broker has an OPEN row, unless it opened after the
\* last answer the worker stored, or a request failed since: the limits on open
\* positions count these rows.
Mirrored == OpenAtBroker \subseteq OpenRows \cup unseen

\* A position is journaled closed once, plus at most once for every request
\* that failed, and a row is CLOSED only if the journal says so.
JournalExplained ==
    \A t \in Tickets : /\ closings[t] <= 1 + lostReads
                       /\ rows[t] = "CLOSED" => closings[t] >= 1

\* While nothing fails the table catches up with the broker: a position that
\* closed gets its row closed, and one that opened gets an OPEN row before the
\* broker closes it or after.
TableCatchesUp ==
    \A t \in Tickets :
        /\ market[t] = "closed" /\ rows[t] = "OPEN" ~> rows[t] = "CLOSED"
        /\ market[t] = "open" ~> rows[t] = "OPEN" \/ market[t] = "closed"

\* TradeLifecycleService: "Detect closed positions and append journal updates."
ClosedRowsAreClosed ==
    \A t \in Tickets : rows[t] = "CLOSED" => market[t] = "closed"

-----------------------------------------------------------------------------
\* The inductive invariant behind the properties

\* What an answer still says when it is used: the rows about to be written are
\* of positions that have opened, and the positions missing from the answer by
\* which rows are closed have closed, or are unseen.
AnswerInv ==
    /\ \A t \in answer : market[t] # "unborn"
    /\ \A t \in Tickets : market[t] = "unborn" => rows[t] = "NONE"
    /\ task = "close" => OpenAtBroker \subseteq answer \cup unseen
    /\ task = "close" /\ ~lost => OpenAtBroker \cap OpenRows \subseteq answer

\* A row that is, or may become, OPEN has been closed only by failed requests;
\* the one about to be answered by closing rows has not been used yet.
ClosingInv ==
    \A t \in Tickets :
        /\ closings[t] <= 1 + lostReads
        /\ rows[t] = "CLOSED" => closings[t] >= 1
        /\ rows[t] = "NONE" => closings[t] = 0
        /\ rows[t] = "OPEN" \/ market[t] = "open"
             \/ (task \in {"recovery", "upsert"} /\ t \in answer)
           => closings[t] <= lostReads
        /\ task = "close" /\ lost /\ rows[t] = "OPEN" => closings[t] < lostReads

IInv == TypeOK /\ Mirrored /\ AnswerInv /\ ClosingInv
=============================================================================
