---------------------------- MODULE TradeFeedback ----------------------------
(***************************************************************************)
(* The performance thread of the worker:                                   *)
(*                                                                         *)
(*   PerformanceOrchestrator -> PerformanceAnalyzer -> StrategyFeedbackLoop*)
(*                                                                         *)
(* Every interval it reads the trades closed since midnight, overwrites    *)
(* the daily row of every account it finds, appends a row for every        *)
(* strategy, symbol and timeframe, and judges all rows appended so far.    *)
(* It has a session of its own, which nobody rolls back.  Other sessions   *)
(* close trades meanwhile, and days end.                                   *)
(***************************************************************************)
EXTENDS Integers, FiniteSets, SequencesExt

CONSTANTS
    Accounts,
    Keys,           \* strategy, symbol and timeframe of a signal
    Profits,        \* what a trade may be closed with
    MinTrades,      \* feedback_min_trades
    LowWinPercent,  \* feedback_low_win_rate
    HighDrawdown,   \* feedback_high_drawdown
    MaxTrades,      \* bound: trades closed
    MaxDays,        \* bound: days
    MaxRuns,        \* bound: runs whose appended rows the model keeps
    MaxEnds         \* bound: times the process ends

ASSUME FeedbackAssumption ==
    /\ Profits \subseteq Int
    /\ MinTrades \in Nat /\ LowWinPercent \in 0..100 /\ HighDrawdown \in Nat \ {0}
    /\ MaxTrades \in Nat /\ MaxDays \in Nat \ {0} /\ MaxRuns \in Nat /\ MaxEnds \in Nat

VARIABLES
    day,
    trades,     \* CLOSED rows of positions
    phase,      \* where the thread is
    run,        \* runs of the analyzer that read the trades
    read,       \* the trades the analyzer has read and not written, and their day
    daily,      \* performance_daily, by account and day
    judged,     \* performance_by_strategy
    events,     \* strategy_feedback_events
    session,    \* performance_session: usable, or poisoned by a database error
    ends,       \* times the process ended
    counted     \* history: the run and the trades last committed for each day

vars == <<day, trades, phase, run, read, daily, judged, events, session, ends, counted>>

-----------------------------------------------------------------------------

Days == 1..MaxDays

None == [trades |-> 0]          \* no row in performance_daily
Nothing == [day |-> 0, trades |-> {}]

Count(T) == Cardinality(T)
Wins(T)  == {t \in T : t.profit > 0}
Sum(T)   == MapThenSumSet(LAMBDA t : t.profit, T)

GrossProfit(T) == Sum(Wins(T))
GrossLoss(T)   == Sum({t \in T : t.profit < 0})

\* _calculate_max_drawdown, over the rows in the order the database gives them
Through(c, t) ==
    LET equity == c.equity + t.profit
        peak   == IF equity > c.peak THEN equity ELSE c.peak
    IN  [equity |-> equity, peak |-> peak,
         worst |-> IF peak - equity > c.worst THEN peak - equity ELSE c.worst]

MaxDrawdown(rows) == FoldLeft(Through, [equity |-> 0, peak |-> 0, worst |-> 0], rows).worst

Totals(T) == [trades |-> Count(T), wins |-> Count(Wins(T)),
              profit |-> GrossProfit(T), loss |-> GrossLoss(T)]

\* upsert_performance_daily
DailyRow(rows) ==
    [trades |-> Len(rows), of |-> Totals(Range(rows)), drawdown |-> MaxDrawdown(rows)]

KeysOf(T) == {t.key : t \in T}

\* create_performance_by_strategy, of one run.  The details lack max_drawdown,
\* which StrategyFeedbackLoop then reads as 0.
StrategyRow(n, T, k) ==
    [run |-> n, key |-> k, of |-> Totals({t \in T : t.key = k}), drawdown |-> 0]

\* What StrategyFeedbackLoop makes of a row.
Advice(row) ==
    LET low  == row.of.wins * 100 < LowWinPercent * row.of.trades
        deep == row.drawdown >= HighDrawdown
    IN  CASE row.of.trades < MinTrades -> "NEED_MORE_DATA"
          [] row.of.trades >= MinTrades /\ low /\ deep -> "DISABLE_TEMPORARILY"
          [] row.of.trades >= MinTrades /\ low /\ ~deep -> "REDUCE_RISK"
          [] row.of.trades >= MinTrades /\ ~low /\ deep -> "REVIEW_PARAMETERS"
          [] OTHER -> "KEEP_ACTIVE"

Event(row) == [run |-> run, of |-> <<row.run, row.key>>, advice |-> Advice(row)]

Init ==
    /\ day = 1
    /\ trades = {}
    /\ phase = "waiting"
    /\ run = 0
    /\ read = Nothing
    /\ daily = [a \in Accounts |-> [d \in Days |-> None]]
    /\ judged = {}
    /\ events = {}
    /\ session = "clean"
    /\ ends = 0
    /\ counted = [d \in Days |-> [run |-> 0, trades |-> {}]]

\* A transaction ends and the thread goes on to next.  If the commit raises, what
\* it wrote is there or not, the exception is logged, and the session can no
\* longer be used.
Commits(next) ==
    \/ phase' = next /\ UNCHANGED session
    \/ phase' = "waiting" /\ session' = "poisoned"

-----------------------------------------------------------------------------
\* PerformanceAnalyzer and StrategyFeedbackLoop

\* Mutant: positions are read whether or not an order is linked to them.
ClosedUnjoined(d) == {t \in trades : t.day = d}

\* The inner joins drop every position without execution_order_id.
ClosedToday(d) == {t \in trades : t.day = d /\ t.linked}

\* Mutant: the interval is skipped when the day has been analyzed.
ReadOnceADay ==
    /\ phase = "waiting"
    /\ session = "clean"
    /\ counted[day].run = 0
    /\ run' = IF run > MaxRuns THEN run ELSE run + 1
    /\ read' = [day |-> day, trades |-> ClosedToday(day)]
    /\ phase' = "analyzing"
    /\ UNCHANGED <<day, trades, daily, judged, events, session, ends, counted>>

\* One SELECT from midnight to now.
ReadTrades ==
    /\ phase = "waiting"
    /\ session = "clean"
    /\ run' = IF run > MaxRuns THEN run ELSE run + 1
    /\ read' = [day |-> day, trades |-> ClosedToday(day)]
    /\ phase' = "analyzing"
    /\ UNCHANGED <<day, trades, daily, judged, events, session, ends, counted>>

\* Every account found gets the totals of all.  Runs after MaxRuns append rows
\* that the model leaves out.
WriteRows ==
    /\ phase = "analyzing"
    /\ \E rows \in SetToSeqs(read.trades) :
         daily' = [a \in Accounts |->
                     IF \E t \in read.trades : t.account = a
                     THEN [daily[a] EXCEPT ![read.day] = DailyRow(rows)]
                     ELSE daily[a]]
    /\ judged' = IF run > MaxRuns THEN judged
                 ELSE judged \cup {StrategyRow(run, read.trades, k) : k \in KeysOf(read.trades)}
    /\ counted' = [counted EXCEPT ![read.day] = [run |-> run, trades |-> read.trades]]
    /\ read' = Nothing
    /\ Commits("judging")
    /\ UNCHANGED <<day, trades, run, events, ends>>

\* Mutant: only the rows of the latest run are judged.
JudgeLatest ==
    /\ phase = "judging"
    /\ events' = IF run > MaxRuns THEN events
                 ELSE events \cup {Event(r) : r \in {s \in judged : s.run = run
                                                       /\ Advice(s) # "KEEP_ACTIVE"}}
    /\ Commits("waiting")
    /\ UNCHANGED <<day, trades, run, read, daily, judged, ends, counted>>

\* All rows ever appended are judged again, and the healthy ones passed over.
Judge ==
    /\ phase = "judging"
    /\ events' = IF run > MaxRuns THEN events
                 ELSE events \cup {Event(r) : r \in {s \in judged : Advice(s) # "KEEP_ACTIVE"}}
    /\ Commits("waiting")
    /\ UNCHANGED <<day, trades, run, read, daily, judged, ends, counted>>

\* Anything on the session raises before the commit.
DatabaseError ==
    /\ phase # "waiting"
    /\ phase' = "waiting"
    /\ session' = "poisoned"
    /\ read' = Nothing
    /\ UNCHANGED <<day, trades, run, daily, judged, events, ends, counted>>

\* The thread is a daemon: it ends with the process wherever it is.
ProcessEnds ==
    /\ ends < MaxEnds
    /\ ends' = ends + 1
    /\ phase' = "waiting"
    /\ session' = "clean"
    /\ read' = Nothing
    /\ UNCHANGED <<day, trades, run, daily, judged, events, counted>>

-----------------------------------------------------------------------------
\* The other sessions

\* The commit may come after the midnight that ends the day of closed_at.
Close(linked, account, key, profit) ==
    /\ Count(trades) < MaxTrades
    /\ \E d \in {day, day - 1} \cap Days :
         trades' = trades \cup {[id |-> Count(trades) + 1, linked |-> linked, account |-> account,
                                 key |-> key, profit |-> profit, day |-> d]}
    /\ UNCHANGED <<day, phase, run, read, daily, judged, events, session, ends, counted>>

\* A closed position of an order with a signal: only the acceptance script
\* writes execution_order_id, and a profit.
CloseLinked == \E a \in Accounts, k \in Keys, p \in Profits : Close(TRUE, a, k, p)

\* TradeLifecycleService closes a position of the sync: no order, no profit.
CloseSynced == \E a \in Accounts : Close(FALSE, a, "none", 0)

Midnight ==
    /\ day < MaxDays
    /\ day' = day + 1
    /\ UNCHANGED <<trades, phase, run, read, daily, judged, events, session, ends, counted>>

Perform == ReadTrades \/ WriteRows \/ Judge

Next == Perform \/ DatabaseError \/ ProcessEnds \/ CloseLinked \/ CloseSynced \/ Midnight

\* The interval passes again and again, and a run goes on while the process does.
Spec == Init /\ [][Next]_vars /\ WF_vars(Perform)
-----------------------------------------------------------------------------
\* Properties

Falls(row) == IF row.of.profit + row.of.loss < 0 THEN -(row.of.profit + row.of.loss) ELSE 0

RowsOf(n) == {row \in judged : row.run = n}

SumOfRows(rows) == MapThenSumSet(LAMBDA row : row.of.profit + row.of.loss, rows)

\* A daily row says what the linked trades of its day in its last committed run
\* add up to, whatever failed since; the rows of the strategies of that run add
\* up to the same; and its drawdown, which depends on the order of the rows, is
\* no less than the day's fall and no more than its losses.
DailyRowsTrue ==
    \A a \in Accounts, d \in Days :
        LET row == daily[a][d]
            n   == counted[d].run
            T   == counted[d].trades
        IN  /\ row # None <=> (\E t \in T : t.account = a)
            /\ row # None =>
                 /\ row.of = Totals(T)
                 /\ \A t \in T : t.linked /\ t.day = d
                 /\ Falls(row) <= row.drawdown /\ row.drawdown <= -row.of.loss
                 /\ n <= MaxRuns =>
                      SumOfRows(RowsOf(n)) = row.of.profit + row.of.loss

\* Strategies are judged by their win rate alone, and a row that calls for advice
\* gets it in every later run: the older of two such rows has no fewer events.
AdviceExplained ==
    /\ \A e \in events :
         /\ e.advice \in {"NEED_MORE_DATA", "REDUCE_RISK"}
         /\ e.run >= e.of[1]
    /\ \A r, s \in judged :
         r.run < s.run /\ Advice(r) # "KEEP_ACTIVE" /\ Advice(s) # "KEEP_ACTIVE" =>
            {e.run : e \in {f \in events : f.of = <<s.run, s.key>>}}
              \subseteq {e.run : e \in {f \in events : f.of = <<r.run, r.key>>}}

\* A linked trade closed today gets into the daily row of today, unless the day
\* ends first or the thread's session is poisoned.
TradesCounted ==
    \A i \in 1..MaxTrades :
        (\E t \in trades : t.id = i /\ t.linked /\ t.day = day)
          ~> \/ session = "poisoned"
             \/ \E t \in trades : t.id = i /\ (t.day < day \/ t \in counted[t.day].trades)
-----------------------------------------------------------------------------
\* The inductive invariant behind the safety properties

TradeType == [id: Nat, linked: BOOLEAN, account: Accounts, key: Keys \cup {"none"},
              profit: Int, day: Days]

\* Every variable keeps to the values the code can give it.
TypeOK ==
    /\ day \in Days
    /\ trades \subseteq TradeType /\ IsFiniteSet(trades)
    /\ phase \in {"waiting", "analyzing", "judging"}
    /\ run \in 0 .. MaxRuns + 1
    /\ read # Nothing => read.day \in Days
    /\ DOMAIN daily = Accounts /\ \A a \in Accounts : DOMAIN daily[a] = Days
    /\ \A row \in judged : row.run \in 1 .. MaxRuns
    /\ \A e \in events : e.run \in 1 .. MaxRuns /\ e.of[1] \in 1 .. MaxRuns
    /\ session \in {"clean", "poisoned"}
    /\ ends \in 0 .. MaxEnds
    /\ DOMAIN counted = Days /\ \A d \in Days : counted[d].run \in 0 .. MaxRuns + 1

\* Trades are counted once they are closed, with all that were counted before.
CountedInv ==
    /\ \A d \in Days :
          /\ counted[d].run <= run /\ counted[d].trades \subseteq ClosedToday(d)
          /\ counted[d].run = 0 => counted[d].trades = {}
    /\ phase = "analyzing" =>
         /\ run > 0
         /\ read.day \in Days
         /\ counted[read.day].trades \subseteq read.trades
         /\ read.trades \subseteq ClosedToday(read.day)
         /\ run <= MaxRuns => \A d \in Days : counted[d].run < run

\* The accounts with a trade of the day have the row of the last committed run.
DailyInv ==
    \A a \in Accounts, d \in Days :
        IF \E t \in counted[d].trades : t.account = a
        THEN \E rows \in SetToSeqs(counted[d].trades) : daily[a][d] = DailyRow(rows)
        ELSE daily[a][d] = None

\* A run appends a row for every key of the trades it read, once.
JudgedInv ==
    /\ \A row \in judged :
          /\ row.run <= run /\ row.drawdown = 0
          /\ phase = "analyzing" => row.run < run
    /\ \A d \in Days : counted[d].run \in 1 .. MaxRuns =>
          LET T == counted[d].trades
          IN  RowsOf(counted[d].run) = {StrategyRow(counted[d].run, T, k) : k \in KeysOf(T)}

\* A run that gave advice on a row gave it on all that were older.
EventsInv ==
    \A e \in events :
        /\ e.advice \in {"NEED_MORE_DATA", "REDUCE_RISK"}
        /\ e.of[1] <= e.run /\ e.run <= run
        /\ \A row \in judged : row.run < e.of[1] /\ Advice(row) # "KEEP_ACTIVE" =>
              \E f \in events : f.of = <<row.run, row.key>> /\ f.run = e.run

IInv == TypeOK /\ CountedInv /\ DailyInv /\ JudgedInv /\ EventsInv
=============================================================================
