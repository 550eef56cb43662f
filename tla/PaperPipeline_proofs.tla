------------------------ MODULE PaperPipeline_proofs ------------------------
(***************************************************************************)
(* Proofs about PaperPipeline.                                             *)
(***************************************************************************)
EXTENDS PaperPipeline, SequenceTheorems, FiniteSetTheorems, WellFoundedInduction, TLAPS

-----------------------------------------------------------------------------
\* What an approved case is like

LEMMA DivExact ==
    ASSUME NEW b \in Int, b > 0, NEW x \in Int
    PROVE  (x * b) \div b = x
  OBVIOUS

LEMMA ScoresTraded ==
    ASSUME NEW m \in MarketType, Valid(m)
    PROVE  /\ StrategyKey(m) = "trend_follow_pullback"
           /\ Tradable(m)
           /\ ~AgainstTrend(m)
           /\ Towards(m) * (m.close - StopLoss(m)) > 0
           /\ Towards(m) * (TakeProfit(m) - m.close) > 0
  <1>1. Errors(m) = {} /\ Score(m) >= 60
    BY DEF Valid, MinScore
  <1>2. /\ Tradable(m) /\ ~AgainstTrend(m)
        /\ ~(Towards(m) * (m.close - StopLoss(m)) <= 0)
        /\ ~(Towards(m) * (TakeProfit(m) - m.close) <= 0)
    BY <1>1, Zenon DEF Errors
  <1>3. Confidence(m) >= 60
    <2>1. Cardinality({}) = 0
      BY FS_EmptySet
    <2>2. Warnings(m) \in {0, 1} /\ Confidence(m) \in {30, 60, 55, 35}
      BY DEF Warnings, Confidence
    <2> QED
      BY <1>1, <2>1, <2>2 DEF Score
  <1>4. StrategyKey(m) = "trend_follow_pullback"
    BY <1>3 DEF Confidence
  <1>5. m.close \in Int /\ Buffer(m) \in Int /\ Towards(m) \in Int
    BY DEF MarketType, Buffer, Towards
  <1> QED
    BY <1>2, <1>4, <1>5 DEF StopLoss, TakeProfit

Sound(c) ==
    /\ \/ /\ Regime(c.market) = "TREND_UP"
          /\ StopLoss(c.market) < c.market.close
          /\ c.market.close < TakeProfit(c.market)
       \/ /\ Regime(c.market) = "TREND_DOWN"
          /\ TakeProfit(c.market) < c.market.close
          /\ c.market.close < StopLoss(c.market)
    /\ c.request.risk < 9
    /\ 1000 * (c.request.dailyLoss + RiskAmount(c.request)) <= 30 * c.request.balance

LEMMA ApprovedSound ==
    ASSUME NEW c \in Cases, FailsAt(c) = NONE, Decision(c) = "APPROVE"
    PROVE  Sound(c)
  <1> DEFINE m == c.market
             q == c.request
  <1>1. m \in MarketType /\ q \in RequestType
    BY PaperAssumption DEF CaseType
  <1>2. Valid(m) /\ ~(q.risk >= 9)
    BY DEF Decision
  <1>3. q.risk < 9
    BY <1>1, <1>2 DEF RequestType
  <1>4. ~RiskRefused(q)
    BY <1>2, Zenon DEF FailsAt, NONE, Contracted
  <1>5. 1000 * (q.dailyLoss + RiskAmount(q)) <= 30 * q.balance
    BY <1>1, <1>4 DEF RiskRefused, RequestType, RiskAmount
  <1>6. /\ Regime(m) \in {"TREND_UP", "TREND_DOWN"}
        /\ Direction(m) \in {"BUY", "SELL"}
    BY <1>1, <1>2, ScoresTraded DEF StrategyKey, Tradable, Direction
  <1>7. \/ Regime(m) = "TREND_UP" /\ Direction(m) = "BUY"
        \/ Regime(m) = "TREND_DOWN" /\ Direction(m) = "SELL"
    BY <1>1, <1>2, <1>6, ScoresTraded DEF AgainstTrend
  <1>8. m.close \in Int /\ Buffer(m) \in Int /\ Towards(m) = IF Direction(m) = "BUY" THEN 1 ELSE -1
    BY <1>1 DEF MarketType, Buffer, Towards
  <1>9. /\ Towards(m) * (m.close - StopLoss(m)) > 0
        /\ Towards(m) * (TakeProfit(m) - m.close) > 0
    BY <1>1, <1>2, ScoresTraded
  <1> QED
    BY <1>3, <1>5, <1>7, <1>8, <1>9 DEF Sound, StopLoss, TakeProfit

\* A hit stop costs what was planned, a hit target brings twice as much.
LEMMA PnlOfHits ==
    ASSUME NEW c \in Cases, FailsAt(c) = NONE, Decision(c) = "APPROVE"
    PROVE  /\ RiskAmount(c.request) \in Int /\ RiskAmount(c.request) > 0
           /\ RealizedPnl(c) = IF StopHit(c.market) THEN -RiskAmount(c.request)
                               ELSE 2 * RiskAmount(c.request)
  <1> DEFINE m == c.market
             q == c.request
             B == Buffer(m)
             R == RiskAmount(q)
  <1>1. m \in MarketType /\ q \in RequestType
    BY PaperAssumption DEF CaseType
  <1>2. Valid(m)
    BY DEF Decision
  <1>3. m.close \in Int /\ B \in Int /\ Towards(m) \in {1, -1}
    BY <1>1 DEF MarketType, Buffer, Towards
  <1>4. Towards(m) * (m.close - StopLoss(m)) > 0
    BY <1>1, <1>2, ScoresTraded
  <1>5. B > 0
    BY <1>3, <1>4 DEF StopLoss
  <1>6. ~RiskRefused(q)
    BY <1>2, Zenon DEF FailsAt, NONE, Contracted
  <1>7. q.balance > 0 /\ q.risk > 0 /\ q.balance \in Int /\ q.risk \in Int
    BY <1>1, <1>6 DEF RiskRefused, RequestType
  <1>8. R \in Int /\ R > 0
    <2>1. q.balance * q.risk \in Int /\ q.balance * q.risk > 0
      BY <1>7
    <2>2. (q.balance * q.risk) % 1000 = 0
      BY PaperAssumption DEF Exact
    <2>3. \A x \in Int : x > 0 /\ x % 1000 = 0 => x \div 1000 \in Int /\ x \div 1000 > 0
      OBVIOUS
    <2> QED
      BY <2>1, <2>2, <2>3 DEF RiskAmount
  <1>9. MaxLoss(c) = R
    BY <1>2 DEF MaxLoss
  <1>10. Towards(m) * (ExitPrice(m) - m.close) = IF StopHit(m) THEN -B ELSE 2 * B
    BY <1>3 DEF ExitPrice, StopLoss, TakeProfit
  <1>11. CASE StopHit(m)
    <2>1. Towards(m) * (ExitPrice(m) - m.close) * MaxLoss(c) = (-R) * B
      BY <1>3, <1>8, <1>9, <1>10, <1>11
    <2>2. ((-R) * B) \div B = -R
      BY <1>3, <1>5, <1>8, DivExact
    <2> QED
      BY <1>8, <1>11, <2>1, <2>2 DEF RealizedPnl
  <1>12. CASE ~StopHit(m)
    <2>1. Towards(m) * (ExitPrice(m) - m.close) * MaxLoss(c) = (2 * R) * B
      BY <1>3, <1>8, <1>9, <1>10, <1>12
    <2>2. ((2 * R) * B) \div B = 2 * R
      BY <1>3, <1>5, <1>8, DivExact
    <2> QED
      BY <1>8, <1>12, <2>1, <2>2 DEF RealizedPnl
  <1> QED
    BY <1>8, <1>11, <1>12
-----------------------------------------------------------------------------
\* What a step of one run leaves of the others

SameCases ==
    \A q \in Runs : run'[q].decision = run[q].decision /\ run'[q].case = run[q].case

Sets(b, r, v) == orders' = [orders EXCEPT ![b][r] = v]

Appends(b, e) == journal' = [journal EXCEPT ![b] = Append(@, e)]

OthersStay(r) == \A q \in Runs : q # r => run'[q] = run[q]

\* A run that moves takes only its place and its failure with it.
LEMMA Moves ==
    ASSUME TypeOK, NEW r \in Runs, NEW x \in Positions, NEW f \in Stages \cup {NONE},
           run' = [run EXCEPT ![r].at = x, ![r].failedAt = f]
    PROVE  /\ run' \in [Runs -> RunType]
           /\ run'[r].at = x /\ run'[r].failedAt = f
           /\ SameCases /\ OthersStay(r)
  BY DEF TypeOK, RunType, SameCases, OthersStay

LEMMA MovesOn ==
    ASSUME TypeOK, NEW r \in Runs, NEW x \in Positions,
           run' = [run EXCEPT ![r].at = x]
    PROVE  /\ run' \in [Runs -> RunType]
           /\ run'[r].at = x /\ run'[r].failedAt = run[r].failedAt
           /\ SameCases /\ OthersStay(r)
  BY DEF TypeOK, RunType, SameCases, OthersStay

\* The order of a run that has its case is set, and no other.
LEMMA OneOrder ==
    ASSUME TypeOK, NEW b \in OrderStores, NEW r \in Runs, NEW v \in {"OPEN", "CLOSED"}, Sets(b, r, v)
    PROVE  /\ orders' \in [OrderStores -> [Runs -> Statuses]]
           /\ orders'[b][r] = v
           /\ \A o \in OrderStores, q \in Runs : o # b \/ q # r => orders'[o][q] = orders[o][q]
  BY DEF TypeOK, OrderStores, Statuses, Sets

LEMMA SameEntries ==
    ASSUME UNCHANGED journal
    PROVE  /\ \A r, s, i : IsEntry(r, s, i)' <=> IsEntry(r, s, i)
           /\ \A r : HasEntry(r)' <=> HasEntry(r)
  BY DEF IsEntry, HasEntry

\* The entry e of run r is the n-th of journal b, and all else is as it was.
HasOneMore(b, n, r, e) ==
    /\ journal' \in [JournalStores -> Seq(EntryType)]
    /\ \A q \in Runs, s \in JournalStores : \A i :
          IsEntry(q, s, i)' <=> (IsEntry(q, s, i) \/ (q = r /\ s = b /\ i = n))
    /\ \A q \in Runs, s \in JournalStores : \A i :
          IsEntry(q, s, i) => journal'[s][i] = journal[s][i]
    /\ journal'[b][n] = e
    /\ HasEntry(r)'
    /\ \A q \in Runs : q # r => (HasEntry(q)' <=> HasEntry(q))

LEMMA OneEntry ==
    ASSUME TypeOK, NEW b \in JournalStores, NEW r \in Runs, NEW e \in EntryType, e.run = r,
           Appends(b, e), NEW n, n = Len(journal[b]) + 1
    PROVE  HasOneMore(b, n, r, e)
  <1>1. /\ journal \in [JournalStores -> Seq(EntryType)]
        /\ journal[b] \in Seq(EntryType)
    BY DEF TypeOK
  <1>2. /\ journal' \in [JournalStores -> Seq(EntryType)]
        /\ journal'[b] = Append(journal[b], e)
        /\ \A s \in JournalStores : s # b => journal'[s] = journal[s]
    BY <1>1 DEF Appends
  <1>3. /\ DOMAIN journal'[b] = DOMAIN journal[b] \cup {n}
        /\ n \notin DOMAIN journal[b]
        /\ \A i \in DOMAIN journal[b] : journal'[b][i] = journal[b][i]
        /\ journal'[b][n] = e
    BY <1>1, <1>2
  <1>4. \A q \in Runs, s \in JournalStores : \A i :
            IsEntry(q, s, i)' <=> (IsEntry(q, s, i) \/ (q = r /\ s = b /\ i = n))
    BY <1>2, <1>3 DEF IsEntry
  <1>5. \A q \in Runs, s \in JournalStores : \A i :
            IsEntry(q, s, i) => journal'[s][i] = journal[s][i]
    BY <1>2, <1>3 DEF IsEntry
  <1>6. HasEntry(r)'
    <2>1. IsEntry(r, b, n)' /\ n \in DOMAIN journal'[b]
      BY <1>3, <1>4
    <2> QED
      BY <2>1, Zenon DEF HasEntry
  <1>7. ASSUME NEW q \in Runs, q # r
        PROVE  HasEntry(q)' <=> HasEntry(q)
    <2>1. \A s \in JournalStores : \A i : IsEntry(q, s, i)' <=> IsEntry(q, s, i)
      BY <1>4, <1>7
    <2>2. /\ HasEntry(q) <=> \E s \in JournalStores : \E i : IsEntry(q, s, i)
          /\ HasEntry(q)' <=> \E s \in JournalStores : \E i : IsEntry(q, s, i)'
      BY DEF HasEntry, IsEntry
    <2> QED
      BY <2>1, <2>2
  <1> QED
    BY <1>2, <1>3, <1>4, <1>5, <1>6, <1>7 DEF HasOneMore

LEMMA EntryTells ==
    ASSUME TypeOK, CaseInv, NEW r \in Runs
    PROVE  /\ Entry(r) \in EntryType
           /\ Entry(r).run = r
           /\ Approved(r) => Entry(r).result = MonitoredStatus(run[r].case.market)
           /\ Entry(r).result = "CLOSED" => /\ Approved(r)
                                           /\ Entry(r).pnl = RealizedPnl(run[r].case)
  <1>1. CASE ~Approved(r)
    <2>1. Entry(r) = [run |-> r, decision |-> run[r].decision, orderState |-> NONE,
                      result |-> NONE, pnl |-> 0]
      BY <1>1, Zenon DEF Entry
    <2>2. run[r].decision \in Decisions /\ NONE \in Statuses /\ NONE # "CLOSED"
      BY DEF TypeOK, RunType, Statuses, NONE
    <2> QED
      BY <1>1, <2>1, <2>2 DEF EntryType
  <1>2. CASE Approved(r)
    <2> DEFINE c == run[r].case
               status == MonitoredStatus(c.market)
    <2>1. c \in Cases /\ FailsAt(c) = NONE /\ Decision(c) = "APPROVE"
      BY <1>2 DEF CaseInv
    <2>2. RealizedPnl(c) \in Int
      BY <2>1, PnlOfHits
    <2>3. status \in {"OPEN", "CLOSED"}
      BY DEF MonitoredStatus
    <2>4. Entry(r) = [run |-> r, decision |-> "APPROVE",
                      orderState |-> IF backend.orders = "db" THEN "OPEN" ELSE status,
                      result |-> status,
                      pnl |-> IF status = "CLOSED" THEN RealizedPnl(c) ELSE 0]
      BY <1>2, Zenon DEF Entry
    <2> HIDE DEF c, status
    <2>5. Entry(r) \in EntryType
      BY <2>2, <2>3, <2>4 DEF EntryType, Decisions, Statuses
    <2> QED
      BY <1>2, <2>2, <2>4, <2>5 DEF c, status
  <1> QED
    BY <1>1, <1>2

\* A run in flight that shared the process with no other is the only one.
LEMMA Alone ==
    ASSUME LastInv, ~overlapped, NEW r \in InFlight,
           OthersStay(r)
    PROVE  /\ \A q \in InFlight : q = r
           /\ \A q \in InFlight' : q = r
  <1>1. \A q \in InFlight : q = r
    BY DEF LastInv
  <1>2. \A q \in Runs : q # r /\ q \in InFlight' => q \in InFlight
    BY DEF InFlight, OthersStay
  <1> QED
    BY <1>1, <1>2 DEF InFlight

-----------------------------------------------------------------------------
\* The invariant, step by step

LEMMA InitInv == Init => IInv
  <1> SUFFICES ASSUME Init PROVE IInv
    OBVIOUS
  <1> USE DEF Init
  <1>1. TypeOK
    <2>1. journal \in [JournalStores -> Seq(EntryType)]
      <3>1. PICK pnls \in Ledgers :
                journal = [s \in JournalStores |-> [i \in DOMAIN pnls |-> Earlier(pnls[i])]]
        OBVIOUS
      <3>2. pnls \in Seq(Int)
        <4>1. pnls \in Seq(Int \ {0}) /\ \A i \in DOMAIN pnls : pnls[i] \in Int \ {0}
          BY PaperAssumption
        <4>2. DOMAIN pnls = 1 .. Len(pnls) /\ Len(pnls) \in Nat
          BY <4>1
        <4> QED
          BY <4>1, <4>2
      <3>3. \A p \in Int : Earlier(p) \in EntryType
        BY DEF Earlier, EntryType, Decisions, Statuses
      <3>4. [i \in DOMAIN pnls |-> Earlier(pnls[i])] \in Seq(EntryType)
        <4>1. DOMAIN pnls = 1 .. Len(pnls) /\ Len(pnls) \in Nat
          BY <3>2
        <4>2. \A i \in 1 .. Len(pnls) : Earlier(pnls[i]) \in EntryType
          BY <3>2, <3>3
        <4> QED
          BY <4>1, <4>2
      <3> QED
        BY <3>1, <3>4
    <2>2. run \in [Runs -> RunType]
      BY DEF RunType, Decisions, Positions
    <2>3. last \in [runAt: Runs \cup {NONE}, decision: Runs \cup {NONE}, result: Runs \cup {NONE}]
      BY DEF NoLast
    <2> QED
      BY <2>1, <2>2, <2>3 DEF TypeOK, Statuses
  <1>2. \A r \in Runs : /\ run[r].at = "new" /\ run[r].decision = NONE /\ run[r].failedAt = NONE
                       /\ \A o \in OrderStores : ~Stored(r, o)
    BY DEF Stored
  <1>3. \A r \in Runs, s \in JournalStores : \A i : ~IsEntry(r, s, i)
    <2>1. PICK pnls \in Ledgers :
              journal = [s \in JournalStores |-> [i \in DOMAIN pnls |-> Earlier(pnls[i])]]
      OBVIOUS
    <2>2. \A s \in JournalStores : \A i \in DOMAIN journal[s] : journal[s][i].run = NONE
      BY <2>1 DEF Earlier
    <2> QED
      BY <2>2, PaperAssumption DEF IsEntry
  <1>4. \A r \in Runs : ~HasEntry(r)
    BY <1>3 DEF HasEntry
  <1>5. InFlight = {}
    BY <1>2 DEF InFlight, Working, Answering
  <1>6. CaseInv
    BY <1>2 DEF CaseInv, Approved, NONE
  <1>7. StageInv
    BY <1>2, <1>4, <1>5 DEF StageInv, StageOf, Approved, NONE, Working, Answering
  <1>8. EntryInv
    BY <1>3 DEF EntryInv
  <1>9. LastInv
    BY <1>5 DEF LastInv, NoLast
  <1> QED
    BY <1>1, <1>6, <1>7, <1>8, <1>9 DEF IInv
\* Decisions, cases and entries that stay keep what relates them.
LEMMA KeepsEntries ==
    ASSUME EntryInv, UNCHANGED journal,
           SameCases
    PROVE  EntryInv'
  BY DEF EntryInv, EntryOf, IsEntry, Approved, SameCases

LEMMA KeepsCases ==
    ASSUME CaseInv,
           SameCases,
           \A o \in OrderStores, q \in Runs : Stored(q, o)' => Stored(q, o) \/ Approved(q)
    PROVE  CaseInv'
  BY DEF CaseInv, Approved, SameCases

LEMMA KeepsStage ==
    ASSUME StageInv, NEW q \in Runs, run'[q] = run[q], backend' = backend,
           HasEntry(q)' <=> HasEntry(q),
           \A o \in OrderStores : orders'[o][q] = orders[o][q]
    PROVE  StageOf(q)'
  <1>1. (q \in InFlight)' <=> q \in InFlight
    BY DEF InFlight
  <1>2. Approved(q)' <=> Approved(q)
    BY DEF Approved
  <1>3. \A o \in OrderStores : Stored(q, o)' <=> Stored(q, o)
    BY DEF Stored
  <1> QED
    BY <1>1, <1>2, <1>3 DEF StageInv, StageOf

LEMMA BootStep == IInv /\ Boot => IInv'
  <1> SUFFICES ASSUME IInv, Boot PROVE IInv'
    OBVIOUS
  <1>1. TypeOK /\ CaseInv /\ StageInv /\ EntryInv /\ LastInv
    BY DEF IInv
  <1>2. /\ UNCHANGED <<run, orders, journal, report, last, overlapped>>
        /\ backend' \in [orders: OrderStores, journal: JournalStores]
        /\ InFlight = {}
    BY <1>1, PaperAssumption DEF Boot, SettingsType, OrderStores, JournalStores, StageInv, StageOf, InFlight
  <1>3. TypeOK'
    BY <1>1, <1>2 DEF TypeOK
  <1>4. CaseInv'
    BY <1>1, <1>2 DEF CaseInv, Stored, Approved
  <1>5. StageInv'
    <2> SUFFICES ASSUME NEW q \in Runs PROVE StageOf(q)'
      BY DEF StageInv
    <2>1. q \notin InFlight /\ run[q].at \notin Working
      BY <1>2 DEF InFlight
    <2> QED
      BY <1>1, <1>2, <2>1, SameEntries DEF StageInv, StageOf, Stored, Approved, InFlight, Working
  <1>6. EntryInv'
    BY <1>1, <1>2, KeepsEntries DEF SameCases
  <1>7. LastInv'
    BY <1>1, <1>2 DEF LastInv, InFlight
  <1> QED
    BY <1>3, <1>4, <1>5, <1>6, <1>7 DEF IInv

LEMMA ProcessEndsStep == IInv /\ ProcessEnds => IInv'
  <1> SUFFICES ASSUME IInv, ProcessEnds PROVE IInv'
    OBVIOUS
  <1>1. TypeOK /\ CaseInv /\ StageInv /\ EntryInv /\ LastInv
    BY DEF IInv
  <1>2. \A q \in Runs : /\ run'[q].decision = run[q].decision
                       /\ run'[q].case = run[q].case
                       /\ run'[q].failedAt = run[q].failedAt
                       /\ run'[q].at = IF q \in InFlight THEN "killed" ELSE run[q].at
    BY <1>1 DEF ProcessEnds, TypeOK, RunType
  <1>. SameCases
    BY <1>2 DEF SameCases
  <1>3. run' \in [Runs -> RunType]
    BY <1>1 DEF ProcessEnds, TypeOK, RunType, Positions
  <1>4. orders' \in [OrderStores -> [Runs -> Statuses]]
    BY <1>1 DEF ProcessEnds, TypeOK, Statuses, OrderStores
  <1>5. \A o \in OrderStores, q \in Runs :
            Stored(q, o)' => Stored(q, o) /\ orders'[o][q] = orders[o][q]
    BY <1>1 DEF ProcessEnds, TypeOK, Stored
  <1>6. InFlight' = {}
    BY <1>2 DEF InFlight, Working, Answering
  <1>7. TypeOK'
    BY <1>1, <1>3, <1>4 DEF ProcessEnds, TypeOK, NoLast, OrderStores, JournalStores
  <1>8. CaseInv'
    BY <1>1, <1>2, <1>5, KeepsCases
  <1>9. StageInv'
    <2> SUFFICES ASSUME NEW q \in Runs PROVE StageOf(q)'
      BY DEF StageInv
    <2> QED
      BY <1>1, <1>2, <1>5, <1>6, SameEntries
      DEF StageInv, StageOf, ProcessEnds, Approved, InFlight, Working, Answering
  <1>10. EntryInv'
    BY <1>1, <1>2, KeepsEntries DEF ProcessEnds
  <1>11. LastInv'
    BY <1>6 DEF LastInv, ProcessEnds, NoLast
  <1> QED
    BY <1>7, <1>8, <1>9, <1>10, <1>11 DEF IInv

\* Where a case can end, and what can be decided of it.
LEMMA Outcomes ==
    ASSUME NEW c
    PROVE  FailsAt(c) \in Stages \cup {NONE} /\ Decision(c) \in Decisions
  <1>1. Decision(c) \in Decisions
    BY DEF Decision, Decisions
  <1>2. FailsAt(c) \in Stages \cup {NONE}
    BY DEF FailsAt, Stages
  <1> QED
    BY <1>1, <1>2
LEMMA ReceiveStep == ASSUME IInv, NEW r \in Runs, Receive(r) PROVE IInv'
  <1>1. TypeOK /\ CaseInv /\ StageInv /\ EntryInv /\ LastInv
    BY DEF IInv
  <1>2. PICK c \in Cases :
           IF FailsAt(c) # NONE
           THEN run' = [run EXCEPT ![r].at = "record_run_at", ![r].failedAt = FailsAt(c)]
           ELSE run' = [run EXCEPT ![r].at = "paper_execution", ![r].decision = Decision(c),
                                   ![r].case = IF Decision(c) = "APPROVE" THEN c ELSE None]
    BY DEF Receive
  <1>3. /\ backend # DOWN /\ run[r].at = "new" /\ ~Approved(r) /\ ~HasEntry(r)
        /\ overlapped' = (InFlight # {})
        /\ UNCHANGED <<backend, orders, journal, report, last>>
    BY <1>1 DEF Receive, StageInv, StageOf
  <1>4. /\ FailsAt(c) \in Stages \cup {NONE} /\ Decision(c) \in Decisions
    BY Outcomes
  <1>5. /\ run' \in [Runs -> RunType]
        /\ \A q \in Runs : q # r => run'[q] = run[q]
    <2>1. run \in [Runs -> RunType]
      BY <1>1 DEF TypeOK
    <2>2. {"record_run_at", "paper_execution"} \subseteq Positions
      BY DEF Positions, Working, Answering
    <2>3. CASE FailsAt(c) # NONE
      BY <1>2, <1>4, <2>1, <2>2, <2>3 DEF RunType
    <2>4. CASE FailsAt(c) = NONE
      <3>1. (IF Decision(c) = "APPROVE" THEN c ELSE None) \in Cases \cup {None}
        OBVIOUS
      <3> QED
        BY <1>2, <1>4, <2>1, <2>2, <2>4, <3>1 DEF RunType
    <2> QED
      BY <2>3, <2>4
  <1>6. \/ /\ run'[r].at = "record_run_at"
           /\ run'[r].decision = run[r].decision
           /\ run'[r].failedAt # NONE
        \/ /\ run'[r].at = "paper_execution"
           /\ run'[r].decision = Decision(c)
           /\ run'[r].failedAt = run[r].failedAt
           /\ FailsAt(c) = NONE
           /\ Decision(c) = "APPROVE" => run'[r].case = c
    BY <1>1, <1>2 DEF TypeOK, RunType
  <1>7. \A s \in JournalStores : \A i : ~IsEntry(r, s, i)
    BY <1>3 DEF HasEntry, IsEntry
  <1>8. \A o \in OrderStores : ~Stored(r, o)
    BY <1>1, <1>3 DEF CaseInv
  <1>9. TypeOK'
    BY <1>1, <1>3, <1>5 DEF TypeOK
  <1>10. CaseInv'
    BY <1>1, <1>3, <1>5, <1>6, <1>8 DEF CaseInv, Approved, Stored
  <1>11. StageInv'
    <2> SUFFICES ASSUME NEW q \in Runs PROVE StageOf(q)'
      BY DEF StageInv
    <2>1. CASE q = r
      <3>1. run'[r].at = "record_run_at" \/ run'[r].failedAt = NONE
        BY <1>1, <1>3, <1>6 DEF StageInv, StageOf
      <3> QED
        BY <1>1, <1>3, <1>6, <1>8, <2>1, <3>1, SameEntries
        DEF StageInv, StageOf, Approved, Stored, InFlight, Working, Answering
    <2>2. CASE q # r
      BY <1>1, <1>3, <1>5, <2>2, SameEntries, KeepsStage
    <2> QED
      BY <2>1, <2>2
  <1>12. EntryInv'
    BY <1>1, <1>3, <1>5, <1>7 DEF EntryInv, EntryOf, Approved, IsEntry
  <1>13. LastInv'
    <2> SUFFICES ASSUME InFlight = {} PROVE LastInv'
      BY <1>3 DEF LastInv
    <2>1. InFlight' = {r}
      BY <1>5, <1>6 DEF InFlight, Working, Answering
    <2>2. run'[r].at \notin {"record_decision", "record_result"}
      BY <1>6
    <2> QED
      BY <2>1, <2>2 DEF LastInv
  <1> QED
    BY <1>9, <1>10, <1>11, <1>12, <1>13 DEF IInv
\* A run that goes on, or fails, while working: it stays in flight and has
\* written none of the last_* fields.
LEMMA KeepsLast ==
    ASSUME LastInv, NEW r \in Runs, run[r].at \in Working,
           run'[r].at \in Working \cup {"record_run_at"},
           OthersStay(r),
           UNCHANGED <<last, overlapped>>
    PROVE  LastInv' /\ InFlight' = InFlight
  <1>1. r \in InFlight /\ InFlight' = InFlight
    BY DEF InFlight, Working, Answering, OthersStay
  <1>2. run'[r].at \notin {"record_decision", "record_result"}
    BY DEF Working
  <1>3. ASSUME ~overlapped
        PROVE  \A q \in InFlight : q = r
    BY <1>1, <1>3, Alone
  <1> QED
    BY <1>1, <1>2, <1>3 DEF LastInv

LEMMA CreateOrderStep == ASSUME IInv, NEW r \in Runs, CreateOrder(r) PROVE IInv'
  <1>1. TypeOK /\ CaseInv /\ StageInv /\ EntryInv /\ LastInv
    BY DEF IInv
  <1>2. /\ run[r].at = "paper_execution"
        /\ UNCHANGED <<backend, journal, report, last, overlapped>>
    BY DEF CreateOrder, OrdersWith
  <1>3. PICK x \in {"position_monitor", "trade_journal"} :
            /\ run' = [run EXCEPT ![r].at = x]
            /\ x = "position_monitor" <=> Approved(r)
    BY DEF CreateOrder, OrdersWith
  <1>4. /\ run' \in [Runs -> RunType]
        /\ run'[r].at = x /\ run'[r].failedAt = run[r].failedAt
        /\ SameCases /\ OthersStay(r)
    <2>1. x \in Positions
      BY DEF Positions, Working
    <2> QED
      BY <1>1, <1>3, <2>1, MovesOn
  <1>5. backend # DOWN /\ ~HasEntry(r) /\ run[r].failedAt = NONE
    BY <1>1, <1>2 DEF StageInv, StageOf, InFlight, Working
  <1>6. /\ orders' \in [OrderStores -> [Runs -> Statuses]]
        /\ \A o \in OrderStores, q \in Runs : q # r => orders'[o][q] = orders[o][q]
        /\ \A o \in OrderStores : Stored(r, o)' => Approved(r) /\ o = backend.orders
    <2>0. \A o \in OrderStores : ~Stored(r, o)
      BY <1>1, <1>2 DEF StageInv, StageOf
    <2>1. CASE Approved(r)
      <3>1. PICK b \in OrderStores : b = backend.orders
        BY <1>1, <1>5 DEF TypeOK
      <3>2. PICK w \in {"OPEN", "CLOSED"} : w = "OPEN"
        OBVIOUS
      <3>3. Sets(b, r, w)
        BY <2>1, <3>1, <3>2 DEF CreateOrder, Sets, OrdersWith
      <3> QED
        BY <1>1, <2>0, <2>1, <3>1, <3>3, OneOrder DEF Stored
    <2>2. CASE ~Approved(r)
      BY <1>1, <2>0, <2>2 DEF CreateOrder, TypeOK, Stored, OrdersWith
    <2> QED
      BY <2>1, <2>2
  <1>7. TypeOK'
    BY <1>1, <1>2, <1>4, <1>6 DEF TypeOK
  <1>8. CaseInv'
    BY <1>1, <1>4, <1>6, KeepsCases DEF Stored
  <1>9. EntryInv'
    BY <1>1, <1>2, <1>4, KeepsEntries
  <1>10. LastInv' /\ InFlight' = InFlight
    BY <1>1, <1>2, <1>4, KeepsLast DEF Working
  <1>11. StageInv'
    <2> SUFFICES ASSUME NEW q \in Runs PROVE StageOf(q)'
      BY DEF StageInv
    <2>1. CASE q = r
      BY <1>1, <1>2, <1>3, <1>4, <1>5, <1>6, <1>10, <2>1, SameEntries
      DEF StageInv, StageOf, Approved, Answering, Working, Stored, SameCases
    <2>2. CASE q # r
      BY <1>1, <1>2, <1>4, <1>6, <2>2, SameEntries, KeepsStage DEF OthersStay
    <2> QED
      BY <2>1, <2>2
  <1> QED
    BY <1>7, <1>8, <1>9, <1>10, <1>11 DEF IInv

LEMMA MonitorPositionStep == ASSUME IInv, NEW r \in Runs, MonitorPosition(r) PROVE IInv'
  <1> DEFINE v == MonitoredStatus(run[r].case.market)
  <1>1. TypeOK /\ CaseInv /\ StageInv /\ EntryInv /\ LastInv
    BY DEF IInv
  <1>2. /\ run[r].at = "position_monitor"
        /\ UNCHANGED <<backend, journal, report, last, overlapped>>
    BY DEF MonitorPosition, OrdersWith
  <1>3. /\ run' \in [Runs -> RunType]
        /\ run'[r].at = "trade_journal" /\ run'[r].failedAt = run[r].failedAt
        /\ SameCases /\ OthersStay(r)
    <2>1. "trade_journal" \in Positions
      BY DEF Positions, Working
    <2> QED
      BY <1>1, <2>1, MovesOn DEF MonitorPosition, OrdersWith
  <1>4. backend # DOWN /\ ~HasEntry(r) /\ run[r].failedAt = NONE /\ Approved(r)
    BY <1>1, <1>2 DEF StageInv, StageOf, InFlight, Working
  <1>5. /\ orders' \in [OrderStores -> [Runs -> Statuses]]
        /\ orders'[backend.orders][r] = v
        /\ \A o \in OrderStores, q \in Runs :
              o # backend.orders \/ q # r => orders'[o][q] = orders[o][q]
    <2>1. PICK b \in OrderStores : b = backend.orders
      BY <1>1, <1>4 DEF TypeOK
    <2>2. PICK w \in {"OPEN", "CLOSED"} : w = v
      BY DEF MonitoredStatus
    <2>3. Sets(b, r, w)
      BY <2>1, <2>2 DEF MonitorPosition, Sets, OrdersWith
    <2> HIDE DEF v
    <2> QED
      BY <1>1, <2>1, <2>2, <2>3, OneOrder
  <1>6. \A o \in OrderStores : Stored(r, o)' => o = backend.orders
    BY <1>1, <1>2, <1>5 DEF StageInv, StageOf, Stored
  <1>7. TypeOK'
    BY <1>1, <1>2, <1>3, <1>5 DEF TypeOK
  <1>8. CaseInv'
    BY <1>1, <1>3, <1>4, <1>5, KeepsCases DEF Stored
  <1>9. EntryInv'
    BY <1>1, <1>2, <1>3, KeepsEntries
  <1>10. LastInv' /\ InFlight' = InFlight
    BY <1>1, <1>2, <1>3, KeepsLast DEF Working
  <1>11. StageInv'
    <2> SUFFICES ASSUME NEW q \in Runs PROVE StageOf(q)'
      BY DEF StageInv
    <2>1. CASE q = r
      BY <1>1, <1>2, <1>3, <1>4, <1>5, <1>6, <1>10, <2>1, SameEntries
      DEF StageInv, StageOf, Approved, Answering, Working, Stored, SameCases
    <2>2. CASE q # r
      BY <1>1, <1>2, <1>3, <1>5, <2>2, SameEntries, KeepsStage DEF OthersStay
    <2> QED
      BY <2>1, <2>2
  <1> QED
    BY <1>7, <1>8, <1>9, <1>10, <1>11 DEF IInv

\* The entry of a run that has none comes to the journal in use.
LEMMA JournalStep ==
    ASSUME IInv, NEW r \in Runs, run[r].at = "trade_journal",
           NEW x \in {"performance_analyzer", "record_run_at"},
           NEW f \in {run[r].failedAt, "trade_journal"},
           x = "performance_analyzer" => f = run[r].failedAt,
           run' = [run EXCEPT ![r].at = x, ![r].failedAt = f],
           journal' = [journal EXCEPT ![backend.journal] = Append(@, Entry(r))],
           UNCHANGED <<backend, orders, report, last, overlapped>>
    PROVE  IInv'
  <1>1. TypeOK /\ CaseInv /\ StageInv /\ EntryInv /\ LastInv
    BY DEF IInv
  <1>2. /\ run' \in [Runs -> RunType]
        /\ run'[r].at = x /\ run'[r].failedAt = f
        /\ SameCases /\ OthersStay(r)
    <2>1. x \in Positions /\ f \in Stages \cup {NONE}
      BY <1>1 DEF Positions, Working, Answering, Stages, TypeOK, RunType
    <2> QED
      BY <1>1, <2>1, Moves
  <1>3. backend # DOWN /\ ~HasEntry(r)
    BY <1>1 DEF StageInv, StageOf, InFlight, Working
  <1>4. PICK b \in JournalStores : b = backend.journal
    BY <1>1, <1>3 DEF TypeOK
  <1>5. PICK n \in Nat : n = Len(journal[b]) + 1
    BY <1>1 DEF TypeOK
  <1>6. PICK e \in EntryType : e = Entry(r)
    BY <1>1, EntryTells
  <1>7. /\ e.run = r
        /\ Approved(r) => e.result = MonitoredStatus(run[r].case.market)
        /\ e.result = "CLOSED" => Approved(r) /\ e.pnl = RealizedPnl(run[r].case)
    BY <1>1, <1>6, EntryTells
  <1>0. HasOneMore(b, n, r, e)
    <2>1. Appends(b, e)
      BY <1>4, <1>6 DEF Appends
    <2> QED
      BY <1>1, <1>5, <1>7, <2>1, OneEntry
  <1>8. /\ journal' \in [JournalStores -> Seq(EntryType)]
        /\ \A q \in Runs, s \in JournalStores : \A i :
              IsEntry(q, s, i)' <=> (IsEntry(q, s, i) \/ (q = r /\ s = b /\ i = n))
        /\ \A q \in Runs, s \in JournalStores : \A i :
              IsEntry(q, s, i) => journal'[s][i] = journal[s][i]
        /\ journal'[b][n] = e
        /\ HasEntry(r)'
        /\ \A q \in Runs : q # r => (HasEntry(q)' <=> HasEntry(q))
    BY <1>0 DEF HasOneMore
  <1>9. \A s \in JournalStores : \A i : ~IsEntry(r, s, i)
    BY <1>3 DEF HasEntry, IsEntry
  <1>10. TypeOK'
    BY <1>1, <1>2, <1>8 DEF TypeOK
  <1>11. CaseInv'
    BY <1>1, <1>2, KeepsCases DEF Stored
  <1>12. EntryInv'
    <2> SUFFICES ASSUME NEW q \in Runs, NEW s \in JournalStores, NEW i, IsEntry(q, s, i)'
                 PROVE  EntryOf(q, s, i)'
      BY DEF EntryInv
    <2>1. CASE q = r
      <3>1. s = b /\ i = n
        BY <1>8, <1>9, <2>1
      <3>2. \A t \in JournalStores : \A j : IsEntry(q, t, j)' => s = t /\ i = j
        BY <1>8, <1>9, <2>1, <3>1
      <3>3. Approved(q)' <=> Approved(q)
        BY <1>2 DEF SameCases, Approved
      <3> QED
        BY <1>2, <1>7, <1>8, <2>1, <3>1, <3>2, <3>3 DEF EntryOf, SameCases
    <2>2. CASE q # r
      <3>1. IsEntry(q, s, i) /\ journal'[s][i] = journal[s][i]
        BY <1>8, <2>2
      <3>2. EntryOf(q, s, i)
        BY <1>1, <3>1 DEF EntryInv, IsEntry
      <3>3. \A t \in JournalStores : \A j : IsEntry(q, t, j)' => IsEntry(q, t, j)
        BY <1>8, <2>2
      <3>4. \A t \in JournalStores : \A j : IsEntry(q, t, j) => j \in DOMAIN journal[t]
        BY DEF IsEntry
      <3> QED
        BY <1>2, <3>1, <3>2, <3>3, <3>4 DEF EntryOf, Approved, SameCases
    <2> QED
      BY <2>1, <2>2
  <1>13. LastInv' /\ InFlight' = InFlight
    BY <1>1, <1>2, KeepsLast DEF Working
  <1>14. StageInv'
    <2> SUFFICES ASSUME NEW q \in Runs PROVE StageOf(q)'
      BY DEF StageInv
    <2>1. CASE q = r
      BY <1>1, <1>2, <1>3, <1>8, <1>13, <2>1
      DEF StageInv, StageOf, Approved, Answering, Working, Stored, SameCases
    <2>2. CASE q # r
      BY <1>1, <1>2, <1>8, <2>2, KeepsStage DEF OthersStay
    <2> QED
      BY <2>1, <2>2
  <1> QED
    BY <1>10, <1>11, <1>12, <1>13, <1>14 DEF IInv

LEMMA WriteEntryStep == ASSUME IInv, NEW r \in Runs, WriteEntry(r) PROVE IInv'
  <1>1. run \in [Runs -> RunType]
    BY DEF IInv, TypeOK
  <1>2. run' = [run EXCEPT ![r].at = "performance_analyzer", ![r].failedAt = run[r].failedAt]
    BY <1>1 DEF WriteEntry, RunType, JournalWith
  <1> QED
    BY <1>2, JournalStep DEF WriteEntry, JournalWith
LEMMA ReadEntriesStep == ASSUME IInv, NEW r \in Runs, ReadEntries(r) PROVE IInv'
  <1>1. TypeOK /\ CaseInv /\ StageInv /\ EntryInv /\ LastInv
    BY DEF IInv
  <1>2. /\ run[r].at = "performance_analyzer"
        /\ UNCHANGED <<backend, orders, journal, report, last, overlapped>>
    BY DEF ReadEntries, EntriesStored
  <1>3. PICK x \in {"persist_report", "record_run_at"} :
            run' = [run EXCEPT ![r].at = x, ![r].read = Len(journal[backend.journal])]
    BY DEF ReadEntries, EntriesStored
  <1>4. backend # DOWN /\ HasEntry(r) /\ run[r].failedAt = NONE
    BY <1>1, <1>2 DEF StageInv, StageOf, InFlight, Working
  <1>5. /\ run' \in [Runs -> RunType]
        /\ run'[r].at = x /\ run'[r].failedAt = run[r].failedAt
        /\ SameCases /\ OthersStay(r)
    <2>1. Len(journal[backend.journal]) \in Nat
      BY <1>1, <1>4 DEF TypeOK
    <2>2. x \in Positions
      BY DEF Positions, Working, Answering
    <2> QED
      BY <1>1, <1>3, <2>1, <2>2 DEF TypeOK, RunType, SameCases, OthersStay
  <1>6. TypeOK'
    BY <1>1, <1>2, <1>5 DEF TypeOK
  <1>7. CaseInv'
    BY <1>1, <1>2, <1>5, KeepsCases DEF Stored
  <1>8. EntryInv'
    BY <1>1, <1>2, <1>5, KeepsEntries
  <1>9. LastInv' /\ InFlight' = InFlight
    BY <1>1, <1>2, <1>5, KeepsLast DEF Working
  <1>10. StageInv'
    <2> SUFFICES ASSUME NEW q \in Runs PROVE StageOf(q)'
      BY DEF StageInv
    <2>1. CASE q = r
      BY <1>1, <1>2, <1>4, <1>5, <1>9, <2>1, SameEntries
      DEF StageInv, StageOf, Approved, Answering, Working, Stored, SameCases
    <2>2. CASE q # r
      BY <1>1, <1>2, <1>5, <2>2, SameEntries, KeepsStage DEF OthersStay
    <2> QED
      BY <2>1, <2>2
  <1> QED
    BY <1>6, <1>7, <1>8, <1>9, <1>10 DEF IInv

\* A run leaves persist_report with the report changed, or fails at a stage
\* with only the report changed.
LEMMA LeavesStep ==
    ASSUME IInv, NEW r \in Runs, run[r].at \in Working,
           NEW f \in {NONE, run[r].at}, f = NONE => run[r].at = "persist_report",
           run' = [run EXCEPT ![r].at = "record_run_at", ![r].failedAt = f],
           report' # None => report'.by \in Runs /\ report'.of \in JournalStores,
           UNCHANGED <<backend, orders, journal, last, overlapped>>
    PROVE  IInv'
  <1>1. TypeOK /\ CaseInv /\ StageInv /\ EntryInv /\ LastInv
    BY DEF IInv
  <1>2. /\ run' \in [Runs -> RunType]
        /\ run'[r].at = "record_run_at" /\ run'[r].failedAt = f
        /\ SameCases /\ OthersStay(r)
    <2>1. "record_run_at" \in Positions /\ f \in Stages \cup {NONE}
      BY DEF Positions, Answering, Stages
    <2> QED
      BY <1>1, <2>1, Moves
  <1>3. backend # DOWN /\ (run[r].at = "persist_report" => HasEntry(r))
    BY <1>1 DEF StageInv, StageOf, InFlight
  <1>4. TypeOK'
    BY <1>1, <1>2 DEF TypeOK
  <1>5. CaseInv'
    BY <1>1, <1>2, KeepsCases DEF Stored
  <1>6. EntryInv'
    BY <1>1, <1>2, KeepsEntries
  <1>7. LastInv' /\ InFlight' = InFlight
    BY <1>1, <1>2, KeepsLast
  <1>8. StageInv'
    <2> SUFFICES ASSUME NEW q \in Runs PROVE StageOf(q)'
      BY DEF StageInv
    <2>1. CASE q = r
      <3>1. f # NONE \/ HasEntry(r)
        BY <1>3
      <3>2. HasEntry(r) =>
               \A o \in OrderStores : Stored(r, o) => orders[o][r] = MonitoredStatus(run[r].case.market)
        BY <1>1 DEF StageInv, StageOf
      <3> QED
        BY <1>2, <1>3, <2>1, <3>1, <3>2, SameEntries
        DEF StageOf, Approved, Answering, Working, Stored, SameCases
    <2>2. CASE q # r
      BY <1>1, <1>2, <2>2, SameEntries, KeepsStage DEF OthersStay
    <2> QED
      BY <2>1, <2>2
  <1> QED
    BY <1>4, <1>5, <1>6, <1>7, <1>8 DEF IInv

LEMMA PersistReportStep == ASSUME IInv, NEW r \in Runs, PersistReport(r) PROVE IInv'
  <1>1. TypeOK /\ StageInv /\ run[r].at = "persist_report"
    BY DEF IInv, PersistReport
  <1>2. run[r].failedAt = NONE /\ backend.journal \in JournalStores
    BY <1>1 DEF StageInv, StageOf, InFlight, Working, TypeOK
  <1>3. run' = [run EXCEPT ![r].at = "record_run_at", ![r].failedAt = NONE]
    BY <1>1, <1>2 DEF PersistReport, TypeOK, RunType
  <1>4. report'.by = r /\ report'.of = backend.journal
    BY DEF PersistReport
  <1> QED
    BY <1>1, <1>2, <1>3, <1>4, LeavesStep DEF PersistReport, Working
\* The order store writes what it was asked to, and raises all the same.
LEMMA FailsWithOrder ==
    ASSUME IInv, NEW r \in Runs, run[r].at \in {"paper_execution", "position_monitor"}, Approved(r),
           NEW v \in {"OPEN", "CLOSED"},
           run' = [run EXCEPT ![r].at = "record_run_at", ![r].failedAt = run[r].at],
           orders' = [orders EXCEPT ![backend.orders][r] = v],
           UNCHANGED <<backend, journal, report, last, overlapped>>
    PROVE  IInv'
  <1>1. TypeOK /\ CaseInv /\ StageInv /\ EntryInv /\ LastInv
    BY DEF IInv
  <1>2. /\ run' \in [Runs -> RunType]
        /\ run'[r].at = "record_run_at" /\ run'[r].failedAt = run[r].at
        /\ SameCases /\ OthersStay(r)
    <2>1. "record_run_at" \in Positions /\ run[r].at \in Stages
      BY DEF Positions, Answering, Stages, Working
    <2> QED
      BY <1>1, <2>1, Moves
  <1>3. backend # DOWN /\ ~HasEntry(r) /\ run[r].at # NONE
    BY <1>1 DEF StageInv, StageOf, InFlight, Working, NONE
  <1>4. /\ orders' \in [OrderStores -> [Runs -> Statuses]]
        /\ \A o \in OrderStores, q \in Runs : q # r => orders'[o][q] = orders[o][q]
    <2>1. PICK b \in OrderStores : b = backend.orders
      BY <1>1, <1>3 DEF TypeOK
    <2>2. Sets(b, r, v)
      BY <2>1 DEF Sets
    <2> QED
      BY <1>1, <2>2, OneOrder
  <1>5. TypeOK'
    BY <1>1, <1>2, <1>4 DEF TypeOK
  <1>6. CaseInv'
    BY <1>1, <1>2, <1>4, KeepsCases DEF Stored
  <1>7. EntryInv'
    BY <1>1, <1>2, KeepsEntries
  <1>8. LastInv' /\ InFlight' = InFlight
    BY <1>1, <1>2, KeepsLast DEF Working
  <1>9. StageInv'
    <2> SUFFICES ASSUME NEW q \in Runs PROVE StageOf(q)'
      BY DEF StageInv
    <2>1. CASE q = r
      BY <1>2, <1>3, <2>1, SameEntries DEF StageOf, Answering, Working
    <2>2. CASE q # r
      BY <1>1, <1>2, <1>4, <2>2, SameEntries, KeepsStage DEF OthersStay
    <2> QED
      BY <2>1, <2>2
  <1> QED
    BY <1>5, <1>6, <1>7, <1>8, <1>9 DEF IInv

LEMMA StageFailsStep == ASSUME IInv, NEW r \in Runs, StageFails(r) PROVE IInv'
  <1>1. /\ run[r].at \in Working
        /\ run[r].at \in {"paper_execution", "position_monitor"} => Approved(r)
        /\ run' = [run EXCEPT ![r].at = "record_run_at", ![r].failedAt = run[r].at]
        /\ UNCHANGED <<backend, last, overlapped>>
    BY DEF StageFails, OrdersWith, JournalWith
  <1>2. run[r].at # NONE
    BY <1>1 DEF Working, NONE
  <1>3. CASE /\ UNCHANGED <<orders, journal>>
             /\ report' = report \/ report' = None
    <2>1. report' # None => report'.by \in Runs /\ report'.of \in JournalStores
      BY <1>3 DEF IInv, TypeOK
    <2>2. PICK f \in {NONE, run[r].at} : f = run[r].at
      OBVIOUS
    <2> QED
      BY <1>1, <1>2, <1>3, <2>1, <2>2, LeavesStep
  <1>4. CASE /\ run[r].at = "paper_execution"
             /\ orders' = [orders EXCEPT ![backend.orders][r] = "OPEN"]
             /\ UNCHANGED <<journal, report>>
    BY <1>1, <1>4, FailsWithOrder
  <1>5. CASE /\ run[r].at = "position_monitor"
             /\ orders' = [orders EXCEPT ![backend.orders][r] = MonitoredStatus(run[r].case.market)]
             /\ UNCHANGED <<journal, report>>
    <2>1. MonitoredStatus(run[r].case.market) \in {"OPEN", "CLOSED"}
      BY DEF MonitoredStatus
    <2> QED
      BY <1>1, <1>5, <2>1, FailsWithOrder
  <1>6. CASE /\ run[r].at = "trade_journal"
             /\ journal' = [journal EXCEPT ![backend.journal] = Append(@, Entry(r))]
             /\ UNCHANGED <<orders, report>>
    BY <1>1, <1>6, JournalStep
  <1> QED
    BY <1>3, <1>4, <1>5, <1>6 DEF StageFails, OrdersWith, JournalWith
\* An assignment to one of the last_* fields.
LEMMA AnswerStep ==
    ASSUME IInv, NEW r \in Runs, run[r].at \in Answering,
           NEW x \in Positions, run' = [run EXCEPT ![r].at = x],
           \/ /\ run[r].at = "record_run_at" /\ x = "record_decision"
              /\ last' = [last EXCEPT !.runAt = r]
           \/ /\ run[r].at = "record_decision" /\ x = "record_result"
              /\ last' = [last EXCEPT !.decision = r]
           \/ /\ run[r].at = "record_result" /\ x = "answered"
              /\ last' = [last EXCEPT !.result = r],
           UNCHANGED <<backend, orders, journal, report, overlapped>>
    PROVE  IInv'
  <1>1. TypeOK /\ CaseInv /\ StageInv /\ EntryInv /\ LastInv
    BY DEF IInv
  <1>2. /\ run' \in [Runs -> RunType]
        /\ run'[r].at = x /\ run'[r].failedAt = run[r].failedAt
        /\ SameCases /\ OthersStay(r)
    BY <1>1, MovesOn
  <1>3. r \in InFlight /\ backend # DOWN
    BY <1>1 DEF StageInv, StageOf, InFlight
  <1>4. TypeOK'
    BY <1>1, <1>2 DEF TypeOK
  <1>5. CaseInv'
    BY <1>1, <1>2, KeepsCases DEF Stored
  <1>6. EntryInv'
    BY <1>1, <1>2, KeepsEntries
  <1>7. StageInv'
    <2> SUFFICES ASSUME NEW q \in Runs PROVE StageOf(q)'
      BY DEF StageInv
    <2>1. CASE q = r
      <3>1. run[r].failedAt = NONE => HasEntry(r)
        BY <1>1 DEF StageInv, StageOf
      <3>2. HasEntry(r) =>
               \A o \in OrderStores : Stored(r, o) => orders[o][r] = MonitoredStatus(run[r].case.market)
        BY <1>1 DEF StageInv, StageOf
      <3> QED
        BY <1>2, <1>3, <2>1, <3>1, <3>2, SameEntries
        DEF StageOf, Answering, Working, Stored, SameCases
    <2>2. CASE q # r
      BY <1>1, <1>2, <2>2, SameEntries, KeepsStage DEF OthersStay
    <2> QED
      BY <2>1, <2>2
  <1>8. LastInv'
    <2> SUFFICES ASSUME ~overlapped PROVE LastInv'
      BY DEF LastInv
    <2>1. /\ \A q \in InFlight : q = r
          /\ \A q \in InFlight' : q = r
      BY <1>1, <1>2, <1>3, Alone
    <2>2. /\ run[r].at \in {"record_decision", "record_result"} => last.runAt = r
          /\ run[r].at = "record_result" => last.decision = r
      BY <1>1, <1>3 DEF LastInv
    <2>3. x # "answered" => r \in InFlight'
      BY <1>2 DEF InFlight, Answering
    <2> QED
      BY <1>1, <1>2, <2>1, <2>2, <2>3 DEF LastInv, TypeOK
  <1> QED
    BY <1>4, <1>5, <1>6, <1>7, <1>8 DEF IInv

LEMMA NextInv == IInv /\ [Next]_paperVars => IInv'
  <1> SUFFICES ASSUME IInv, [Next]_paperVars PROVE IInv'
    OBVIOUS
  <1>1. CASE Boot
    BY <1>1, BootStep
  <1>2. CASE ProcessEnds
    BY <1>2, ProcessEndsStep
  <1>3. ASSUME NEW r \in Runs, Stage(r)
        PROVE  IInv'
    <2>1. {"record_decision", "record_result", "answered"} \subseteq Positions
      BY DEF Positions, Answering
    <2>2. CASE RecordRunAt(r) \/ RecordDecision(r) \/ RecordResult(r)
      <3>1. PICK x \in Positions :
               /\ run[r].at \in Answering
               /\ run' = [run EXCEPT ![r].at = x]
               /\ UNCHANGED <<backend, orders, journal, report, overlapped>>
               /\ \/ /\ run[r].at = "record_run_at" /\ x = "record_decision"
                     /\ last' = [last EXCEPT !.runAt = r]
                  \/ /\ run[r].at = "record_decision" /\ x = "record_result"
                     /\ last' = [last EXCEPT !.decision = r]
                  \/ /\ run[r].at = "record_result" /\ x = "answered"
                     /\ last' = [last EXCEPT !.result = r]
        BY <2>1, <2>2 DEF RecordRunAt, RecordDecision, RecordResult, Answering
      <3> QED
        BY <3>1, AnswerStep
    <2> QED
      BY <1>3, <2>2, ReceiveStep, CreateOrderStep, MonitorPositionStep, WriteEntryStep,
         ReadEntriesStep, PersistReportStep DEF Stage
  <1>4. ASSUME NEW r \in Runs, StageFails(r)
        PROVE  IInv'
    BY <1>4, StageFailsStep
  <1>5. CASE UNCHANGED paperVars
    <2>1. UNCHANGED <<backend, run, orders, journal, report, last, overlapped>>
      BY <1>5 DEF paperVars
    <2>2. TypeOK' /\ CaseInv' /\ LastInv' /\ EntryInv'
      BY <2>1 DEF IInv, TypeOK, CaseInv, LastInv, EntryInv, EntryOf, IsEntry, Stored, Approved, InFlight
    <2>3. StageInv'
      BY <2>1, SameEntries, KeepsStage DEF IInv, StageInv
    <2> QED
      BY <2>2, <2>3 DEF IInv
  <1> QED
    BY <1>1, <1>2, <1>3, <1>4, <1>5 DEF Next

\* Whatever the requests, the settings, the interleaving of the runs and the
\* failures, the stores and the runs fit together as IInv says.
THEOREM Invariance == Spec => []IInv
  BY InitInv, NextInv, PTL DEF Spec

-----------------------------------------------------------------------------
\* The properties

\* Every paper order goes with a trend, has its stop and target around the
\* entry, and keeps to the limits on the risk of a trade and of a day.
THEOREM OrdersAreSound == Spec => []OrdersSound
  <1>1. IInv => OrdersSound
    <2> SUFFICES ASSUME IInv, NEW r \in Runs, NEW s \in OrderStores, Stored(r, s)
                 PROVE  Sound(run[r].case)
      BY DEF OrdersSound, Sound
    <2>1. /\ run[r].case \in Cases
          /\ FailsAt(run[r].case) = NONE
          /\ Decision(run[r].case) = "APPROVE"
      BY DEF IInv, CaseInv
    <2> QED
      BY <2>1, ApprovedSound
  <1> QED
    BY <1>1, Invariance, PTL

\* Order store and journal agree on every run, and an order without an entry
\* is one of a run that has not succeeded.
THEOREM JournalsTellOrders == Spec => []JournalTellsOrders
  <1>1. IInv => JournalTellsOrders
    <2> SUFFICES ASSUME IInv PROVE JournalTellsOrders
      OBVIOUS
    <2>0. TypeOK /\ CaseInv /\ StageInv /\ EntryInv
      BY DEF IInv
    <2>1. ASSUME NEW r \in Runs, NEW s \in JournalStores, NEW i, IsEntry(r, s, i)
          PROVE  EntryOf(r, s, i) /\ HasEntry(r)
      BY <2>0, <2>1 DEF EntryInv, IsEntry, HasEntry
    <2>2. ASSUME NEW r \in Runs, NEW s \in JournalStores, NEW t \in JournalStores,
                 NEW i, NEW j, IsEntry(r, s, i), IsEntry(r, t, j)
          PROVE  s = t /\ i = j
      BY <2>1, <2>2 DEF EntryOf, IsEntry
    <2>3. ASSUME NEW r \in Runs, run[r].at = "answered", run[r].failedAt = NONE
          PROVE  HasEntry(r)
      BY <2>0, <2>3 DEF StageInv, StageOf
    <2>4. ASSUME NEW r \in Runs, NEW o \in OrderStores, Stored(r, o)
          PROVE  IF HasEntry(r)
                 THEN \A s \in JournalStores : \A i \in DOMAIN journal[s] :
                         IsEntry(r, s, i) => journal[s][i].result = orders[o][r]
                 ELSE r \in InFlight \/ run[r].at = "killed" \/ run[r].failedAt # NONE
      <3>1. Approved(r)
        BY <2>0, <2>4 DEF CaseInv
      <3>2. CASE HasEntry(r)
        <4>1. orders[o][r] = MonitoredStatus(run[r].case.market)
          BY <2>0, <2>4, <3>2 DEF StageInv, StageOf
        <4> QED
          BY <2>1, <3>1, <3>2, <4>1 DEF EntryOf
      <3>3. CASE ~HasEntry(r)
        <4>1. run[r].at \in Positions /\ run[r].at # "new"
          BY <2>0, <3>1 DEF StageInv, StageOf, TypeOK, RunType
        <4>2. run[r].at = "answered" => run[r].failedAt # NONE
          BY <2>3, <3>3
        <4> QED
          BY <3>3, <4>1, <4>2 DEF Positions, InFlight
      <3> QED
        BY <3>2, <3>3
    <2> QED
      BY <2>2, <2>3, <2>4 DEF JournalTellsOrders
  <1> QED
    BY <1>1, Invariance, PTL

\* No paper trade is booked as a profit when its stop was reached, or with a
\* loss beyond the planned one.
THEOREM LossesAreAssumed == Spec => []LossesAssumed
  <1>1. IInv => LossesAssumed
    <2> SUFFICES ASSUME IInv, NEW r \in Runs, NEW s \in JournalStores, NEW i \in DOMAIN journal[s],
                        IsEntry(r, s, i), journal[s][i].result = "CLOSED"
                 PROVE  /\ journal[s][i].pnl > 0 => ~StopHit(run[r].case.market)
                        /\ journal[s][i].pnl >= -RiskAmount(run[r].case.request)
      BY DEF LossesAssumed
    <2>1. Approved(r) /\ journal[s][i].pnl = RealizedPnl(run[r].case)
      BY DEF IInv, EntryInv, EntryOf
    <2>2. PICK c \in Cases : /\ c = run[r].case
                            /\ FailsAt(c) = NONE /\ Decision(c) = "APPROVE"
      BY <2>1 DEF IInv, CaseInv
    <2>3. /\ RiskAmount(c.request) \in Int /\ RiskAmount(c.request) > 0
          /\ RealizedPnl(c) = IF StopHit(c.market) THEN -RiskAmount(c.request)
                              ELSE 2 * RiskAmount(c.request)
      BY <2>2, PnlOfHits
    <2> QED
      BY <2>1, <2>2, <2>3
  <1> QED
    BY <1>1, Invariance, PTL

\* The status fields speak of one run, unless runs overlapped.
THEOREM StatusIsOfOneRun == Spec => []StatusOfOneRun
  <1>1. IInv => StatusOfOneRun
    BY DEF IInv, LastInv, StatusOfOneRun
  <1> QED
    BY <1>1, Invariance, PTL

-----------------------------------------------------------------------------
\* What a fold over a sequence computes.  There is no induction theorem to cite
\* that does not take an operator: well-foundedness gives induction for sets.

\* Induction: a set with 0 and the successors of its members holds all numbers.
LEMMA NatInSets ==
    ASSUME NEW S, 0 \in S, \A n \in Nat : n \in S => n + 1 \in S
    PROVE  Nat \subseteq S
  <1> SUFFICES ASSUME ~(Nat \subseteq S) PROVE FALSE
    OBVIOUS
  <1> DEFINE T == Nat \ S
  <1>1. PICK x \in T : \A y \in T : ~(<<y, x>> \in OpToRel(<, Nat))
    <2>1. T # {} /\ T \subseteq Nat
      OBVIOUS
    <2> QED
      BY <2>1, NatLessThanWellFounded, WFMin
  <1>2. \A y \in T : ~(y < x)
    BY <1>1 DEF OpToRel
  <1>3. x - 1 \in Nat /\ x - 1 \in S
    BY <1>2
  <1> QED
    BY <1>3

LEMMA HasMax ==
    ASSUME NEW s, NEW m \in s, \A x \in s : m >= x, s \subseteq Int
    PROVE  Max(s) = m
  <1>1. \E x \in s : \A y \in s : x >= y
    OBVIOUS
  <1>2. Max(s) \in s /\ \A y \in s : Max(s) >= y
    BY <1>1 DEF Max
  <1>3. Max(s) >= m /\ m >= Max(s) /\ Max(s) \in Int /\ m \in Int
    BY <1>2
  <1> QED
    BY <1>3

LEMMA SomeMax ==
    ASSUME NEW n \in Nat, NEW s \in SUBSET (1 .. n), s # {}
    PROVE  Max(s) \in s
  <1> DEFINE Bounded == {k \in Nat : \A t \in SUBSET (1 .. k) : t # {} =>
                                        \E m \in t : \A x \in t : m >= x}
  <1>1. 0 \in Bounded
    <2>1. \A t \in SUBSET (1 .. 0) : t = {}
      OBVIOUS
    <2> QED
      BY <2>1
  <1>2. ASSUME NEW k \in Nat, k \in Bounded PROVE k + 1 \in Bounded
    <2> SUFFICES ASSUME NEW t \in SUBSET (1 .. k + 1), t # {}
                 PROVE  \E m \in t : \A x \in t : m >= x
      OBVIOUS
    <2>1. CASE k + 1 \in t
      BY <2>1
    <2>2. CASE k + 1 \notin t
      <3>1. t \in SUBSET (1 .. k)
        BY <2>2
      <3> QED
        BY <1>2, <3>1
    <2> QED
      BY <2>1, <2>2
  <1>3. Nat \subseteq Bounded
    <2> HIDE DEF Bounded
    <2> QED
      BY <1>1, <1>2, NatInSets
  <1>4. n \in Bounded
    <2> HIDE DEF Bounded
    <2> QED
      BY <1>3
  <1>5. PICK m \in s : \A x \in s : m >= x
    BY <1>4
  <1>6. s \subseteq Int
    OBVIOUS
  <1> QED
    BY <1>5, <1>6, HasMax

\* The recursion of MapThenFoldSet, over the first n numbers from the greatest
\* down, has a solution.
FoldsTo(g, n, base, step) ==
    \A s \in SUBSET (1 .. n) :
       g[s] = IF s = {} THEN base ELSE step[<<g[s \ {Max(s)}], Max(s)>>]

LEMMA FoldExists ==
    ASSUME NEW n \in Nat, NEW A, NEW base \in A, NEW step \in [A \X (1 .. n) -> A]
    PROVE  \E g \in [SUBSET (1 .. n) -> A] : FoldsTo(g, n, base, step)
  <1> DEFINE Solves(g, k) ==
               \A s \in SUBSET (1 .. k) :
                  g[s] = IF s = {} THEN base ELSE step[<<g[s \ {Max(s)}], Max(s)>>]
             Solved == {k \in Nat : k <= n => \E g \in [SUBSET (1 .. k) -> A] : Solves(g, k)}
  <1>1. 0 \in Solved
    <2>0. \A s \in SUBSET (1 .. 0) : s = {}
      OBVIOUS
    <2>1. [s \in SUBSET (1 .. 0) |-> base] \in [SUBSET (1 .. 0) -> A]
      BY <2>0
    <2>2. Solves([s \in SUBSET (1 .. 0) |-> base], 0)
      BY <2>0
    <2> QED
      BY <2>1, <2>2
  <1>2. ASSUME NEW k \in Nat, k \in Solved PROVE k + 1 \in Solved
    <2> SUFFICES ASSUME k + 1 <= n PROVE \E g \in [SUBSET (1 .. k + 1) -> A] : Solves(g, k + 1)
      <3>1. k + 1 \in Nat
        OBVIOUS
      <3> HIDE DEF Solves
      <3> QED
        BY <3>1
    <2>1. PICK f \in [SUBSET (1 .. k) -> A] : Solves(f, k)
      <3>1. k <= n
        OBVIOUS
      <3> QED
        BY <1>2, <3>1
    <2> DEFINE g == [s \in SUBSET (1 .. k + 1) |->
                       IF k + 1 \in s THEN step[<<f[s \ {k + 1}], k + 1>>] ELSE f[s]]
    <2>2. ASSUME NEW s \in SUBSET (1 .. k + 1)
          PROVE  (s \ {k + 1}) \in SUBSET (1 .. k) /\ (k + 1 \notin s => s \in SUBSET (1 .. k))
      OBVIOUS
    <2>3. g \in [SUBSET (1 .. k + 1) -> A]
      BY <2>2
    <2>4. ASSUME NEW s \in SUBSET (1 .. k)
          PROVE  g[s] = f[s] /\ s \in SUBSET (1 .. k + 1)
      OBVIOUS
    <2>5. ASSUME NEW s \in SUBSET (1 .. k + 1)
          PROVE  g[s] = IF s = {} THEN base ELSE step[<<g[s \ {Max(s)}], Max(s)>>]
      <3>1. CASE k + 1 \in s
        <4>1. Max(s) = k + 1
          <5>1. s \subseteq Int /\ \A x \in s : k + 1 >= x
            OBVIOUS
          <5> QED
            BY <3>1, <5>1, HasMax
        <4>2. g[s \ {k + 1}] = f[s \ {k + 1}]
          BY <2>2, <2>4
        <4>3. g[s] = step[<<f[s \ {k + 1}], k + 1>>]
          BY <3>1
        <4> HIDE DEF g
        <4> QED BY <3>1, <4>1, <4>2, <4>3
      <3>2. CASE k + 1 \notin s
        <4>1. s \in SUBSET (1 .. k)
          BY <2>2, <3>2
        <4>2. (s \ {Max(s)}) \in SUBSET (1 .. k)
          BY <4>1
        <4>3. g[s] = f[s] /\ g[s \ {Max(s)}] = f[s \ {Max(s)}]
          BY <2>4, <4>1, <4>2
        <4> HIDE DEF g
        <4> QED BY <2>1, <4>1, <4>3
      <3> QED BY <3>1, <3>2
    <2> HIDE DEF g
    <2> QED
      BY <2>3, <2>5
  <1>3. n \in Solved
    <2>1. Nat \subseteq Solved
      <3> HIDE DEF Solved
      <3> QED BY <1>1, <1>2, NatInSets
    <2> HIDE DEF Solved
    <2> QED BY <2>1
  <1>4. \E g \in [SUBSET (1 .. n) -> A] : Solves(g, n)
    <2>1. n <= n
      OBVIOUS
    <2> QED
      BY <1>3, <2>1
  <1> QED
    BY <1>4 DEF FoldsTo

\* Induction along the first n numbers.
LEMMA Along ==
    ASSUME NEW n \in Nat, NEW S, 0 \in S, \A i \in 1 .. n : i - 1 \in S => i \in S
    PROVE  0 .. n \subseteq S
  <1> DEFINE T == {i \in Nat : i <= n => i \in S}
  <1>1. 0 \in T
    OBVIOUS
  <1>2. ASSUME NEW i \in Nat, i \in T PROVE i + 1 \in T
    <2>1. i + 1 <= n => i + 1 \in 1 .. n /\ (i + 1) - 1 \in S
      BY <1>2
    <2> QED
      BY <2>1
  <1>3. Nat \subseteq T
    <2> HIDE DEF T
    <2> QED
      BY <1>1, <1>2, NatInSets
  <1> QED
    BY <1>3

LEMMA FirstOnes ==
    ASSUME NEW n \in Nat, NEW i \in 1 .. n
    PROVE  /\ Max(1 .. i) = i
           /\ (1 .. i) \ {i} = 1 .. (i - 1)
           /\ 1 .. i # {} /\ (1 .. i) \in SUBSET (1 .. n)
  <1>1. 1 .. i \subseteq Int /\ i \in 1 .. i /\ \A x \in 1 .. i : i >= x
    OBVIOUS
  <1>2. Max(1 .. i) = i
    BY <1>1, HasMax
  <1> QED
    BY <1>2

\* A fold of such a recursion is the last of a chain of values, each made of
\* the one before.
Folds(fold, n, A, base, step) ==
    /\ fold[{}] = base
    /\ \A s \in SUBSET (1 .. n) : s # {} /\ fold[s \ {Max(s)}] \in A =>
          fold[s] = step[<<fold[s \ {Max(s)}], Max(s)>>]

IsChain(h, n, base, step, end) ==
    /\ h[0] = base
    /\ \A i \in 1 .. n : h[i] = step[<<h[i - 1], i>>]
    /\ h[n] = end

LEMMA FoldChain ==
    ASSUME NEW n \in Nat, NEW A, NEW base \in A, NEW step \in [A \X (1 .. n) -> A],
           NEW fold, Folds(fold, n, A, base, step)
    PROVE  \E h \in [0 .. n -> A] : IsChain(h, n, base, step, fold[1 .. n])
  <1> DEFINE h == [i \in 0 .. n |-> fold[1 .. i]]
             S == {i \in 0 .. n : h[i] \in A}
  <1>1. h[0] = base
    <2>1. 1 .. 0 = {} /\ 0 \in 0 .. n
      OBVIOUS
    <2> QED
      BY <2>1 DEF Folds
  <1>2. ASSUME NEW i \in 1 .. n, h[i - 1] \in A PROVE h[i] = step[<<h[i - 1], i>>]
    <2>1. /\ Max(1 .. i) = i
          /\ (1 .. i) \ {i} = 1 .. (i - 1)
          /\ 1 .. i # {} /\ (1 .. i) \in SUBSET (1 .. n)
      BY FirstOnes
    <2>2. h[i] = fold[1 .. i] /\ h[i - 1] = fold[1 .. (i - 1)]
      OBVIOUS
    <2> HIDE DEF h
    <2> QED
      BY <1>2, <2>1, <2>2 DEF Folds
  <1>3. 0 .. n \subseteq S
    <2>1. 0 \in S
      BY <1>1
    <2>2. ASSUME NEW i \in 1 .. n, i - 1 \in S PROVE i \in S
      <3>1. h[i - 1] \in A /\ i \in 0 .. n
        BY <2>2
      <3> HIDE DEF h
      <3> QED
        BY <1>2, <3>1
    <2> HIDE DEF S
    <2> QED
      BY <2>1, <2>2, Along
  <1>4. h \in [0 .. n -> A] /\ h[n] = fold[1 .. n]
    <2>1. \A i \in 0 .. n : fold[1 .. i] \in A
      BY <1>3
    <2> QED
      BY <2>1
  <1>5. \A i \in 1 .. n : h[i] = step[<<h[i - 1], i>>]
    <2>1. \A i \in 1 .. n : i - 1 \in 0 .. n
      OBVIOUS
    <2> HIDE DEF h
    <2> QED
      BY <1>2, <1>4, <2>1
  <1> HIDE DEF h
  <1> QED
    BY <1>1, <1>4, <1>5 DEF IsChain

-----------------------------------------------------------------------------
\* The folds of the analysis

\* The running totals.
Totals(h, pnls) ==
    /\ h \in [0 .. Len(pnls) -> Int]
    /\ h[0] = 0
    /\ \A i \in 1 .. Len(pnls) : h[i] = h[i - 1] + pnls[i]
    /\ h[Len(pnls)] = Total(pnls)

LEMMA TotalIsFold ==
    ASSUME NEW pnls \in Seq(Int)
    PROVE  \E h : Totals(h, pnls)
  <1> DEFINE n == Len(pnls)
             step == [x \in Int \X (1 .. n) |-> x[1] + pnls[x[2]]]
             Body(g) == [s \in SUBSET (1 .. n) |->
                            IF s = {} THEN 0 ELSE g[s \ {Max(s)}] + pnls[Max(s)]]
             fold == CHOOSE g : g = Body(g)
  <1>0. n \in Nat /\ DOMAIN pnls = 1 .. n
    OBVIOUS
  <1>1. Total(pnls) = fold[1 .. n]
    BY <1>0 DEF Total, FoldLeft, MapThenFoldSet
  <1>2. step \in [Int \X (1 .. n) -> Int]
    <2>1. \A i \in 1 .. n : pnls[i] \in Int
      OBVIOUS
    <2> QED
      BY <2>1
  <1>3. ASSUME NEW x \in Int, NEW i \in 1 .. n PROVE step[<<x, i>>] = x + pnls[i]
    OBVIOUS
  <1>4. PICK g \in [SUBSET (1 .. n) -> Int] :
              \A s \in SUBSET (1 .. n) :
                 g[s] = IF s = {} THEN 0 ELSE step[<<g[s \ {Max(s)}], Max(s)>>]
    <2> DEFINE A == Int
               base == 0
    <2>1. base \in A /\ step \in [A \X (1 .. n) -> A]
      BY <1>2
    <2>2. \E g \in [SUBSET (1 .. n) -> A] : FoldsTo(g, n, base, step)
      <3> HIDE DEF step, A, base
      <3> QED
        BY <1>0, <2>1, FoldExists
    <2> HIDE DEF step
    <2> QED
      BY <2>2 DEF FoldsTo
  <1> HIDE DEF step
  <1>5. ASSUME NEW s \in SUBSET (1 .. n), s # {}
        PROVE  Max(s) \in 1 .. n /\ (s \ {Max(s)}) \in SUBSET (1 .. n)
    BY <1>0, <1>5, SomeMax
  <1>6. g = Body(g)
    <2>1. \A s \in SUBSET (1 .. n) : g[s] = Body(g)[s]
      BY <1>3, <1>4, <1>5
    <2> QED
      BY <2>1
  <1>7. fold = Body(fold)
    <2> HIDE DEF Body
    <2> QED
      BY <1>6
  <1> HIDE DEF fold
  <1>8. /\ fold[{}] = 0
        /\ \A s \in SUBSET (1 .. n) : s # {} => fold[s] = fold[s \ {Max(s)}] + pnls[Max(s)]
    BY <1>7
  <1>9. Folds(fold, n, Int, 0, step)
    BY <1>3, <1>5, <1>8 DEF Folds
  <1>10. PICK h \in [0 .. n -> Int] : IsChain(h, n, 0, step, fold[1 .. n])
    <2> DEFINE A == Int
               base == 0
    <2>1. base \in A /\ step \in [A \X (1 .. n) -> A] /\ Folds(fold, n, A, base, step)
      BY <1>2, <1>9
    <2>2. \E h \in [0 .. n -> A] : IsChain(h, n, base, step, fold[1 .. n])
      <3> HIDE DEF A, base
      <3> QED
        BY <1>0, <2>1, FoldChain
    <2> QED
      BY <2>2
  <1>11. \A i \in 1 .. n : step[<<h[i - 1], i>>] = h[i - 1] + pnls[i]
    BY <1>0, <1>3
  <1> QED
    BY <1>1, <1>10, <1>11 DEF IsChain, Totals

LEMMA EquityGrows ==
    ASSUME NEW pnls \in Seq(Int), NEW i \in 1 .. Len(pnls)
    PROVE  /\ Equity(pnls, i) \in Int /\ Equity(pnls, i - 1) \in Int
           /\ Equity(pnls, i) = Equity(pnls, i - 1) + pnls[i]
  <1> DEFINE a == SubSeq(pnls, 1, i)
             b == SubSeq(pnls, 1, i - 1)
  <1>1. /\ a \in Seq(Int) /\ Len(a) = i
        /\ b \in Seq(Int) /\ Len(b) = i - 1
        /\ \A j \in 1 .. i - 1 : b[j] = a[j]
        /\ a[i] = pnls[i]
    OBVIOUS
  <1> HIDE DEF a, b
  <1>2. PICK h : Totals(h, a)
    BY <1>1, TotalIsFold
  <1>3. PICK g : Totals(g, b)
    BY <1>1, TotalIsFold
  <1>4. h[i - 1] = g[i - 1]
    <2> DEFINE S == {j \in 0 .. i - 1 : h[j] = g[j]}
    <2>1. 0 \in S
      BY <1>2, <1>3 DEF Totals
    <2>2. ASSUME NEW j \in 1 .. i - 1, j - 1 \in S PROVE j \in S
      <3>1. h[j] = h[j - 1] + a[j] /\ g[j] = g[j - 1] + b[j]
        <4>1. j \in 1 .. Len(a) /\ j \in 1 .. Len(b)
          BY <1>1
        <4> QED
          BY <1>2, <1>3, <4>1 DEF Totals
      <3> QED
        BY <1>1, <2>2, <3>1
    <2>3. 0 .. i - 1 \subseteq S
      <3> HIDE DEF S
      <3>1. i - 1 \in Nat
        OBVIOUS
      <3> QED
        BY <2>1, <2>2, <3>1, Along
    <2> QED
      BY <2>3
  <1>5. h[i] = h[i - 1] + a[i] /\ h[i] \in Int /\ h[i - 1] \in Int
    BY <1>1, <1>2 DEF Totals
  <1>6. h[i] = Total(a) /\ g[i - 1] = Total(b)
    BY <1>1, <1>2, <1>3 DEF Totals
  <1> QED
    BY <1>1, <1>4, <1>5, <1>6 DEF Equity, a, b

\* The values of acc while the trades are gone through.
Drops(h, pnls) ==
    /\ h \in [0 .. Len(pnls) -> [equity: Int, peak: Int, worst: Int]]
    /\ h[0] = FromFirst(pnls)
    /\ \A i \in 1 .. Len(pnls) : h[i] = Drop(h[i - 1], h[i - 1].equity + pnls[i])
    /\ h[Len(pnls)].worst = MaxDrawdown(pnls)

LEMMA DrawdownIsFold ==
    ASSUME NEW pnls \in Seq(Int), pnls # <<>>
    PROVE  \E h : Drops(h, pnls)
  <1> DEFINE n == Len(pnls)
             A == [equity: Int, peak: Int, worst: Int]
             base == FromFirst(pnls)
             step == [x \in A \X (1 .. n) |-> Drop(x[1], x[1].equity + pnls[x[2]])]
             Body(g) == [s \in SUBSET (1 .. n) |->
                            IF s = {} THEN base
                            ELSE Drop(g[s \ {Max(s)}], g[s \ {Max(s)}].equity + pnls[Max(s)])]
             fold == CHOOSE g : g = Body(g)
  <1>0. n \in Nat /\ DOMAIN pnls = 1 .. n /\ \A i \in 1 .. n : pnls[i] \in Int
    OBVIOUS
  <1>1. MaxDrawdown(pnls) = fold[1 .. n].worst
    BY <1>0 DEF MaxDrawdown, FoldLeft, MapThenFoldSet
  <1>2. step \in [A \X (1 .. n) -> A] /\ base \in A
    <2>1. \A acc \in A, x \in Int : Drop(acc, acc.equity + x) \in A
      BY DEF Drop
    <2>2. base \in A
      BY DEF FromFirst
    <2> HIDE DEF A
    <2> QED
      BY <1>0, <2>1, <2>2
  <1>3. ASSUME NEW x \in A, NEW i \in 1 .. n PROVE step[<<x, i>>] = Drop(x, x.equity + pnls[i])
    <2> HIDE DEF A
    <2> QED
      OBVIOUS
  <1> HIDE DEF step, A, base
  <1>4. PICK g \in [SUBSET (1 .. n) -> A] : FoldsTo(g, n, base, step)
    BY <1>0, <1>2, FoldExists
  <1>5. ASSUME NEW s \in SUBSET (1 .. n), s # {}
        PROVE  Max(s) \in 1 .. n /\ (s \ {Max(s)}) \in SUBSET (1 .. n)
    BY <1>0, <1>5, SomeMax
  <1>6. g = Body(g)
    <2>1. \A s \in SUBSET (1 .. n) : g[s] = Body(g)[s]
      BY <1>3, <1>4, <1>5 DEF FoldsTo
    <2> QED
      BY <2>1
  <1>7. fold = Body(fold)
    <2> HIDE DEF Body
    <2> QED
      BY <1>6
  <1> HIDE DEF fold
  <1>8. /\ fold[{}] = base
        /\ \A s \in SUBSET (1 .. n) : s # {} =>
              fold[s] = Drop(fold[s \ {Max(s)}], fold[s \ {Max(s)}].equity + pnls[Max(s)])
    BY <1>7
  <1>9. Folds(fold, n, A, base, step)
    BY <1>3, <1>5, <1>8 DEF Folds
  <1>10. PICK h \in [0 .. n -> A] : IsChain(h, n, base, step, fold[1 .. n])
    BY <1>0, <1>2, <1>9, FoldChain
  <1>11. ASSUME NEW i \in 1 .. n
         PROVE  step[<<h[i - 1], i>>] = Drop(h[i - 1], h[i - 1].equity + pnls[i])
    <2>1. h[i - 1] \in A
      BY <1>0
    <2> QED
      BY <1>3, <2>1
  <1> QED
    BY <1>1, <1>10, <1>11 DEF IsChain, Drops, A, base

\* The profits collected while the entries are gone through.
Collects(h, entries) ==
    /\ h \in [0 .. Len(entries) -> Seq(Int)]
    /\ h[0] = <<>>
    /\ \A i \in 1 .. Len(entries) :
          h[i] = IF entries[i].result = "CLOSED" THEN Append(h[i - 1], entries[i].pnl) ELSE h[i - 1]
    /\ h[Len(entries)] = ClosedPnls(entries)

LEMMA ClosedIsFold ==
    ASSUME NEW entries \in Seq(EntryType)
    PROVE  \E h : Collects(h, entries)
  <1> DEFINE n == Len(entries)
             A == Seq(Int)
             base == <<>>
             More(pnls, e) == IF e.result = "CLOSED" THEN Append(pnls, e.pnl) ELSE pnls
             step == [x \in A \X (1 .. n) |-> More(x[1], entries[x[2]])]
             Body(g) == [s \in SUBSET (1 .. n) |->
                            IF s = {} THEN base ELSE More(g[s \ {Max(s)}], entries[Max(s)])]
             fold == CHOOSE g : g = Body(g)
  <1>0. n \in Nat /\ DOMAIN entries = 1 .. n /\ \A i \in 1 .. n : entries[i].pnl \in Int
    <2>1. n \in Nat /\ DOMAIN entries = 1 .. n /\ \A i \in 1 .. n : entries[i] \in EntryType
      OBVIOUS
    <2> QED
      BY <2>1 DEF EntryType
  <1>1. ClosedPnls(entries) = fold[1 .. n]
    BY <1>0 DEF ClosedPnls, FoldLeft, MapThenFoldSet
  <1>2. step \in [A \X (1 .. n) -> A] /\ base \in A
    <2>1. \A x \in A, i \in 1 .. n : More(x, entries[i]) \in A
      BY <1>0
    <2>2. base \in A
      OBVIOUS
    <2> HIDE DEF A, More
    <2> QED
      BY <1>0, <2>1, <2>2
  <1>3. ASSUME NEW x \in A, NEW i \in 1 .. n PROVE step[<<x, i>>] = More(x, entries[i])
    <2> HIDE DEF A, More
    <2> QED
      OBVIOUS
  <1> HIDE DEF step, A, base, More
  <1>4. PICK g \in [SUBSET (1 .. n) -> A] : FoldsTo(g, n, base, step)
    BY <1>0, <1>2, FoldExists
  <1>5. ASSUME NEW s \in SUBSET (1 .. n), s # {}
        PROVE  Max(s) \in 1 .. n /\ (s \ {Max(s)}) \in SUBSET (1 .. n)
    BY <1>0, <1>5, SomeMax
  <1>6. g = Body(g)
    <2>1. \A s \in SUBSET (1 .. n) : g[s] = Body(g)[s]
      BY <1>3, <1>4, <1>5 DEF FoldsTo
    <2> QED
      BY <2>1
  <1>7. fold = Body(fold)
    <2> HIDE DEF Body
    <2> QED
      BY <1>6
  <1> HIDE DEF fold
  <1>8. /\ fold[{}] = base
        /\ \A s \in SUBSET (1 .. n) : s # {} => fold[s] = More(fold[s \ {Max(s)}], entries[Max(s)])
    BY <1>7
  <1>9. Folds(fold, n, A, base, step)
    BY <1>3, <1>5, <1>8 DEF Folds
  <1>10. PICK h \in [0 .. n -> A] : IsChain(h, n, base, step, fold[1 .. n])
    BY <1>0, <1>2, <1>9, FoldChain
  <1>11. ASSUME NEW i \in 1 .. n
         PROVE  step[<<h[i - 1], i>>] = More(h[i - 1], entries[i])
    <2>1. h[i - 1] \in A
      BY <1>0
    <2> QED
      BY <1>3, <2>1
  <1> QED
    BY <1>1, <1>10, <1>11 DEF IsChain, Collects, A, base, More

ClosedAmong(entries, n) == {i \in 1 .. n : entries[i].result = "CLOSED"}

\* Of every closed entry its profit is taken, and nothing else.
LEMMA ClosedCounted ==
    ASSUME NEW entries \in Seq(EntryType),
           \A i \in 1 .. Len(entries) : entries[i].result = "CLOSED" => entries[i].pnl # 0
    PROVE  /\ ClosedPnls(entries) \in Seq(Int)
           /\ \A j \in 1 .. Len(ClosedPnls(entries)) : ClosedPnls(entries)[j] # 0
           /\ Len(ClosedPnls(entries)) = Cardinality(ClosedAmong(entries, Len(entries)))
  <1> DEFINE n == Len(entries)
             Good(pnls, i) == /\ \A j \in 1 .. Len(pnls) : pnls[j] # 0
                              /\ Len(pnls) = Cardinality(ClosedAmong(entries, i))
  <1>1. PICK h : Collects(h, entries)
    BY ClosedIsFold
  <1>2. n \in Nat /\ \A i \in 1 .. n : entries[i].pnl \in Int
    <2>1. n \in Nat /\ \A i \in 1 .. n : entries[i] \in EntryType
      OBVIOUS
    <2> QED
      BY <2>1 DEF EntryType
  <1> DEFINE S == {i \in 0 .. n : Good(h[i], i)}
  <1>3. 0 \in S
    <2>1. ClosedAmong(entries, 0) = {}
      BY DEF ClosedAmong
    <2>2. h[0] = <<>> /\ 0 \in 0 .. n
      BY <1>1, <1>2 DEF Collects
    <2>3. Good(<<>>, 0)
      <3>1. Len(<<>>) = 0 /\ Cardinality(ClosedAmong(entries, 0)) = 0
        BY <2>1, FS_EmptySet
      <3> QED
        BY <3>1
    <2> HIDE DEF Good
    <2> QED
      BY <2>2, <2>3
  <1>4. ASSUME NEW i \in 1 .. n, i - 1 \in S PROVE i \in S
    <2> DEFINE before == ClosedAmong(entries, i - 1)
               now == ClosedAmong(entries, i)
    <2>1. /\ h[i - 1] \in Seq(Int) /\ Good(h[i - 1], i - 1)
          /\ h[i] = IF entries[i].result = "CLOSED" THEN Append(h[i - 1], entries[i].pnl) ELSE h[i - 1]
      BY <1>1, <1>2, <1>4 DEF Collects
    <2>2. IsFiniteSet(before) /\ i \notin before
      <3>1. before \subseteq 1 .. i - 1 /\ IsFiniteSet(1 .. i - 1)
        BY FS_Interval DEF ClosedAmong
      <3> QED
        BY <3>1, FS_Subset
    <2>3. now = IF entries[i].result = "CLOSED" THEN before \cup {i} ELSE before
      BY DEF ClosedAmong
    <2>4. Cardinality(before \cup {i}) = Cardinality(before) + 1
      BY <2>2, FS_AddElement
    <2> HIDE DEF before, now
    <2>5. CASE entries[i].result = "CLOSED"
      <3>1. h[i] = Append(h[i - 1], entries[i].pnl) /\ entries[i].pnl # 0
        BY <2>1, <2>5
      <3>2. Len(h[i]) = Cardinality(ClosedAmong(entries, i))
        BY <1>2, <2>1, <2>3, <2>4, <2>5, <3>1 DEF before, now
      <3>3. \A j \in 1 .. Len(h[i]) : h[i][j] # 0
        BY <1>2, <2>1, <3>1
      <3> QED
        BY <3>2, <3>3
    <2>6. CASE entries[i].result # "CLOSED"
      BY <2>1, <2>3, <2>6 DEF before, now
    <2> QED
      BY <2>5, <2>6
  <1>5. 0 .. n \subseteq S
    <2> HIDE DEF S
    <2> QED
      BY <1>2, <1>3, <1>4, Along
  <1>6. Good(h[n], n) /\ h[n] = ClosedPnls(entries) /\ h[n] \in Seq(Int)
    BY <1>1, <1>2, <1>5 DEF Collects
  <1> QED
    BY <1>6

LEMMA Disjoint ==
    ASSUME NEW S, IsFiniteSet(S), NEW T, IsFiniteSet(T), S \cap T = {}
    PROVE  Cardinality(S \cup T) = Cardinality(S) + Cardinality(T)
  <1>1. Cardinality(S \cap T) = 0
    BY FS_EmptySet
  <1>2. Cardinality(S) \in Nat /\ Cardinality(T) \in Nat
    BY FS_CardinalityType
  <1>3. Cardinality(S \cup T) = Cardinality(S) + Cardinality(T) - Cardinality(S \cap T)
    BY FS_Union
  <1> QED
    BY <1>1, <1>2, <1>3

LEMMA AnalyzedCounts ==
    ASSUME NEW entries \in Seq(EntryType),
           \A i \in 1 .. Len(entries) : entries[i].result = "CLOSED" =>
               entries[i].decision = "APPROVE" /\ entries[i].pnl # 0,
           NEW a, a = Analyzed(entries)
    PROVE  /\ a.total = Len(entries) /\ a.closed = Len(ClosedPnls(entries))
           /\ a.drawdown = MaxDrawdown(ClosedPnls(entries))
           /\ a.closed + a.rejected <= a.total
           /\ a.wins + a.losses = a.closed
  <1> DEFINE n == Len(entries)
             pnls == ClosedPnls(entries)
             closed == ClosedAmong(entries, n)
             rejected == {i \in 1 .. n : entries[i].decision = "REJECT"}
             wins == {j \in 1 .. Len(pnls) : pnls[j] > 0}
             losses == {j \in 1 .. Len(pnls) : pnls[j] < 0}
  <1>1. n \in Nat /\ DOMAIN entries = 1 .. n
    OBVIOUS
  <1>2. /\ pnls \in Seq(Int) /\ Len(pnls) = Cardinality(closed)
        /\ \A j \in 1 .. Len(pnls) : pnls[j] # 0
    BY ClosedCounted
  <1>3. /\ a.total = n /\ a.rejected = Cardinality(rejected) /\ a.closed = Len(pnls)
        /\ a.wins = Cardinality(wins) /\ a.losses = Cardinality(losses)
        /\ a.drawdown = MaxDrawdown(pnls)
    <2>1. DOMAIN pnls = 1 .. Len(pnls)
      BY <1>2
    <2> HIDE DEF pnls
    <2> QED
      BY <1>1, <2>1 DEF Analyzed, pnls
  <1>4. a.closed + a.rejected <= a.total
    <2>1. closed \cap rejected = {} /\ closed \cup rejected \subseteq 1 .. n
      BY DEF ClosedAmong
    <2>2. IsFiniteSet(1 .. n) /\ Cardinality(1 .. n) = n
      BY <1>1, FS_Interval
    <2>3. IsFiniteSet(closed) /\ IsFiniteSet(rejected)
      BY <2>1, <2>2, FS_Subset
    <2>4. Cardinality(closed \cup rejected) <= n
      BY <2>1, <2>2, FS_Subset
    <2>5. Cardinality(closed \cup rejected) = Cardinality(closed) + Cardinality(rejected)
      <3> HIDE DEF closed, rejected
      <3> QED
        BY <2>1, <2>3, Disjoint
    <2> HIDE DEF closed, rejected, pnls
    <2> QED
      BY <1>2, <1>3, <2>4, <2>5
  <1>5. a.wins + a.losses = a.closed
    <2> HIDE DEF pnls
    <2>1. wins \cap losses = {} /\ wins \cup losses = 1 .. Len(pnls)
      BY <1>2
    <2>2. IsFiniteSet(1 .. Len(pnls)) /\ Cardinality(1 .. Len(pnls)) = Len(pnls)
      BY <1>2, FS_Interval
    <2>3. IsFiniteSet(wins) /\ IsFiniteSet(losses)
      BY <2>1, <2>2, FS_Subset
    <2> HIDE DEF wins, losses
    <2>4. Cardinality(wins \cup losses) = Cardinality(wins) + Cardinality(losses)
      BY <2>1, <2>3, Disjoint
    <2> QED
      BY <1>3, <2>1, <2>2, <2>4
  <1> QED
    BY <1>3, <1>4, <1>5

LEMMA EquityAtFirst ==
    ASSUME NEW pnls \in Seq(Int)
    PROVE  Equity(pnls, 0) = 0
  <1>1. SubSeq(pnls, 1, 0) = <<>> /\ <<>> \in Seq(Int) /\ Len(<<>>) = 0
    OBVIOUS
  <1>2. PICK h : Totals(h, <<>>)
    BY <1>1, TotalIsFold
  <1> QED
    BY <1>1, <1>2 DEF Totals, Equity

\* peak is the greatest equity of the first i trades, worst the deepest fall.
PeakOf(peak, E, i) ==
    /\ \E k \in 1 .. i : peak = E[k]
    /\ \A k \in 1 .. i : E[k] <= peak

WorstOf(worst, E, i) ==
    /\ worst = 0 \/ \E k \in 1 .. i : \E j \in k .. i : worst = E[k] - E[j]
    /\ \A k \in 1 .. i : \A j \in k .. i : E[k] - E[j] <= worst

LEMMA PeakStep ==
    ASSUME NEW n \in Nat, NEW E \in [0 .. n -> Int], NEW i \in 2 .. n,
           NEW peak \in Int, PeakOf(peak, E, i - 1),
           NEW next, next = IF E[i] > peak THEN E[i] ELSE peak
    PROVE  PeakOf(next, E, i)
  <1>1. /\ E[i] \in Int
        /\ \A k \in 1 .. i - 1 : k \in 1 .. i /\ E[k] \in Int /\ E[k] <= peak
        /\ \A k \in 1 .. i : k \in 1 .. i - 1 \/ k = i
    BY DEF PeakOf
  <1>2. \E k \in 1 .. i : next = E[k]
    BY <1>1 DEF PeakOf
  <1>3. E[i] <= next /\ peak <= next /\ next \in Int
    BY <1>1
  <1>4. \A k \in 1 .. i : E[k] <= next
    BY <1>1, <1>3
  <1> QED
    BY <1>2, <1>4 DEF PeakOf

LEMMA WorstStep ==
    ASSUME NEW n \in Nat, NEW E \in [0 .. n -> Int], NEW i \in 2 .. n,
           NEW peak \in Int, PeakOf(peak, E, i),
           NEW worst \in Int, WorstOf(worst, E, i - 1),
           NEW next, next = IF peak - E[i] > worst THEN peak - E[i] ELSE worst
    PROVE  WorstOf(next, E, i)
  <1>1. /\ E[i] \in Int
        /\ \A k \in 1 .. i : E[k] \in Int /\ i \in k .. i
        /\ i - 1 \in Nat /\ \A k \in 1 .. i - 1 : k \in 1 .. i
    OBVIOUS
  <1>2. next >= worst /\ next >= peak - E[i] /\ next \in Int
    BY <1>1
  <1>3. ASSUME NEW k \in 1 .. i, NEW j \in k .. i PROVE E[k] - E[j] <= next
    <2>1. CASE j = i
      <3>1. E[k] <= peak /\ E[k] \in Int
        BY <1>1 DEF PeakOf
      <3> QED
        BY <1>1, <1>2, <2>1, <3>1
    <2>2. CASE j # i
      <3>1. k \in 1 .. i - 1 /\ j \in k .. i - 1 /\ j \in 1 .. i
        BY <2>2
      <3>2. E[k] - E[j] <= worst /\ E[k] \in Int /\ E[j] \in Int
        BY <1>1, <3>1 DEF WorstOf
      <3> QED
        BY <1>2, <3>2
    <2> QED
      BY <2>1, <2>2
  <1>4. next = 0 \/ \E k \in 1 .. i : \E j \in k .. i : next = E[k] - E[j]
    <2>1. CASE next = peak - E[i]
      BY <1>1, <2>1 DEF PeakOf
    <2>2. CASE next = worst /\ worst # 0
      <3>1. PICK k \in 1 .. i - 1 : \E j \in k .. i - 1 : worst = E[k] - E[j]
        BY <2>2 DEF WorstOf
      <3>2. PICK j \in k .. i - 1 : worst = E[k] - E[j]
        BY <3>1
      <3>3. k \in 1 .. i /\ j \in k .. i
        OBVIOUS
      <3> QED
        BY <2>2, <3>2, <3>3
    <2> QED
      BY <2>1, <2>2
  <1> QED
    BY <1>3, <1>4 DEF WorstOf

\* So the drawdown is the deepest fall of the equity curve.
LEMMA WorstFall ==
    ASSUME NEW pnls \in Seq(Int), pnls # <<>>, NEW n, n = Len(pnls),
           NEW E, E = [i \in 0 .. n |-> Equity(pnls, i)]
    PROVE  WorstOf(MaxDrawdown(pnls), E, n)
  <1>1. n \in Nat /\ 1 \in 1 .. n /\ \A i \in 1 .. n : pnls[i] \in Int
    OBVIOUS
  <1>2. /\ E \in [0 .. n -> Int]
        /\ E[0] = 0
        /\ \A i \in 1 .. n : E[i] = E[i - 1] + pnls[i]
    <2>1. E[0] = 0
      BY <1>1, EquityAtFirst
    <2>2. \A i \in 1 .. n : E[i] = E[i - 1] + pnls[i] /\ E[i] \in Int
      <3> SUFFICES ASSUME NEW i \in 1 .. n PROVE E[i] = E[i - 1] + pnls[i] /\ E[i] \in Int
        OBVIOUS
      <3>1. E[i] = Equity(pnls, i) /\ E[i - 1] = Equity(pnls, i - 1)
        BY <1>1
      <3> QED
        BY <3>1, EquityGrows
    <2>3. \A i \in 0 .. n : E[i] \in Int
      <3>1. \A i \in 0 .. n : i = 0 \/ i \in 1 .. n
        BY <1>1
      <3> QED
        BY <2>1, <2>2, <3>1
    <2> QED
      BY <2>3, <2>1, <2>2
  <1>3. PICK h : Drops(h, pnls)
    BY DrawdownIsFold
  <1>4. \A i \in 0 .. n : h[i].equity \in Int /\ h[i].peak \in Int /\ h[i].worst \in Int
    <2>1. \A i \in 0 .. n : h[i] \in [equity: Int, peak: Int, worst: Int]
      BY <1>3 DEF Drops
    <2> QED
      BY <2>1
  <1> DEFINE Good(acc, i) ==
                acc.equity = E[i] /\ (i > 0 => PeakOf(acc.peak, E, i) /\ WorstOf(acc.worst, E, i))
             S == {i \in 0 .. n : Good(h[i], i)}
  <1>5. h[0] = [equity |-> 0, peak |-> pnls[1], worst |-> 0]
    BY <1>3 DEF Drops, FromFirst
  <1>6. 0 \in S
    <2>1. 0 \in 0 .. n /\ ~(0 > 0)
      BY <1>1
    <2> QED
      BY <1>2, <1>5, <2>1
  <1>7. ASSUME NEW i \in 1 .. n, i - 1 \in S PROVE i \in S
    <2>0. i \in 0 .. n /\ i - 1 \in 0 .. n
      BY <1>1
    <2> DEFINE old == h[i - 1]
               new == h[i]
    <2>1. /\ old.equity \in Int /\ old.peak \in Int /\ old.worst \in Int /\ E[i] \in Int
          /\ Good(old, i - 1)
      BY <1>2, <1>4, <1>7, <2>0
    <2>2. new = Drop(old, E[i])
      <3>1. new = Drop(old, old.equity + pnls[i])
        BY <1>3 DEF Drops
      <3>2. old.equity + pnls[i] = E[i]
        BY <1>2, <2>1
      <3> QED
        BY <3>1, <3>2
    <2> HIDE DEF old
    <2>3. /\ new.equity = E[i]
          /\ new.peak = IF E[i] > old.peak THEN E[i] ELSE old.peak
          /\ new.worst = IF new.peak - E[i] > old.worst THEN new.peak - E[i] ELSE old.worst
      BY <2>2 DEF Drop
    <2> HIDE DEF new
    <2>4. CASE i = 1
      <3>1. old.peak = E[1] /\ old.worst = 0
        <4>1. old = h[0]
          BY <2>4 DEF old
        <4>2. E[1] = pnls[1]
          BY <1>1, <1>2
        <4> QED
          BY <1>5, <4>1, <4>2
      <3>2. new.peak = E[1] /\ new.worst = 0
        BY <2>1, <2>3, <2>4, <3>1
      <3>3. \A k \in 1 .. 1 : k = 1 /\ \A j \in k .. 1 : j = 1
        OBVIOUS
      <3>4. PeakOf(E[1], E, 1) /\ WorstOf(0, E, 1)
        BY <2>1, <2>4, <3>3 DEF PeakOf, WorstOf
      <3> QED
        BY <2>0, <2>3, <2>4, <3>2, <3>4 DEF new
    <2>5. CASE i # 1
      <3>1. i \in 2 .. n /\ i - 1 > 0
        BY <2>5
      <3>2. PeakOf(old.peak, E, i - 1) /\ WorstOf(old.worst, E, i - 1)
        BY <2>1, <3>1
      <3>3. PeakOf(new.peak, E, i)
        BY <1>1, <1>2, <2>1, <2>3, <3>1, <3>2, PeakStep
      <3>4. new.peak \in Int
        BY <2>1, <2>3
      <3>5. WorstOf(new.worst, E, i)
        BY <1>1, <1>2, <2>1, <2>3, <3>1, <3>2, <3>3, <3>4, WorstStep
      <3> QED
        BY <2>0, <2>3, <3>3, <3>5 DEF new
    <2> QED
      BY <2>4, <2>5
  <1>8. 0 .. n \subseteq S
    <2> HIDE DEF S
    <2> QED
      BY <1>1, <1>6, <1>7, Along
  <1>9. n \in S /\ n > 0 /\ h[n].worst = MaxDrawdown(pnls)
    <2> HIDE DEF S
    <2> QED
      BY <1>1, <1>3, <1>8 DEF Drops
  <1> QED
    BY <1>9

-----------------------------------------------------------------------------
\* The reports, step by step

\* Every store keeps its entries, and gets at most one more, which is not of a
\* trade closed without profit or loss.
Grows ==
    \A s \in JournalStores :
        \/ journal'[s] = journal[s]
        \/ \E e \in EntryType :
              /\ journal'[s] = Append(journal[s], e)
              /\ e.result = "CLOSED" => e.decision = "APPROVE" /\ e.pnl # 0

LEMMA ClosedEntry ==
    ASSUME IInv, NEW r \in Runs, Entry(r).result = "CLOSED"
    PROVE  Entry(r).decision = "APPROVE" /\ Entry(r).pnl # 0
  <1>1. Approved(r) /\ Entry(r).pnl = RealizedPnl(run[r].case)
    BY EntryTells DEF IInv
  <1>2. PICK c \in Cases : c = run[r].case /\ FailsAt(c) = NONE /\ Decision(c) = "APPROVE"
    BY <1>1 DEF IInv, CaseInv
  <1>3. RealizedPnl(c) # 0
    BY <1>2, PnlOfHits
  <1>4. Entry(r).decision = "APPROVE"
    BY <1>1 DEF Entry
  <1> QED
    BY <1>1, <1>2, <1>3, <1>4

LEMMA JournalGrows ==
    ASSUME IInv, NEW r \in Runs, r \in InFlight,
           UNCHANGED journal \/ journal' = JournalWith(Entry(r))
    PROVE  Grows
  <1>1. CASE UNCHANGED journal
    BY <1>1 DEF Grows
  <1>2. CASE journal' = JournalWith(Entry(r))
    <2>1. backend.journal \in JournalStores /\ journal \in [JournalStores -> Seq(EntryType)]
      BY DEF IInv, TypeOK, StageInv, StageOf
    <2>2. Entry(r) \in EntryType
      BY EntryTells DEF IInv
    <2>3. \A s \in JournalStores :
             journal'[s] = IF s = backend.journal THEN Append(journal[s], Entry(r)) ELSE journal[s]
      BY <1>2, <2>1 DEF JournalWith
    <2> QED
      BY <2>2, <2>3, ClosedEntry DEF Grows
  <1> QED
    BY <1>1, <1>2

\* What was written stays where it is.
LEMMA PrefixStays ==
    ASSUME TypeOK, Grows, NEW s \in JournalStores
    PROVE  /\ journal[s] \in Seq(EntryType) /\ journal'[s] \in Seq(EntryType)
           /\ Len(journal[s]) <= Len(journal'[s])
           /\ \A i \in DOMAIN journal[s] : i \in DOMAIN journal'[s] /\ journal'[s][i] = journal[s][i]
           /\ \A n \in 0 .. Len(journal[s]) : SubSeq(journal'[s], 1, n) = SubSeq(journal[s], 1, n)
  <1>1. journal[s] \in Seq(EntryType)
    BY DEF TypeOK
  <1>2. CASE journal'[s] = journal[s]
    BY <1>1, <1>2
  <1>3. CASE journal'[s] # journal[s]
    <2>1. PICK e \in EntryType : journal'[s] = Append(journal[s], e)
      BY <1>3 DEF Grows
    <2>2. /\ journal'[s] \in Seq(EntryType)
          /\ Len(journal'[s]) = Len(journal[s]) + 1
          /\ \A i \in 1 .. Len(journal[s]) : journal'[s][i] = journal[s][i]
      BY <1>1, <2>1
    <2> QED
      BY <1>1, <2>2
  <1> QED
    BY <1>2, <1>3

LEMMA CoversKeeps ==
    ASSUME TypeOK, Grows, NEW r, NEW s \in JournalStores, NEW n, Covers(r, s, n)
    PROVE  /\ Covers(r, s, n)'
           /\ Covers(r, s, Len(journal[s]))'
  <1>1. PICK i \in 1 .. n : IsEntry(r, s, i)
    BY DEF Covers
  <1>2. IsEntry(r, s, i)'
    BY <1>1, PrefixStays DEF IsEntry
  <1>3. /\ Len(journal[s]) \in Nat /\ Len(journal'[s]) \in Nat
        /\ Len(journal[s]) <= Len(journal'[s])
        /\ n \in 0 .. Len(journal[s])
    BY PrefixStays DEF Covers
  <1>4. i \in 1 .. Len(journal'[s])
    BY <1>3
  <1> QED
    BY <1>2, <1>3, <1>4 DEF Covers

LEMMA ClosedKeeps ==
    ASSUME TypeOK, Grows, ClosedInv
    PROVE  ClosedInv'
  <1> SUFFICES ASSUME NEW s \in JournalStores, NEW i \in DOMAIN journal'[s],
                      journal'[s][i].result = "CLOSED"
               PROVE  journal'[s][i].decision = "APPROVE" /\ journal'[s][i].pnl # 0
    BY DEF ClosedInv
  <1>1. CASE journal'[s] = journal[s]
    BY <1>1 DEF ClosedInv
  <1>2. CASE journal'[s] # journal[s]
    <2>1. PICK e \in EntryType :
              /\ journal'[s] = Append(journal[s], e)
              /\ e.result = "CLOSED" => e.decision = "APPROVE" /\ e.pnl # 0
      BY <1>2 DEF Grows
    <2>2. (i \in DOMAIN journal[s] /\ journal'[s][i] = journal[s][i]) \/ journal'[s][i] = e
      BY <2>1 DEF TypeOK
    <2> QED
      BY <2>1, <2>2 DEF ClosedInv
  <1> QED
    BY <1>1, <1>2

LEMMA WrittenKeeps ==
    ASSUME TypeOK, Grows, WrittenInv, report' = report \/ report' = None
    PROVE  WrittenInv'
  <1> SUFFICES ASSUME report # None, report' = report PROVE WrittenInv'
    BY DEF WrittenInv
  <1>1. report.of \in JournalStores
    BY DEF TypeOK
  <1>2. Covers(report.by, report.of, report.numbers.total)'
    BY <1>1, CoversKeeps DEF WrittenInv
  <1>3. SubSeq(journal'[report.of], 1, report.numbers.total)
           = SubSeq(journal[report.of], 1, report.numbers.total)
    BY <1>1, PrefixStays DEF WrittenInv, Covers
  <1> QED
    BY <1>2, <1>3 DEF WrittenInv

\* Runs that are not about to read or to write the report, or stay where they are.
LEMMA ReadKeeps ==
    ASSUME IInv, Grows, ReadInv,
           \A r \in Runs : \/ run'[r].at \notin {"performance_analyzer", "persist_report"}
                           \/ run'[r] = run[r] /\ backend' = backend
    PROVE  ReadInv'
  <1> SUFFICES ASSUME NEW r \in Runs, run'[r] = run[r], backend' = backend,
                      run[r].at \in {"performance_analyzer", "persist_report"}
               PROVE  /\ run[r].at = "performance_analyzer" => Covers(r, backend.journal, EntriesStored)'
                      /\ run[r].at = "persist_report" => Covers(r, backend.journal, run[r].read)'
    BY DEF ReadInv
  <1>1. backend.journal \in JournalStores
    BY DEF IInv, TypeOK, StageInv, StageOf, InFlight, Working
  <1> QED
    BY <1>1, CoversKeeps DEF ReadInv, EntriesStored, IInv

LEMMA InitReport == Init => ReportInv
  <1> SUFFICES ASSUME Init PROVE ReportInv
    OBVIOUS
  <1>1. ClosedInv
    <2>1. PICK pnls \in Ledgers :
              journal = [s \in JournalStores |-> [i \in DOMAIN pnls |-> Earlier(pnls[i])]]
      BY DEF Init
    <2>2. DOMAIN pnls = 1 .. Len(pnls) /\ \A i \in DOMAIN pnls : pnls[i] # 0
      <3>1. pnls \in Seq(Int \ {0})
        BY PaperAssumption
      <3> QED
        BY <3>1
    <2> SUFFICES ASSUME NEW s \in JournalStores, NEW i \in DOMAIN journal[s]
                 PROVE  journal[s][i].decision = "APPROVE" /\ journal[s][i].pnl # 0
      BY DEF ClosedInv
    <2>3. i \in DOMAIN pnls /\ journal[s][i] = Earlier(pnls[i])
      BY <2>1
    <2> QED
      BY <2>2, <2>3 DEF Earlier
  <1>2. ReadInv
    BY DEF Init, ReadInv
  <1>3. WrittenInv
    BY DEF Init, WrittenInv
  <1> QED
    BY <1>1, <1>2, <1>3 DEF ReportInv

\* A run that moves and does not come to read, or to write a report.
LEMMA ReportStays ==
    ASSUME IInv, ReportInv, NEW r \in Runs, OthersStay(r), backend' = backend,
           r \in InFlight \/ UNCHANGED journal,
           UNCHANGED journal \/ journal' = JournalWith(Entry(r)),
           report' = report \/ report' = None,
           run'[r].at \notin {"performance_analyzer", "persist_report"}
    PROVE  ReportInv'
  <1>1. Grows
    BY JournalGrows DEF Grows
  <1>2. ClosedInv' /\ WrittenInv'
    BY <1>1, ClosedKeeps, WrittenKeeps DEF ReportInv, IInv
  <1>3. ReadInv'
    BY <1>1, ReadKeeps DEF ReportInv, OthersStay
  <1> QED
    BY <1>2, <1>3 DEF ReportInv

LEMMA WriteEntryReport == ASSUME IInv, ReportInv, NEW r \in Runs, WriteEntry(r) PROVE ReportInv'
  <1>1. /\ journal' = JournalWith(Entry(r))
        /\ run' = [run EXCEPT ![r].at = "performance_analyzer"]
        /\ r \in InFlight
        /\ UNCHANGED <<backend, orders, report, last, overlapped>>
    BY DEF WriteEntry, InFlight, Working
  <1>2. Grows
    BY <1>1, JournalGrows
  <1>3. ClosedInv' /\ WrittenInv'
    BY <1>1, <1>2, ClosedKeeps, WrittenKeeps DEF ReportInv, IInv
  <1>4. ASSUME NEW q \in Runs, q # r
        PROVE  /\ run'[q].at = "performance_analyzer" => Covers(q, backend.journal, EntriesStored)'
               /\ run'[q].at = "persist_report" => Covers(q, backend.journal, run[q].read)'
    <2>1. run'[q] = run[q]
      BY <1>1, <1>4 DEF IInv, TypeOK
    <2> SUFFICES ASSUME run[q].at \in {"performance_analyzer", "persist_report"}
                 PROVE  /\ run[q].at = "performance_analyzer" => Covers(q, backend.journal, EntriesStored)'
                        /\ run[q].at = "persist_report" => Covers(q, backend.journal, run[q].read)'
      BY <2>1
    <2>2. backend.journal \in JournalStores
      BY DEF IInv, TypeOK, StageInv, StageOf, InFlight, Working
    <2> QED
      BY <1>1, <1>2, <2>1, <2>2, CoversKeeps DEF ReadInv, ReportInv, EntriesStored, IInv
  <1>5. run'[r].at = "performance_analyzer" /\ Covers(r, backend.journal, EntriesStored)'
    <2>1. run'[r].at = "performance_analyzer"
      BY <1>1 DEF IInv, TypeOK
    <2>2. backend.journal \in JournalStores /\ journal \in [JournalStores -> Seq(EntryType)]
      BY <1>1 DEF IInv, TypeOK, StageInv, StageOf
    <2>3. Entry(r) \in EntryType /\ Entry(r).run = r
      BY EntryTells DEF IInv
    <2>4. journal'[backend.journal] = Append(journal[backend.journal], Entry(r))
      BY <1>1, <2>2 DEF JournalWith
    <2>5. /\ Len(journal'[backend.journal]) = Len(journal[backend.journal]) + 1
          /\ DOMAIN journal'[backend.journal] = 1 .. Len(journal[backend.journal]) + 1
          /\ journal'[backend.journal][Len(journal[backend.journal]) + 1] = Entry(r)
          /\ Len(journal[backend.journal]) \in Nat
      BY <2>2, <2>3, <2>4
    <2>6. LET m == Len(journal[backend.journal]) + 1
          IN  m \in DOMAIN journal'[backend.journal] /\ journal'[backend.journal][m].run = r
      BY <2>3, <2>5
    <2> QED
      BY <1>1, <2>1, <2>5, <2>6 DEF Covers, IsEntry, EntriesStored
  <1>6. ReadInv'
    BY <1>4, <1>5 DEF ReadInv
  <1> QED
    BY <1>3, <1>6 DEF ReportInv

LEMMA ReadEntriesReport == ASSUME IInv, ReportInv, NEW r \in Runs, ReadEntries(r) PROVE ReportInv'
  <1>1. PICK next \in {"persist_report", "record_run_at"} :
            run' = [run EXCEPT ![r].at = next, ![r].read = EntriesStored]
    BY DEF ReadEntries
  <1>2. /\ run[r].at = "performance_analyzer"
        /\ UNCHANGED <<backend, orders, journal, report, last, overlapped>>
    BY DEF ReadEntries
  <1>3. /\ run'[r].at = next /\ run'[r].read = EntriesStored
        /\ \A q \in Runs : q # r => run'[q] = run[q]
    BY <1>1 DEF IInv, TypeOK, RunType
  <1>4. Grows
    BY <1>2 DEF Grows
  <1>5. ClosedInv' /\ WrittenInv'
    BY <1>2, <1>4, ClosedKeeps, WrittenKeeps DEF ReportInv, IInv
  <1>6. \A q \in Runs : \A n : Covers(q, backend.journal, n)' <=> Covers(q, backend.journal, n)
    BY <1>2 DEF Covers, IsEntry
  <1>7. ReadInv'
    BY <1>2, <1>3, <1>6 DEF ReadInv, ReportInv, EntriesStored
  <1> QED
    BY <1>5, <1>7 DEF ReportInv

LEMMA PersistReportReport ==
    ASSUME IInv, ReportInv, NEW r \in Runs, PersistReport(r) PROVE ReportInv'
  <1> DEFINE b == backend.journal
             read == run[r].read
             entries == SubSeq(journal[b], 1, read)
  <1>1. /\ run[r].at = "persist_report"
        /\ report' = [by |-> r, of |-> b, numbers |-> Analyzed(entries)]
        /\ run' = [run EXCEPT ![r].at = "record_run_at"]
        /\ UNCHANGED <<backend, orders, journal, last, overlapped>>
    BY DEF PersistReport
  <1>2. /\ run'[r].at = "record_run_at"
        /\ \A q \in Runs : q # r => run'[q] = run[q]
    BY <1>1 DEF IInv, TypeOK, RunType
  <1>3. Grows
    BY <1>1 DEF Grows
  <1>4. ClosedInv'
    BY <1>1, <1>3, ClosedKeeps DEF ReportInv, IInv
  <1>5. ReadInv'
    BY <1>1, <1>2, <1>3, ReadKeeps DEF ReportInv
  <1>6. Covers(r, b, read)
    BY <1>1 DEF ReportInv, ReadInv
  <1>7. b \in JournalStores
    BY <1>1 DEF IInv, TypeOK, StageInv, StageOf, InFlight, Working
  <1>8. Len(entries) = read
    <2>1. journal[b] \in Seq(EntryType) /\ read \in 0 .. Len(journal[b])
      BY <1>6, <1>7 DEF IInv, TypeOK, Covers
    <2> QED
      BY <2>1
  <1>9. Analyzed(entries).total = read
    BY <1>8 DEF Analyzed
  <1>10. report'.by = r /\ report'.of = b /\ report'.numbers = Analyzed(entries)
    BY <1>1
  <1>11. Covers(r, b, read)'
    BY <1>1, <1>3, <1>6, <1>7, CoversKeeps, <1>2 DEF IInv, Covers, IsEntry
  <1>12. WrittenInv'
    BY <1>1, <1>6, <1>9, <1>10 DEF WrittenInv, Covers, IsEntry
  <1> QED
    BY <1>4, <1>5, <1>12 DEF ReportInv

LEMMA NextReport == IInv /\ ReportInv /\ [Next]_paperVars => ReportInv'
  <1> SUFFICES ASSUME IInv, ReportInv, [Next]_paperVars PROVE ReportInv'
    OBVIOUS
  <1>0. \A r \in Runs : run[r].at \in {"performance_analyzer", "persist_report"} =>
                           r \in InFlight /\ backend # DOWN
    BY DEF IInv, StageInv, StageOf, InFlight, Working
  <1>1. CASE Boot \/ ProcessEnds \/ UNCHANGED paperVars
    <2>1. UNCHANGED journal /\ UNCHANGED report
      BY <1>1 DEF Boot, ProcessEnds, paperVars
    <2>2. Grows
      BY <2>1 DEF Grows
    <2>3. ASSUME NEW r \in Runs
          PROVE  \/ run'[r].at \notin {"performance_analyzer", "persist_report"}
                 \/ run'[r] = run[r] /\ backend' = backend
      <3>1. CASE Boot
        BY <1>0, <3>1 DEF Boot
      <3>2. CASE ProcessEnds
        BY <1>0, <3>2 DEF ProcessEnds, IInv, TypeOK, RunType
      <3>3. CASE UNCHANGED paperVars
        BY <3>3 DEF paperVars
      <3> QED
        BY <1>1, <3>1, <3>2, <3>3
    <2> QED
      BY <2>1, <2>2, <2>3, ClosedKeeps, WrittenKeeps, ReadKeeps DEF ReportInv, IInv
  <1>2. ASSUME NEW r \in Runs, StageFails(r) PROVE ReportInv'
    <2>1. /\ run' = [run EXCEPT ![r].at = "record_run_at", ![r].failedAt = run[r].at]
          /\ r \in InFlight /\ backend' = backend
          /\ UNCHANGED journal \/ journal' = JournalWith(Entry(r))
          /\ report' = report \/ report' = None
      BY <1>2 DEF StageFails, InFlight
    <2>2. OthersStay(r) /\ run'[r].at = "record_run_at"
      BY <2>1 DEF IInv, TypeOK, RunType, OthersStay
    <2> QED
      BY <2>1, <2>2, ReportStays
  <1>3. ASSUME NEW r \in Runs, Receive(r) PROVE ReportInv'
    <2>1. UNCHANGED <<backend, orders, journal, report, last>>
      BY <1>3 DEF Receive
    <2>2. OthersStay(r) /\ run'[r].at \in {"record_run_at", "paper_execution"}
      <3>1. PICK c \in Cases :
               IF FailsAt(c) # NONE
               THEN run' = [run EXCEPT ![r].at = "record_run_at", ![r].failedAt = FailsAt(c)]
               ELSE run' = [run EXCEPT ![r].at = "paper_execution", ![r].decision = Decision(c),
                                       ![r].case = IF Decision(c) = "APPROVE" THEN c ELSE None]
        BY <1>3 DEF Receive
      <3> QED
        BY <3>1 DEF IInv, TypeOK, RunType, OthersStay
    <2> QED
      BY <2>1, <2>2, ReportStays
  <1>4. ASSUME NEW r \in Runs,
               \/ CreateOrder(r) \/ MonitorPosition(r)
               \/ RecordRunAt(r) \/ RecordDecision(r) \/ RecordResult(r)
        PROVE ReportInv'
    <2>1. PICK x \in {"position_monitor", "trade_journal", "record_decision", "record_result", "answered"} :
             run' = [run EXCEPT ![r].at = x]
      BY <1>4 DEF CreateOrder, MonitorPosition, RecordRunAt, RecordDecision, RecordResult
    <2>2. UNCHANGED <<backend, journal, report>>
      BY <1>4 DEF CreateOrder, MonitorPosition, RecordRunAt, RecordDecision, RecordResult
    <2>3. OthersStay(r) /\ run'[r].at = x
      BY <2>1 DEF IInv, TypeOK, RunType, OthersStay
    <2> QED
      BY <2>2, <2>3, ReportStays
  <1> QED
    BY <1>1, <1>2, <1>3, <1>4, WriteEntryReport, ReadEntriesReport, PersistReportReport
    DEF Next, Stage

\* Whatever is appended while reports are made, what they say stays what their
\* entries say.
THEOREM ReportInvariance == Spec => [](IInv /\ ReportInv)
  BY InitInv, NextInv, InitReport, NextReport, PTL DEF Spec

LEMMA ReportedEntries ==
    ASSUME IInv, ReportInv, report # None, NEW entries,
           entries = SubSeq(journal[report.of], 1, report.numbers.total)
    PROVE  /\ entries \in Seq(EntryType) /\ report.numbers = Analyzed(entries)
           /\ \A i \in 1 .. Len(entries) : entries[i].result = "CLOSED" =>
                 entries[i].decision = "APPROVE" /\ entries[i].pnl # 0
  <1>1. report.of \in JournalStores /\ journal[report.of] \in Seq(EntryType)
    BY DEF IInv, TypeOK
  <1>2. report.numbers.total \in 0 .. Len(journal[report.of])
    BY DEF ReportInv, WrittenInv, Covers
  <1>3. /\ entries \in Seq(EntryType) /\ Len(entries) = report.numbers.total
        /\ \A i \in 1 .. Len(entries) : entries[i] = journal[report.of][i] /\ i \in DOMAIN journal[report.of]
    BY <1>1, <1>2
  <1> QED
    BY <1>1, <1>3 DEF ReportInv, WrittenInv, ClosedInv

\* A report counts the entry of the run that wrote it, and every entry in one
\* column, though other runs append to the journal all the time.
THEOREM ReportsCountTheirRun == Spec => []ReportCountsItsRun
  <1>1. IInv /\ ReportInv => ReportCountsItsRun
    <2> SUFFICES ASSUME IInv, ReportInv, report # None
                 PROVE  /\ \E i \in 1 .. report.numbers.total : IsEntry(report.by, report.of, i)
                        /\ report.numbers.closed + report.numbers.rejected <= report.numbers.total
                        /\ report.numbers.wins + report.numbers.losses = report.numbers.closed
      BY DEF ReportCountsItsRun
    <2> DEFINE entries == SubSeq(journal[report.of], 1, report.numbers.total)
    <2>1. \E i \in 1 .. report.numbers.total : IsEntry(report.by, report.of, i)
      BY DEF ReportInv, WrittenInv, Covers
    <2>2. /\ entries \in Seq(EntryType) /\ report.numbers = Analyzed(entries)
          /\ \A i \in 1 .. Len(entries) : entries[i].result = "CLOSED" =>
                entries[i].decision = "APPROVE" /\ entries[i].pnl # 0
      BY ReportedEntries
    <2> HIDE DEF entries
    <2> QED
      BY <2>1, <2>2, AnalyzedCounts
  <1> QED
    BY <1>1, ReportInvariance, PTL

\* The drawdown of a report is the deepest fall of the equity curve of the
\* trades it counts.
THEOREM DrawdownIsTheWorstFall == Spec => []DrawdownIsWorstFall
  <1>1. IInv /\ ReportInv => DrawdownIsWorstFall
    <2> SUFFICES ASSUME IInv, ReportInv, report # None PROVE DrawdownIsWorstFall
      BY DEF DrawdownIsWorstFall
    <2> DEFINE entries == SubSeq(journal[report.of], 1, report.numbers.total)
               pnls == ClosedPnls(entries)
               worst == report.numbers.drawdown
               falls == UNION {{Equity(pnls, i) - Equity(pnls, j) : j \in i .. Len(pnls)} : i \in DOMAIN pnls}
    <2>1. /\ entries \in Seq(EntryType) /\ report.numbers = Analyzed(entries)
          /\ \A i \in 1 .. Len(entries) : entries[i].result = "CLOSED" =>
                entries[i].decision = "APPROVE" /\ entries[i].pnl # 0
      BY ReportedEntries
    <2>2. worst = MaxDrawdown(pnls) /\ pnls \in Seq(Int)
      <3> HIDE DEF entries
      <3> QED
        BY <2>1, AnalyzedCounts, ClosedCounted
    <2> HIDE DEF pnls, worst
    <2>3. (\A fall \in falls : fall <= worst) /\ worst \in falls \cup {0}
      <3>1. CASE pnls = <<>>
        <4>1. DOMAIN pnls = {}
          BY <3>1
        <4>2. worst = 0
          BY <2>2, <3>1 DEF MaxDrawdown
        <4> QED
          BY <4>1, <4>2
      <3>2. CASE pnls # <<>>
        <4> DEFINE n == Len(pnls)
                   E == [i \in 0 .. n |-> Equity(pnls, i)]
        <4>1. WorstOf(worst, E, n)
          BY <2>2, <3>2, WorstFall
        <4>2. \A i \in 1 .. n : \A j \in i .. n : E[i] = Equity(pnls, i) /\ E[j] = Equity(pnls, j)
          OBVIOUS
        <4>3. DOMAIN pnls = 1 .. n
          BY <2>2
        <4> HIDE DEF E
        <4>4. ASSUME NEW fall \in falls PROVE fall <= worst
          <5>1. PICK i \in 1 .. n : fall \in {Equity(pnls, i) - Equity(pnls, j) : j \in i .. n}
            BY <4>3
          <5>2. PICK j \in i .. n : fall = Equity(pnls, i) - Equity(pnls, j)
            BY <5>1
          <5> QED
            BY <4>1, <4>2, <5>2 DEF WorstOf
        <4>5. ASSUME worst # 0 PROVE worst \in falls
          <5>1. PICK i \in 1 .. n : \E j \in i .. n : worst = E[i] - E[j]
            BY <4>1, <4>5 DEF WorstOf
          <5>2. PICK j \in i .. n : worst = E[i] - E[j]
            BY <5>1
          <5>3. worst = Equity(pnls, i) - Equity(pnls, j)
            BY <4>2, <5>2
          <5> QED
            BY <4>3, <5>3
        <4> QED
          BY <4>4, <4>5
      <3> QED
        BY <3>1, <3>2
    <2> QED
      BY <2>3 DEF DrawdownIsWorstFall, pnls, worst
  <1> QED
    BY <1>1, ReportInvariance, PTL
=============================================================================
