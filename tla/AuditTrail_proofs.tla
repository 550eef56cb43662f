-------------------------- MODULE AuditTrail_proofs --------------------------
(***************************************************************************)
(* Proofs about AuditTrail: the composition still behaves like             *)
(* PositionSync, so that what is proved of the positions holds of it, and  *)
(* the tables tell how every cycle but the last ended and what it sent.    *)
(***************************************************************************)
EXTENDS AuditTrail, PositionSync_proofs

-----------------------------------------------------------------------------
\* What the invariant needs to know of the steps of the position cycle.

LEMMA PositionKeepsSession ==
    ASSUME PositionStep \/ LostBar \/ BrokerStep
    PROVE  /\ UNCHANGED auditVars
           /\ session' \in {session, "poisoned"}
           /\ phase # "idle" => UNCHANGED <<task, session>>
BY DEF PositionStep, LostBar, BrokerStep, auditVars, Worker, CycleRaises, SessionPoisoned,
       Broker, StartRecovery, BeginCycle, UpsertRows, ReadForLifecycle, CloseMissing,
       OpenPosition, ClosePosition

\* The steps that leave the tables alone and let no cycle run keep the invariant.
LEMMA QuietKeepsAudit ==
    ASSUME AuditIInv, PositionStep \/ LostBar \/ BrokerStep
    PROVE  AuditIInv'
<1>1. UNCHANGED <<cycle, mine, step, phase, audit, journal, orderResult, sent>>
  BY PositionKeepsSession DEF auditVars
<1>2. AuditTypeOK'
  BY <1>1 DEF AuditIInv, AuditTypeOK
<1>3. OneAtATime'
  BY <1>1, PositionKeepsSession DEF AuditIInv, OneAtATime
<1>4. EndingInv'
  BY <1>1, PositionKeepsSession DEF AuditIInv, EndingInv, Told
<1>5. OrderInv' /\ OrdersTold'
  BY <1>1 DEF AuditIInv, OrderInv, ResultTells, NoOrderEntry, OrdersTold, Told, Traced, Has
<1> QED
  BY <1>2, <1>3, <1>4, <1>5 DEF AuditIInv

-----------------------------------------------------------------------------
\* One lemma for each step of the trading cycle

LEMMA BeginKeepsAudit ==
    ASSUME AuditIInv, BeginTradingCycle
    PROVE  AuditIInv'
<1> USE CyclesAssumption
<1>1. /\ cycle' = cycle + 1 /\ cycle < MaxCycles
      /\ mine' = mine \cup {cycle + 1}
      /\ step' = "Checks"
      /\ audit' = [audit EXCEPT ![<<cycle + 1, "Checks">>] = "RUNNING"]
      /\ UNCHANGED <<journal, sent, task>>
      /\ phase = "idle" /\ session = "clean" /\ task = "idle"
  BY DEF BeginTradingCycle, positionVars
<1>2. /\ \/ phase' = "running" /\ session' = "clean"
         \/ phase' = "idle" /\ session' = "poisoned"
      /\ orderResult' \in Results
  <2>1. Commits("running")
    BY DEF BeginTradingCycle
  <2> QED
    BY <1>1, <2>1 DEF Commits, AuditIInv, AuditTypeOK, Results
<1>3. AuditTypeOK'
  <2>1. cycle' \in 0..MaxCycles /\ mine' \subseteq 1..cycle' /\ step' \in Steps /\ phase' \in Phases
    BY <1>1, <1>2 DEF AuditIInv, AuditTypeOK, Steps, Phases
  <2>2. audit' \in [Cycles \X Steps -> Statuses]
    BY <1>1 DEF AuditIInv, AuditTypeOK, Statuses
  <2>3. 1..cycle \subseteq 1..cycle'
    BY <1>1 DEF AuditIInv, AuditTypeOK
  <2>4. /\ journal' \subseteq [cycle : 1..cycle', step : Steps, type : Entries, status : Results]
        /\ sent' \subseteq 1..cycle'
    BY <1>1, <2>3 DEF AuditIInv, AuditTypeOK
  <2> QED
    BY <1>2, <2>1, <2>2, <2>4 DEF AuditTypeOK
<1>4. OneAtATime'
  BY <1>1, <1>2 DEF OneAtATime
<1>5. \A c \in Cycles : audit'[<<c, "RuntimeStateUpdater">>] = audit[<<c, "RuntimeStateUpdater">>]
  BY <1>1 DEF AuditIInv, AuditTypeOK, Steps
<1>6. \A c \in Cycles : Told(c)' <=> Told(c)
  BY <1>1, <1>5 DEF Told
<1>7. ~Told(cycle + 1)
  <2>1. cycle + 1 \in Cycles /\ audit[<<cycle + 1, "RuntimeStateUpdater">>] = "none"
    BY <1>1 DEF AuditIInv, AuditTypeOK, EndingInv, Cycles
  <2>2. \A e \in journal : e.cycle # cycle + 1
    BY DEF AuditIInv, AuditTypeOK
  <2> QED
    BY <2>1, <2>2 DEF Told
<1>8. EndingInv'
  <2>1. \A c \in mine' : c < cycle' => Told(c)'
    <3>1. \A c \in mine : Told(c) /\ c \in Cycles
      BY <1>1 DEF AuditIInv, AuditTypeOK, EndingInv, Cycles
    <3> QED
      BY <1>1, <1>6, <3>1 DEF AuditIInv, AuditTypeOK
  <2>2. phase' # "idle" => ~Told(cycle)'
    BY <1>1, <1>6, <1>7 DEF AuditIInv, AuditTypeOK, Cycles
  <2>3. \A c \in Cycles : c > cycle' => audit'[<<c, "RuntimeStateUpdater">>] = "none"
    BY <1>1, <1>5 DEF AuditIInv, AuditTypeOK, EndingInv, Cycles
  <2> QED
    BY <1>2, <2>1, <2>2, <2>3 DEF EndingInv
<1>9. OrderInv'
  <2>1. NoOrderEntry'
    BY <1>1 DEF NoOrderEntry, AuditIInv, AuditTypeOK
  <2> QED
    BY <1>1, <2>1 DEF OrderInv, AuditIInv, AuditTypeOK
<1>10. OrdersTold'
  BY <1>1, <1>6 DEF AuditIInv, AuditTypeOK, OrdersTold, Traced, Has, Cycles
<1> QED
  BY <1>3, <1>4, <1>8, <1>9, <1>10 DEF AuditIInv

-----------------------------------------------------------------------------
\* What the steps of a running cycle have in common: they write only of this
\* cycle and this step, and go on with a usable session or not at all.
CycleFrame ==
    /\ phase # "idle"
    /\ UNCHANGED <<cycle, mine, task>>
    /\ step' \in Steps
    /\ phase' \in Phases
    /\ UNCHANGED session \/ (phase' = "idle" /\ session' = "poisoned")
    /\ UNCHANGED audit \/ (\E status \in Statuses : SetAudit(status))
    /\ journal \subseteq journal'
    /\ journal' \ journal \subseteq [cycle : {cycle}, step : {step}, type : Entries, status : Results]
    /\ orderResult' \in Results
    /\ sent' \in {sent, sent \cup {cycle}}

LEMMA RunningFacts ==
    ASSUME AuditIInv, phase # "idle"
    PROVE  /\ cycle \in mine /\ cycle \in 1..cycle /\ cycle \in Cycles
           /\ session = "clean" /\ task = "idle" /\ ~Told(cycle)
           /\ orderResult \in Results
BY CyclesAssumption DEF AuditIInv, AuditTypeOK, OneAtATime, EndingInv, Cycles

LEMMA FrameTypes ==
    ASSUME AuditIInv, CycleFrame
    PROVE  AuditTypeOK' /\ OneAtATime'
<1> USE CyclesAssumption
<1>1. cycle \in mine /\ cycle \in 1..cycle /\ cycle \in Cycles /\ session = "clean" /\ task = "idle"
  BY RunningFacts DEF CycleFrame
<1>2. audit' \in [Cycles \X Steps -> Statuses]
  BY <1>1 DEF CycleFrame, SetAudit, AuditIInv, AuditTypeOK
<1>3. journal' \subseteq [cycle : 1..cycle, step : Steps, type : Entries, status : Results]
  <2>1. [cycle : {cycle}, step : {step}, type : Entries, status : Results]
            \subseteq [cycle : 1..cycle, step : Steps, type : Entries, status : Results]
    BY <1>1 DEF AuditIInv, AuditTypeOK
  <2> QED
    BY <2>1 DEF CycleFrame, AuditIInv, AuditTypeOK
<1>4. AuditTypeOK'
  BY <1>1, <1>2, <1>3 DEF CycleFrame, AuditIInv, AuditTypeOK
<1>5. OneAtATime'
  BY <1>1 DEF CycleFrame, OneAtATime
<1> QED
  BY <1>4, <1>5

LEMMA FrameTold ==
    ASSUME AuditIInv, CycleFrame, NEW c \in Cycles, c # cycle
    PROVE  Told(c)' <=> Told(c)
<1>1. \A e \in journal' \ journal : e.cycle = cycle
  BY DEF CycleFrame
<1>2. (\E e \in journal' : e.cycle = c /\ e.type \in Endings)
        <=> (\E e \in journal : e.cycle = c /\ e.type \in Endings)
  BY <1>1 DEF CycleFrame
<1>3. audit'[<<c, "RuntimeStateUpdater">>] = audit[<<c, "RuntimeStateUpdater">>]
  BY DEF CycleFrame, SetAudit, AuditIInv, AuditTypeOK, Steps
<1> QED
  BY <1>2, <1>3 DEF Told

\* The invariant after such a step, from what the step makes of its own cycle.
LEMMA FrameKeepsAudit ==
    ASSUME AuditIInv, CycleFrame,
           phase' # "idle" => ~Told(cycle)',
           phase' = "idle" /\ session' = "clean" => Told(cycle)',
           OrderInv',
           cycle \in sent' /\ Told(cycle)' => Traced(cycle)',
           UNCHANGED sent \/ NoOrderEntry,
           \A e \in journal' \ journal : e.type = "ORDER_EXECUTION" =>
             e.status = IF cycle \in sent' THEN "FILLED" ELSE "DRY_RUN"
    PROVE  AuditIInv'
<1> USE CyclesAssumption
<1>1. /\ cycle \in mine /\ cycle \in 1..cycle /\ cycle \in Cycles
      /\ mine \subseteq Cycles /\ sent' \subseteq Cycles
      /\ cycle' = cycle /\ mine' = mine
  BY RunningFacts DEF CycleFrame, AuditIInv, AuditTypeOK, Cycles
<1>2. EndingInv'
  <2>1. \A c \in mine' : c < cycle' => Told(c)'
    BY <1>1, FrameTold DEF AuditIInv, EndingInv, AuditTypeOK
  <2>2. \A c \in Cycles : c > cycle => audit'[<<c, "RuntimeStateUpdater">>] = "none"
    BY <1>1 DEF CycleFrame, SetAudit, AuditIInv, AuditTypeOK, EndingInv, Steps, Cycles
  <2> QED
    BY <1>1, <2>1, <2>2 DEF EndingInv
<1>3. \A c \in sent' : Told(c)' => Traced(c)'
  <2> SUFFICES ASSUME NEW c \in sent', Told(c)'
               PROVE  Traced(c)'
    OBVIOUS
  <2>1. CASE c = cycle
    BY <1>1, <2>1 DEF Told, Traced, Has
  <2>2. CASE c # cycle
    <3>1. c \in sent /\ Told(c)
      BY <1>1, <2>2, FrameTold DEF CycleFrame
    <3>2. Traced(c)
      BY <3>1 DEF AuditIInv, OrdersTold
    <3> QED
      BY <3>2 DEF Traced, Has, CycleFrame
  <2> QED
    BY <2>1, <2>2
<1>4. ASSUME NEW e \in journal', e.type = "ORDER_EXECUTION"
      PROVE  e.status = IF e.cycle \in sent' THEN "FILLED" ELSE "DRY_RUN"
  <2>1. CASE e \in journal
    <3>1. e.status = IF e.cycle \in sent THEN "FILLED" ELSE "DRY_RUN"
      BY <1>4, <2>1 DEF AuditIInv, OrdersTold
    <3>2. e.cycle \in sent' <=> e.cycle \in sent
      BY <1>4, <2>1 DEF CycleFrame, NoOrderEntry
    <3> QED
      BY <3>1, <3>2
  <2>2. CASE e \notin journal
    <3>1. e.cycle = cycle
      BY <2>2 DEF CycleFrame
    <3> QED
      BY <1>4, <2>2, <3>1
  <2> QED
    BY <2>1, <2>2
<1>5. OrdersTold'
  BY <1>3, <1>4 DEF OrdersTold
<1> QED
  BY <1>2, <1>5, FrameTypes DEF AuditIInv

-----------------------------------------------------------------------------

LEMMA OpenKeepsAudit ==
    ASSUME AuditIInv, OpenStep
    PROVE  AuditIInv'
<1>1. /\ phase = "next" /\ UNCHANGED <<cycle, mine, step, journal, sent, task>>
      /\ SetAudit("RUNNING") /\ Commits("running")
  BY DEF OpenStep, positionVars
<1>2. cycle \in Cycles /\ session = "clean" /\ ~Told(cycle) /\ step \in Steps /\ orderResult \in Results
  BY <1>1, RunningFacts DEF AuditIInv, AuditTypeOK
<1>3. CycleFrame
  BY <1>1, <1>2 DEF CycleFrame, Commits, Phases, Statuses, Results
<1>4. ~Told(cycle)'
  <2>1. audit'[<<cycle, "RuntimeStateUpdater">>] # "SUCCESS"
    BY <1>1, <1>2 DEF SetAudit, Told, AuditIInv, AuditTypeOK, Steps
  <2> QED
    BY <1>1, <1>2, <2>1 DEF Told
<1>5. phase' = "idle" => session' = "poisoned"
  BY <1>1 DEF Commits
<1>6. OrderInv'
  BY <1>1 DEF Commits, AuditIInv, OrderInv, ResultTells, NoOrderEntry, Has
<1> QED
  BY <1>1, <1>3, <1>4, <1>5, <1>6, FrameKeepsAudit

LEMMA EndsKeepsAudit ==
    ASSUME AuditIInv, StepEnds
    PROVE  AuditIInv'
<1>1. /\ phase = "running" /\ UNCHANGED <<cycle, mine, step, audit, journal, orderResult, sent, task, session>>
      /\ phase' \in {"passed", "rejects", "raises"}
      /\ step # "Checks" => phase' # "rejects"
      /\ phase' = "passed" => step \in {"Checks", "RuntimeStateUpdater"}
  BY DEF StepEnds, vars
<1>2. ~Told(cycle) /\ step \in Steps /\ orderResult \in Results
  BY <1>1, RunningFacts DEF AuditIInv, AuditTypeOK
<1>3. CycleFrame
  BY <1>1, <1>2 DEF CycleFrame, Phases
<1>4. ~Told(cycle)'
  BY <1>1, <1>2 DEF Told
<1>5. OrderInv'
  BY <1>1 DEF AuditIInv, OrderInv, ResultTells, NoOrderEntry, Has
<1> QED
  BY <1>1, <1>3, <1>4, <1>5, FrameKeepsAudit

LEMMA ExecuteKeepsAudit ==
    ASSUME AuditIInv, ExecuteOrder
    PROVE  AuditIInv'
<1>1. /\ phase = "running" /\ UNCHANGED <<cycle, mine, step, audit, journal, task, session>>
      /\ step = "ExecutionEngine"
      /\ \/ sent' = sent \cup {cycle} /\ orderResult' = "FILLED" /\ phase' = "passed"
         \/ UNCHANGED sent /\ orderResult' = "DRY_RUN" /\ phase' = "passed"
         \/ sent' \in {sent, sent \cup {cycle}} /\ UNCHANGED orderResult /\ phase' = "rejects"
  BY DEF ExecuteOrder, vars
<1>2. ~Told(cycle) /\ orderResult \in Results /\ cycle \notin sent /\ NoOrderEntry
  BY <1>1, RunningFacts DEF AuditIInv, OrderInv
<1>3. CycleFrame
  BY <1>1, <1>2 DEF CycleFrame, Phases, Steps, Results
<1>4. ~Told(cycle)'
  BY <1>1, <1>2 DEF Told
<1>5. OrderInv'
  BY <1>1, <1>2 DEF OrderInv, ResultTells, NoOrderEntry, Has
<1> QED
  BY <1>1, <1>2, <1>3, <1>4, <1>5, FrameKeepsAudit

LEMMA JournalKeepsAudit ==
    ASSUME AuditIInv, JournalOrder
    PROVE  AuditIInv'
<1> DEFINE new == {Entry("EXECUTION_DECISION")} \cup OrderEntries
<1>1. /\ phase = "running" /\ UNCHANGED <<cycle, mine, step, audit, sent, task>>
      /\ step = "TradeJournalEngine"
      /\ journal' = journal \cup new
      /\ Commits("passed")
  BY DEF JournalOrder, positionVars
<1>2. ~Told(cycle) /\ ResultTells /\ session = "clean" /\ orderResult \in Results
  BY <1>1, RunningFacts DEF AuditIInv, OrderInv
<1>3. \A e \in new :
        /\ e.cycle = cycle /\ e.type \notin Endings
        /\ e.type = "ORDER_EXECUTION" => e.status = orderResult
  BY DEF Entry, OrderEntries, Endings
<1>4. CycleFrame
  <2>1. new \subseteq [cycle : {cycle}, step : {step}, type : Entries, status : Results]
    BY <1>2 DEF Entry, OrderEntries, Entries, Results
  <2> QED
    BY <1>1, <1>2, <2>1 DEF CycleFrame, Commits, Phases, Steps, Results
<1>5. ~Told(cycle)'
  BY <1>1, <1>2, <1>3 DEF Told
<1>6. phase' = "idle" => session' = "poisoned"
  BY <1>1 DEF Commits
<1>7. Entry("ORDER_EXECUTION") \in journal'
  BY <1>1, <1>2 DEF ResultTells, OrderEntries
<1>8. OrderInv'
  BY <1>1, <1>2, <1>7 DEF Commits, OrderInv, ResultTells, Has, Entry
<1>9. \A e \in journal' \ journal : e.type = "ORDER_EXECUTION" =>
        e.status = IF cycle \in sent' THEN "FILLED" ELSE "DRY_RUN"
  BY <1>1, <1>2, <1>3 DEF ResultTells
<1> QED
  BY <1>1, <1>4, <1>5, <1>6, <1>8, <1>9, FrameKeepsAudit

LEMMA CloseKeepsAudit ==
    ASSUME AuditIInv, CloseStep
    PROVE  AuditIInv'
<1>1. /\ phase = "passed" /\ UNCHANGED <<cycle, mine, journal, sent, task>>
      /\ SetAudit("SUCCESS")
  BY DEF CloseStep, positionVars
<1>2. cycle \in Cycles /\ session = "clean" /\ ~Told(cycle) /\ step \in Steps /\ orderResult \in Results
  BY <1>1, RunningFacts DEF AuditIInv, AuditTypeOK
<1>3. CASE step = "RuntimeStateUpdater"
  <2>1. Commits("idle") /\ UNCHANGED step
    BY <1>3 DEF CloseStep
  <2>2. CycleFrame
    BY <1>1, <1>2, <2>1 DEF CycleFrame, Commits, Phases, Statuses, Results
  <2>3. audit'[<<cycle, "RuntimeStateUpdater">>] = "SUCCESS"
    BY <1>1, <1>2, <1>3 DEF SetAudit, AuditIInv, AuditTypeOK
  <2>4. Told(cycle)'
    BY <1>1, <2>3 DEF Told
  <2>5. phase' = "idle"
    BY <2>1 DEF Commits
  <2>6. OrderInv'
    BY <2>5 DEF OrderInv
  <2>7. cycle \in sent' => Traced(cycle)'
    BY <1>1, <1>3 DEF AuditIInv, OrderInv, ResultTells, Traced, Has
  <2> QED
    BY <1>1, <2>2, <2>4, <2>5, <2>6, <2>7, FrameKeepsAudit
<1>4. CASE step # "RuntimeStateUpdater"
  <2>1. Commits("next") /\ step' = After[step]
    BY <1>4 DEF CloseStep
  <2>2. step' \in Steps
    BY <1>2, <1>4, <2>1 DEF After, Steps
  <2>3. CycleFrame
    BY <1>1, <1>2, <2>1, <2>2 DEF CycleFrame, Commits, Phases, Statuses, Results
  <2>4. ~Told(cycle)'
    <3>1. audit'[<<cycle, "RuntimeStateUpdater">>] # "SUCCESS"
      BY <1>1, <1>2, <1>4 DEF SetAudit, Told, AuditIInv, AuditTypeOK, Steps
    <3> QED
      BY <1>1, <1>2, <3>1 DEF Told
  <2>5. phase' = "idle" => session' = "poisoned"
    BY <2>1 DEF Commits
  <2>6. OrderInv'
    BY <1>1, <1>2, <1>4, <2>1 DEF Commits, AuditIInv, OrderInv, ResultTells, NoOrderEntry, Has, After, Steps
  <2> QED
    BY <1>1, <2>3, <2>4, <2>5, <2>6, FrameKeepsAudit
<1> QED
  BY <1>3, <1>4

LEMMA RejectedKeepsAudit ==
    ASSUME AuditIInv, CloseRejected
    PROVE  AuditIInv'
<1>1. /\ phase = "rejects" /\ UNCHANGED <<cycle, mine, step, journal, sent, task>>
      /\ SetAudit("REJECTED") /\ Commits("rejected")
  BY DEF CloseRejected, positionVars
<1>2. cycle \in Cycles /\ session = "clean" /\ ~Told(cycle) /\ step \in Steps /\ orderResult \in Results
  BY <1>1, RunningFacts DEF AuditIInv, AuditTypeOK
<1>3. CycleFrame
  BY <1>1, <1>2 DEF CycleFrame, Commits, Phases, Statuses, Results
<1>4. ~Told(cycle)'
  <2>1. audit'[<<cycle, "RuntimeStateUpdater">>] # "SUCCESS"
    BY <1>1, <1>2 DEF SetAudit, Told, AuditIInv, AuditTypeOK, Steps
  <2> QED
    BY <1>1, <1>2, <2>1 DEF Told
<1>5. phase' = "idle" => session' = "poisoned"
  BY <1>1 DEF Commits
<1>6. OrderInv'
  BY <1>1 DEF Commits, AuditIInv, OrderInv, ResultTells, NoOrderEntry, Has
<1> QED
  BY <1>1, <1>3, <1>4, <1>5, <1>6, FrameKeepsAudit

LEMMA FailedKeepsAudit ==
    ASSUME AuditIInv, CloseFailed
    PROVE  AuditIInv'
<1>1. /\ phase = "raises" /\ UNCHANGED <<cycle, mine, step, sent, task>>
      /\ SetAudit("FAILED") /\ Commits("fatal")
  BY DEF CloseFailed, positionVars
<1>2. cycle \in Cycles /\ session = "clean" /\ ~Told(cycle) /\ step \in Steps /\ orderResult \in Results
  BY <1>1, RunningFacts DEF AuditIInv, AuditTypeOK
<1>3. PICK entries \in Flushed : journal' = journal \cup entries
  BY DEF CloseFailed
<1>4. \A e \in entries :
        /\ e \in [cycle : {cycle}, step : {step}, type : Entries, status : Results]
        /\ e.cycle = cycle /\ e.type \notin Endings
        /\ e.type = "ORDER_EXECUTION" => e.status = orderResult
        /\ step = "TradeJournalEngine"
  BY <1>2 DEF Flushed, OrderEntries, Entry, Entries, Endings, Results
<1>5. CycleFrame
  BY <1>1, <1>2, <1>3, <1>4 DEF CycleFrame, Commits, Phases, Statuses, Results
<1>6. ~Told(cycle)'
  <2>1. audit'[<<cycle, "RuntimeStateUpdater">>] # "SUCCESS"
    BY <1>1, <1>2 DEF SetAudit, Told, AuditIInv, AuditTypeOK, Steps
  <2> QED
    BY <1>1, <1>2, <1>3, <1>4, <2>1 DEF Told
<1>7. phase' = "idle" => session' = "poisoned"
  BY <1>1 DEF Commits
<1>8. OrderInv'
  BY <1>1, <1>3, <1>4 DEF Commits, AuditIInv, OrderInv, ResultTells, NoOrderEntry, Has
<1>9. \A e \in journal' \ journal : e.type = "ORDER_EXECUTION" =>
        e.status = IF cycle \in sent' THEN "FILLED" ELSE "DRY_RUN"
  BY <1>1, <1>3, <1>4 DEF AuditIInv, OrderInv, ResultTells
<1> QED
  BY <1>1, <1>5, <1>6, <1>7, <1>8, <1>9, FrameKeepsAudit

LEMMA RejectionKeepsAudit ==
    ASSUME AuditIInv, JournalRejection
    PROVE  AuditIInv'
<1>1. /\ phase = "rejected" /\ UNCHANGED <<cycle, mine, step, audit, sent, task>>
      /\ journal' = journal \cup {Entry("PIPELINE_REJECTION")}
      /\ Commits("idle")
  BY DEF JournalRejection, positionVars
<1>2. session = "clean" /\ step \in Steps /\ orderResult \in Results
  BY <1>1, RunningFacts DEF AuditIInv, AuditTypeOK
<1>3. CycleFrame
  BY <1>1, <1>2 DEF CycleFrame, Commits, Phases, Entry, Entries, Results
<1>4. phase' = "idle"
  BY <1>1 DEF Commits
<1>5. Told(cycle)'
  <2>1. Entry("PIPELINE_REJECTION").cycle = cycle /\ Entry("PIPELINE_REJECTION").type \in Endings
    BY DEF Entry, Endings
  <2> QED
    BY <1>1, <2>1 DEF Told
<1>6. OrderInv'
  BY <1>4 DEF OrderInv
<1>7. cycle \in sent' => Traced(cycle)'
  BY <1>1, <1>2 DEF AuditIInv, OrderInv, Traced, Has, Entry, Steps
<1>8. \A e \in journal' \ journal : e.type # "ORDER_EXECUTION"
  BY <1>1 DEF Entry
<1> QED
  BY <1>1, <1>3, <1>4, <1>5, <1>6, <1>7, <1>8, FrameKeepsAudit

LEMMA FatalKeepsAudit ==
    ASSUME AuditIInv, JournalFatal
    PROVE  AuditIInv'
<1>1. /\ phase = "fatal" /\ UNCHANGED <<cycle, mine, step, audit, sent, task>>
      /\ journal' = journal \cup {Entry("PIPELINE_FATAL")}
      /\ Commits("idle")
  BY DEF JournalFatal, positionVars
<1>2. session = "clean" /\ step \in Steps /\ orderResult \in Results
  BY <1>1, RunningFacts DEF AuditIInv, AuditTypeOK
<1>3. CycleFrame
  BY <1>1, <1>2 DEF CycleFrame, Commits, Phases, Entry, Entries, Results
<1>4. phase' = "idle"
  BY <1>1 DEF Commits
<1>5. Told(cycle)'
  <2>1. Entry("PIPELINE_FATAL").cycle = cycle /\ Entry("PIPELINE_FATAL").type \in Endings
    BY DEF Entry, Endings
  <2> QED
    BY <1>1, <2>1 DEF Told
<1>6. OrderInv'
  BY <1>4 DEF OrderInv
<1>7. cycle \in sent' => Traced(cycle)'
  <2> SUFFICES ASSUME cycle \in sent PROVE Traced(cycle)'
    BY <1>1
  <2>1. step \in {"TradeJournalEngine", "RuntimeStateUpdater"} /\ orderResult = "FILLED"
    BY <1>1, <1>2 DEF AuditIInv, OrderInv, ResultTells, Steps
  <2>2. CASE step = "TradeJournalEngine"
    BY <1>1, <2>2 DEF Traced, Has, Entry
  <2>3. CASE step = "RuntimeStateUpdater"
    BY <1>1, <2>1, <2>3 DEF AuditIInv, OrderInv, Traced, Has
  <2> QED
    BY <2>1, <2>2, <2>3
<1>8. \A e \in journal' \ journal : e.type # "ORDER_EXECUTION"
  BY <1>1 DEF Entry
<1> QED
  BY <1>1, <1>3, <1>4, <1>5, <1>6, <1>7, <1>8, FrameKeepsAudit

LEMMA ErrorKeepsAudit ==
    ASSUME AuditIInv, DatabaseError
    PROVE  AuditIInv'
<1>1. /\ phase # "idle" /\ UNCHANGED <<cycle, mine, step, audit, journal, sent, task>>
      /\ phase' = "idle" /\ session' = "poisoned" /\ orderResult' = "none"
  BY DEF DatabaseError, positionVars
<1>2. ~Told(cycle) /\ step \in Steps /\ orderResult \in Results
  BY <1>1, RunningFacts DEF AuditIInv, AuditTypeOK
<1>3. CycleFrame
  BY <1>1, <1>2 DEF CycleFrame, Phases, Results
<1>4. ~Told(cycle)'
  BY <1>1, <1>2 DEF Told
<1>5. OrderInv'
  BY <1>1 DEF OrderInv
<1> QED
  BY <1>1, <1>3, <1>4, <1>5, FrameKeepsAudit

LEMMA EndKeepsAudit ==
    ASSUME AuditIInv, ProcessEnds
    PROVE  AuditIInv'
<1>1. /\ phase' = "idle" /\ mine' = {} /\ orderResult' = "none"
      /\ UNCHANGED <<cycle, step, audit, journal, sent>>
  BY DEF ProcessEnds
<1>2. AuditTypeOK'
  BY <1>1 DEF AuditIInv, AuditTypeOK, Phases, Results
<1>3. OneAtATime' /\ EndingInv' /\ OrderInv'
  BY <1>1 DEF AuditIInv, OneAtATime, EndingInv, OrderInv
<1>4. OrdersTold'
  BY <1>1 DEF AuditIInv, OrdersTold, Told, Traced, Has
<1> QED
  BY <1>2, <1>3, <1>4 DEF AuditIInv

-----------------------------------------------------------------------------

\* The invariant that explains what the tables tell holds of AuditTrail:
\* run_cycle, EngineAuditService and RejectionJournalService keep it.
THEOREM AuditInvariance == AuditSpec => []AuditIInv
<1>1. AuditInit => AuditIInv
  <2> SUFFICES ASSUME AuditInit PROVE AuditIInv
    OBVIOUS
  <2>1. AuditTypeOK
    BY CyclesAssumption DEF AuditInit, AuditTypeOK, Steps, Phases, Statuses, Results
  <2>2. OneAtATime /\ OrderInv /\ OrdersTold
    BY DEF AuditInit, OneAtATime, OrderInv, OrdersTold
  <2>3. EndingInv
    BY DEF AuditInit, EndingInv, Steps
  <2> QED
    BY <2>1, <2>2, <2>3 DEF AuditIInv
<1>2. AuditIInv /\ [AuditNext]_allVars => AuditIInv'
  <2> SUFFICES ASSUME AuditIInv, [AuditNext]_allVars PROVE AuditIInv'
    OBVIOUS
  <2>1. CASE TradingStep
    BY <2>1, BeginKeepsAudit, OpenKeepsAudit, EndsKeepsAudit, ExecuteKeepsAudit,
       JournalKeepsAudit, CloseKeepsAudit, RejectedKeepsAudit, FailedKeepsAudit,
       RejectionKeepsAudit, FatalKeepsAudit DEF TradingStep
  <2>2. CASE DatabaseError
    BY <2>2, ErrorKeepsAudit
  <2>3. CASE PositionStep \/ LostBar \/ BrokerStep
    BY <2>3, QuietKeepsAudit
  <2>4. CASE ProcessEnds
    BY <2>4, EndKeepsAudit
  <2>5. CASE UNCHANGED allVars
    BY <2>5 DEF allVars, auditVars, vars, AuditIInv, AuditTypeOK, OneAtATime, EndingInv,
       OrderInv, ResultTells, NoOrderEntry, OrdersTold, Told, Traced, Has
  <2> QED
    BY <2>1, <2>2, <2>3, <2>4, <2>5 DEF AuditNext
<1> QED
  BY <1>1, <1>2, PTL DEF AuditSpec

\* However many cycles a process runs and whatever fails, only its last cycle
\* can lack an ending in trade_journals and engine_runs.
THEOREM EndingsAreTold == AuditSpec => []OnlyLastUntold
<1>1. AuditIInv => OnlyLastUntold
  <2> SUFFICES ASSUME AuditIInv, NEW c \in mine, NEW d \in mine, c < d
               PROVE  Told(c)
    BY DEF OnlyLastUntold
  <2>1. c < cycle
    BY CyclesAssumption DEF AuditIInv, AuditTypeOK
  <2> QED
    BY <2>1 DEF AuditIInv, EndingInv
<1> QED
  BY <1>1, AuditInvariance, PTL

\* A told cycle that sent an order left a trace of it, and the entry of
\* TradeJournalEngine gives FILLED for an order that ExecutionEngine sent and
\* DRY_RUN for a cycle in which it sent none.
THEOREM OrdersAreTold == AuditSpec => []OrdersTold
<1>1. AuditIInv => OrdersTold
  BY DEF AuditIInv
<1> QED
  BY <1>1, AuditInvariance, PTL

\* The trading cycles do to the positions tables nothing that PositionSync does
\* not do: they only poison the session between two position cycles.
THEOREM AuditImplementsSync == AuditSpec => Spec
<1>1. AuditInit => Init
  BY DEF AuditInit
<1>2. AuditIInv /\ [AuditNext]_allVars => [Next]_vars
  <2> SUFFICES ASSUME AuditIInv, [AuditNext]_allVars PROVE [Next]_vars
    OBVIOUS
  <2>1. CASE TradingStep \/ DatabaseError
    <3>1. UNCHANGED positionVars /\ (UNCHANGED session \/ session' = "poisoned")
      BY <2>1 DEF TradingStep, BeginTradingCycle, OpenStep, StepEnds, ExecuteOrder,
         JournalOrder, CloseStep, CloseRejected, CloseFailed, JournalRejection,
         JournalFatal, DatabaseError, Commits, positionVars, vars
    <3>2. task = "idle"
      BY <2>1, RunningFacts DEF TradingStep, BeginTradingCycle, OpenStep, StepEnds,
         ExecuteOrder, JournalOrder, CloseStep, CloseRejected, CloseFailed,
         JournalRejection, JournalFatal, DatabaseError
    <3> QED
      BY <3>1, <3>2 DEF positionVars, vars, Next, Failures, SessionPoisoned
  <2>2. CASE PositionStep \/ LostBar \/ ProcessEnds \/ BrokerStep
    BY <2>2 DEF PositionStep, LostBar, ProcessEnds, BrokerStep, Next, Failures
  <2>3. CASE UNCHANGED allVars
    BY <2>3 DEF allVars
  <2> QED
    BY <2>1, <2>2, <2>3 DEF AuditNext
<1> QED
  BY <1>1, <1>2, AuditInvariance, PTL DEF AuditSpec, Spec

\* Hence the positions are mirrored and their closings explained next to the
\* trading cycles too.
COROLLARY PositionsSurviveTrading == AuditSpec => [](Mirrored /\ JournalExplained)
BY AuditImplementsSync, PositionsMirrored, ClosingsExplained, PTL

=============================================================================
