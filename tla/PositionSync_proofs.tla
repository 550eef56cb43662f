------------------------ MODULE PositionSync_proofs ------------------------
(***************************************************************************)
(* Proofs about PositionSync, for any set of tickets and any number of     *)
(* failed requests.                                                        *)
(***************************************************************************)
EXTENDS PositionSync, TLAPS

\* The invariant holds before the worker has ever run.
LEMMA InitInv == Init => IInv
  <1> SUFFICES ASSUME Init PROVE IInv
    OBVIOUS
  <1>1. TypeOK
    BY DEF Init, TypeOK, Tasks
  <1>2. Mirrored /\ AnswerInv
    BY DEF Init, Mirrored, OpenAtBroker, OpenRows, AnswerInv
  <1>3. ClosingInv
    BY DEF Init, ClosingInv
  <1> QED BY <1>1, <1>2, <1>3 DEF IInv

\* A request returns tickets that are open, or nothing.
LEMMA ReadReturns ==
    ASSUME TypeOK, ReadPositions
    PROVE  /\ answer' \subseteq OpenAtBroker
           /\ ~lost' => answer' = OpenAtBroker
           /\ lost' \in BOOLEAN
           /\ lostReads' \in Nat
           /\ lostReads' = IF lost' THEN lostReads + 1 ELSE lostReads
  <1>1. CASE answer' = OpenAtBroker /\ lost' = FALSE /\ lostReads' = lostReads
    BY <1>1 DEF TypeOK
  <1>2. CASE answer' = {} /\ lost' = TRUE /\ lostReads' = lostReads + 1
    BY <1>2 DEF TypeOK
  <1> QED BY <1>1, <1>2 DEF ReadPositions

\* The first request of a cycle, or of the startup recovery.
LEMMA FirstRead ==
    ASSUME IInv, StartRecovery \/ BeginCycle
    PROVE  IInv'
  <1> USE DEF IInv
  <1>1. /\ answer' \subseteq OpenAtBroker
        /\ lost' \in BOOLEAN /\ lostReads' \in Nat /\ lostReads' >= lostReads
    BY ReadReturns DEF StartRecovery, BeginCycle, TypeOK
  <1>2. UNCHANGED <<market, rows, closings, session, unseen>> /\ task' \in {"recovery", "upsert"}
    BY DEF StartRecovery, BeginCycle
  <1>3. TypeOK'
    BY <1>1, <1>2 DEF TypeOK, Tasks, OpenAtBroker
  <1>4. Mirrored' /\ AnswerInv'
    BY <1>1, <1>2 DEF Mirrored, AnswerInv, OpenAtBroker, OpenRows, TypeOK
  <1>5. ClosingInv'
    BY <1>1, <1>2 DEF ClosingInv, OpenAtBroker, TypeOK
  <1> QED BY <1>3, <1>4, <1>5

\* The rows of the answer are written.
LEMMA RowsWritten ==
    ASSUME IInv, UpsertRows
    PROVE  IInv'
  <1> USE DEF IInv
  <1>1. TypeOK'
    BY DEF UpsertRows, AfterUpsert, TypeOK, Tasks
  <1>2. Mirrored' /\ AnswerInv'
    BY DEF UpsertRows, AfterUpsert, TypeOK, Mirrored, AnswerInv, OpenAtBroker, OpenRows
  <1>3. ClosingInv'
    BY DEF UpsertRows, AfterUpsert, TypeOK, AnswerInv, ClosingInv
  <1> QED BY <1>1, <1>2, <1>3

\* The second request: what it does not name has closed, or is unseen from now
\* on.
LEMMA SecondRead ==
    ASSUME IInv, ReadForLifecycle
    PROVE  IInv'
  <1> USE DEF IInv
  <1>1. /\ answer' \subseteq OpenAtBroker
        /\ ~lost' => answer' = OpenAtBroker
        /\ lost' \in BOOLEAN /\ lostReads' \in Nat
        /\ lostReads' = IF lost' THEN lostReads + 1 ELSE lostReads
    BY ReadReturns DEF ReadForLifecycle
  <1>2. /\ UNCHANGED <<market, rows, closings, session>> /\ task' = "close"
        /\ unseen' = IF lost' THEN unseen \cup OpenAtBroker ELSE unseen
    BY DEF ReadForLifecycle
  <1>3. TypeOK'
    BY <1>1, <1>2 DEF TypeOK, Tasks, OpenAtBroker
  <1>4. Mirrored' /\ AnswerInv'
    BY <1>1, <1>2 DEF Mirrored, AnswerInv, OpenAtBroker, OpenRows, TypeOK
  <1>5. ClosingInv'
    BY <1>1, <1>2 DEF ClosingInv, OpenAtBroker, TypeOK
  <1> QED BY <1>3, <1>4, <1>5

\* Rows are closed: no position that the worker could know of loses its row.
LEMMA RowsClosed ==
    ASSUME IInv, CloseMissing
    PROVE  IInv'
  <1> USE DEF IInv
  <1>1. TypeOK'
    BY DEF CloseMissing, TypeOK, Tasks
  <1>2. Mirrored' /\ AnswerInv'
    BY DEF CloseMissing, TypeOK, Mirrored, AnswerInv, OpenAtBroker, OpenRows
  <1>3. ASSUME NEW t \in Tickets, t \in OpenRows \ answer
        PROVE  /\ rows'[t] = "CLOSED" /\ closings'[t] = closings[t] + 1
               /\ closings'[t] <= 1 + lostReads
               /\ market[t] = "open" => closings'[t] <= lostReads
    <2>1. rows'[t] = "CLOSED" /\ closings'[t] = closings[t] + 1 /\ closings[t] <= lostReads
      BY <1>3 DEF CloseMissing, OpenRows, ClosingInv, TypeOK
    <2>2. CASE lost
      BY <1>3, <2>1, <2>2 DEF CloseMissing, OpenRows, ClosingInv, TypeOK
    <2>3. CASE ~lost
      BY <1>3, <2>1, <2>3 DEF CloseMissing, OpenRows, OpenAtBroker, AnswerInv, Mirrored, TypeOK
    <2> QED BY <2>2, <2>3 DEF TypeOK
  <1>4. ClosingInv'
    BY <1>3 DEF CloseMissing, ClosingInv, TypeOK, OpenRows
  <1> QED BY <1>1, <1>2, <1>4

\* A failure forgets what was read, and changes no table.
LEMMA FailureStep ==
    ASSUME IInv, Failures
    PROVE  IInv'
  <1> USE DEF IInv
  <1>1. /\ UNCHANGED <<market, rows, closings, unseen, lostReads>>
        /\ task' \in {"idle", "down"} /\ session' \in {"clean", "poisoned"}
        /\ answer' \in {answer, {}} /\ lost' \in {lost, FALSE}
    BY DEF Failures, CycleRaises, SessionPoisoned, Crash, TypeOK
  <1>2. TypeOK'
    BY <1>1 DEF TypeOK, Tasks
  <1>3. Mirrored' /\ AnswerInv' /\ ClosingInv'
    BY <1>1 DEF Mirrored, AnswerInv, ClosingInv, OpenAtBroker, OpenRows
  <1> QED BY <1>2, <1>3

\* A position that opens is unseen; one that closes asks nothing of the table.
LEMMA BrokerMirrors ==
    ASSUME IInv, NEW t \in Tickets, OpenPosition(t) \/ ClosePosition(t)
    PROVE  IInv'
  <1> USE DEF IInv
  <1>1. TypeOK'
    BY DEF OpenPosition, ClosePosition, TypeOK
  <1>2. Mirrored' /\ AnswerInv'
    BY DEF OpenPosition, ClosePosition, TypeOK, Mirrored, AnswerInv, OpenAtBroker, OpenRows
  <1>3. ClosingInv'
    BY DEF OpenPosition, ClosePosition, TypeOK, AnswerInv, ClosingInv
  <1> QED BY <1>1, <1>2, <1>3

\* Every step keeps the invariant.
LEMMA NextInv == IInv /\ [Next]_vars => IInv'
  <1> SUFFICES ASSUME IInv, [Next]_vars PROVE IInv'
    OBVIOUS
  <1>1. CASE UNCHANGED vars
    BY <1>1 DEF vars, IInv, TypeOK, Mirrored, AnswerInv, ClosingInv, OpenAtBroker, OpenRows
  <1>2. CASE Worker
    BY <1>2, FirstRead, RowsWritten, SecondRead, RowsClosed DEF Worker
  <1>3. CASE Failures
    BY <1>3, FailureStep
  <1>4. CASE Broker
    BY <1>4, BrokerMirrors DEF Broker
  <1> QED BY <1>1, <1>2, <1>3, <1>4 DEF Next

\* IInv is an invariant of the mirrored positions.
THEOREM Invariance == Spec => []IInv
  BY InitInv, NextInv, PTL DEF Spec

\* With any number of positions and failed requests, an open position without
\* an OPEN row is one the worker has had no chance to know of.
THEOREM PositionsMirrored == Spec => []Mirrored
  BY Invariance, PTL DEF IInv

\* The journal closes a position once, plus at most once for each failed
\* request.
THEOREM ClosingsExplained == Spec => []JournalExplained
  <1>1. IInv => JournalExplained
    BY DEF IInv, ClosingInv, JournalExplained
  <1> QED BY <1>1, Invariance, PTL
=============================================================================
