------------------------ MODULE WorkerRuntime_proofs ------------------------
(***************************************************************************)
(* Proofs about WorkerRuntime.                                             *)
(***************************************************************************)
EXTENDS WorkerRuntime, FiniteSetTheorems, TLAPS

\* What each conjunct of the invariant is made of.
LEMMA RowTypes ==
    /\ NoDetails \in Details
    /\ NoRow \in RowType
    /\ \A status \in {"running", "stopped", "error"} : Marked(status) \in RowType
  BY BoundsAssumption DEF NoDetails, Details, NoRow, RowType, Marked

\* A mark says nothing of markers, and only an error is rejected.
LEMMA BlankMarks ==
    ASSUME NEW status \in {"running", "stopped", "error"}
    PROVE  /\ Marked(status).rejected <=> status = "error"
           /\ \A k \in Keys : Marked(status).details[k] = 0
  <1>1. /\ Marked(status).rejected = (status = "error")
        /\ Marked(status).details = [NoDetails EXCEPT !.state = status]
    BY DEF Marked
  <1>2. \A k \in Keys : [NoDetails EXCEPT !.state = status][k] = 0
    BY DEF NoDetails, Keys
  <1> QED
    BY <1>1, <1>2

\* A write leaves in each column the value that was there or the new one.
LEMMA WriteMixes ==
    ASSUME NEW new \in RowType, NEW was \in RowType, NEW extra, row \in RowType,
           Write(new, was, extra)
    PROVE  /\ row' \in RowType
           /\ row'.details \in {row.details, new.details}
           /\ row'.rejected \in {row.rejected, new.rejected}
           /\ new.rejected = was.rejected /\ "rejected" \notin extra => row'.rejected = row.rejected
           /\ new.rejected # was.rejected => row'.rejected = new.rejected
           /\ new.details # was.details => row'.details = new.details
           /\ was = row => row' = new
  BY DEF Write, RowType

\* The runs are finitely many, and so are those without an end.
LEMMA UnendedFinite == IsFiniteSet(Unended) /\ Cardinality(Unended) \in Nat
  <1>1. IsFiniteSet(Cycles)
    BY BoundsAssumption, FS_Interval DEF Cycles
  <1>2. IsFiniteSet({"work", "update"})
    <2>1. {"work", "update"} = {"work"} \cup {"update"}
      OBVIOUS
    <2>2. IsFiniteSet({"work"}) /\ IsFiniteSet({"update"})
      BY FS_Singleton
    <2> QED
      BY <2>1, <2>2, FS_AddElement
  <1>3. IsFiniteSet(Runs)
    BY <1>1, <1>2, FS_Product DEF Runs
  <1> QED
    BY <1>3, FS_Subset, FS_CardinalityType DEF Unended

-----------------------------------------------------------------------------
\* Initially

LEMMA InitInv == Init => IInv
  <1> SUFFICES ASSUME Init PROVE IInv
    OBVIOUS
  <1>1. TypeOK
    <2>1. /\ row \in RowType
          /\ loaded \in [{"main", "listener", "heart"} -> RowType]
      BY RowTypes DEF Init
    <2>2. 0 \in 0..MaxCycles /\ 0 \in 0..MaxBeats /\ 0 \in 0..MaxStarts
      BY BoundsAssumption
    <2>3. runs \in [Runs -> RunType]
      BY DEF Init, NoRun, RunType
    <2> QED
      BY <2>1, <2>2, <2>3 DEF Init, TypeOK, Calls, StartCalls, ShutdownCalls
  <1>2. ThreadInv /\ MarkInv /\ MarkerInv
    BY DEF Init, ThreadInv, MarkInv, MarkerInv, Updating, StartCalls, Keys, Loaded, NoRow, NoDetails
  <1>3. Unended = {}
    BY DEF Init, Unended, NoRun
  <1>4. RunInv
    BY <1>3, FS_EmptySet DEF Init, RunInv, InterruptedNeverEnded, NoRun, Updating, Keys, Loaded
  <1> QED
    BY <1>1, <1>2, <1>4 DEF IInv

-----------------------------------------------------------------------------
\* Steps of the runs

\* Runs that keep their beginning and their end leave as many unended.
LEMMA UnendedKept ==
    ASSUME \A r \in Runs : /\ runs'[r].end = runs[r].end
                           /\ (runs'[r].open = "none") = (runs[r].open = "none")
    PROVE  Unended' = Unended
  BY DEF Unended

\* Opening a run changes no other.
LEMMA OpenedRun ==
    ASSUME TypeOK, NEW r \in Runs, OpenRun(r)
    PROVE  /\ runs' \in [Runs -> RunType]
           /\ \A q \in Runs \ {r} : runs'[q] = runs[q]
           /\ runs'[r].open = "RUNNING" /\ runs'[r].end = "none"
  BY DEF OpenRun, NoRun, RunType, TypeOK

\* Nor does ending one.
LEMMA EndedRun ==
    ASSUME TypeOK, NEW r \in Runs, NEW status \in {"SUCCESS", "REJECTED", "FAILED"}, EndRun(r, status)
    PROVE  /\ runs' \in [Runs -> RunType]
           /\ \A q \in Runs \ {r} : runs'[q] = runs[q]
           /\ runs'[r].open = runs[r].open /\ runs'[r].end = status
  <1>1. runs \in [Runs -> RunType] /\ runs[r] \in RunType
    BY DEF TypeOK
  <1>2. runs' = [runs EXCEPT ![r] = [runs[r] EXCEPT !.end = status]]
    BY DEF EndRun
  <1>3. [runs[r] EXCEPT !.end = status] \in RunType
    BY <1>1 DEF RunType
  <1> QED
    BY <1>1, <1>2, <1>3 DEF RunType

\* Opening a run adds one, at most.
LEMMA RunOpened ==
    ASSUME NEW r \in Runs, OpenRun(r), Cardinality(Unended) < starts, starts \in Nat, TypeOK
    PROVE  Cardinality(Unended') <= starts
  <1>1. Unended' \subseteq Unended \cup {r}
    BY DEF OpenRun, TypeOK, Unended
  <1>2. /\ IsFiniteSet(Unended \cup {r})
        /\ Cardinality(Unended \cup {r}) <= Cardinality(Unended) + 1
    BY UnendedFinite, FS_AddElement
  <1>3. IsFiniteSet(Unended') /\ Cardinality(Unended') <= Cardinality(Unended \cup {r})
    BY <1>1, <1>2, FS_Subset
  <1> QED
    BY <1>1, <1>2, <1>3, UnendedFinite, FS_CardinalityType

\* Ending the open run takes one away.
LEMMA RunEnded ==
    ASSUME NEW r \in Runs, NEW status \in {"SUCCESS", "REJECTED", "FAILED"}, EndRun(r, status),
           runs[r].open = "RUNNING", runs[r].end = "none",
           Cardinality(Unended) <= starts, starts \in Nat, TypeOK
    PROVE  Cardinality(Unended') < starts /\ Cardinality(Unended') <= starts
  <1>1. r \in Unended /\ Unended' = Unended \ {r}
    BY DEF EndRun, TypeOK, RunType, Unended
  <1>2. Cardinality(Unended \ {r}) = Cardinality(Unended) - 1
    BY <1>1, UnendedFinite, FS_RemoveElement
  <1>3. Cardinality(Unended) \in Nat
    BY UnendedFinite
  <1> QED
    BY <1>1, <1>2, <1>3

-----------------------------------------------------------------------------
\* Main

LEMMA StartStep ==
    ASSUME IInv, Register \/ MarkRunning \/ Recover \/ StartHeartbeat \/ StartListener
    PROVE  IInv'
  <1> USE DEF IInv
  <1>1. CASE Register
    <2>1. TypeOK'
      <3>1. starts' \in 0..MaxStarts
        BY <1>1, BoundsAssumption DEF Register, TypeOK
      <3>2. row' \in RowType /\ loaded' \in [{"main", "listener", "heart"} -> RowType]
        BY <1>1, RowTypes DEF Register
      <3>3. marked' \in [Keys -> 0..MaxCycles]
        BY <1>1, BoundsAssumption DEF Register
      <3> QED
        BY <1>1, <3>1, <3>2, <3>3 DEF Register, TypeOK, Calls, StartCalls
    <2>2. ThreadInv' /\ MarkInv' /\ MarkerInv'
      BY <1>1 DEF Register, ThreadInv, MarkInv, MarkerInv, NoRow, NoDetails, Updating, Loaded,
                  Keys, StartCalls
    <2>3. Unended' = Unended
      BY <1>1 DEF Register, Unended
    <2>4. RunInv'
      BY <1>1, <2>3, UnendedFinite DEF Register, RunInv, InterruptedNeverEnded, ThreadInv,
                  Updating, Loaded, Keys, TypeOK
    <2> QED
      BY <2>1, <2>2, <2>4
  <1>2. CASE MarkRunning
    <2>1. TypeOK'
      BY <1>2, RowTypes DEF MarkRunning, TypeOK, Calls, StartCalls
    <2>2. ThreadInv' /\ MarkInv' /\ MarkerInv'
      <3>1. /\ ~row'.rejected
            /\ \A k \in Keys : row'.details[k] = 0
        BY <1>2, BlankMarks DEF MarkRunning
      <3> QED
        BY <1>2, <3>1 DEF MarkRunning, ThreadInv, MarkInv, MarkerInv, Loaded, StartCalls
    <2>3. Unended' = Unended
      BY <1>2 DEF MarkRunning, Unended
    <2> QED
      BY <1>2, <2>1, <2>2, <2>3 DEF MarkRunning, RunInv, InterruptedNeverEnded
  <1>3. CASE Recover
    <2>1. TypeOK'
      BY <1>3 DEF Recover, TypeOK, Calls, StartCalls, RunType
    <2>2. ThreadInv' /\ MarkInv' /\ MarkerInv'
      BY <1>3 DEF Recover, ThreadInv, MarkInv, MarkerInv, StartCalls
    <2>3. Unended' = Unended
      BY <1>3, UnendedKept DEF Recover, Orphan, TypeOK, RunType
    <2>4. listener = "off"
      BY <1>3 DEF Recover, ThreadInv, StartCalls
    <2> QED
      BY <1>3, <2>1, <2>2, <2>3, <2>4 DEF Recover, RunInv, InterruptedNeverEnded, Orphan, TypeOK, RunType,
                  Updating, Loaded, Keys
  <1>4. CASE StartListener
    <2>1. TypeOK'
      BY <1>4 DEF StartListener, TypeOK, Calls, StartCalls
    <2>2. ThreadInv' /\ MarkInv' /\ MarkerInv'
      BY <1>4 DEF StartListener, ThreadInv, MarkInv, MarkerInv, Updating, Loaded, Keys, StartCalls
    <2>3. Unended' = Unended
      BY <1>4 DEF StartListener, Unended
    <2> QED
      BY <1>4, <2>1, <2>2, <2>3 DEF StartListener, RunInv, InterruptedNeverEnded, Updating, Loaded,
                  Keys, ThreadInv, StartCalls
  <1>5. CASE StartHeartbeat
    <2>1. TypeOK'
      BY <1>5 DEF StartHeartbeat, TypeOK, Calls, StartCalls
    <2>2. ThreadInv' /\ MarkInv' /\ MarkerInv'
      BY <1>5 DEF StartHeartbeat, ThreadInv, MarkInv, MarkerInv, Updating, Loaded, Keys, StartCalls
    <2>3. Unended' = Unended
      BY <1>5 DEF StartHeartbeat, Unended
    <2> QED
      BY <1>5, <2>1, <2>2, <2>3 DEF StartHeartbeat, RunInv, InterruptedNeverEnded, Updating, Loaded,
                  Keys, ThreadInv, StartCalls
  <1> QED
    BY <1>1, <1>2, <1>3, <1>4, <1>5

LEMMA ShutdownStep ==
    ASSUME IInv, StartRaises \/ Interrupt \/ Shutdown \/ Exit
    PROVE  IInv'
  <1> USE DEF IInv
  <1>1. TypeOK' /\ ThreadInv' /\ MarkInv' /\ MarkerInv'
    <2>1. CASE StartRaises
      <3>1. TypeOK'
        BY <2>1 DEF StartRaises, TypeOK, Calls, StartCalls, ShutdownCalls
      <3>2. ThreadInv'
        BY <2>1 DEF StartRaises, ThreadInv, MarkRunning, StartCalls
      <3>3. MarkInv'
        BY <2>1 DEF StartRaises, MarkInv, ThreadInv, StartCalls
      <3>4. MarkerInv'
        BY <2>1 DEF StartRaises, MarkerInv, StartCalls
      <3> QED
        BY <3>1, <3>2, <3>3, <3>4
    <2>2. CASE Interrupt
      BY <2>2 DEF Interrupt, TypeOK, Calls, ShutdownCalls, ThreadInv, MarkInv, MarkerInv, StartCalls
    <2>3. CASE LoadForMark
      <3>1. TypeOK'
        BY <2>3 DEF LoadForMark, TypeOK, Calls, StartCalls, ShutdownCalls
      <3> QED
        BY <2>3, <3>1 DEF LoadForMark, TypeOK, ThreadInv, MarkInv, MarkerInv, StartCalls
    <2>4. CASE Mark
      <3>1. PICK status \in {"error", "stopped"}, extra \in SUBSET Columns :
                /\ status = "error" <=> main = "error_loaded"
                /\ instance' = status
                /\ Write(Marked(status), loaded.main, extra)
                /\ late = {} => extra = {}
        BY <2>4 DEF Mark
      <3>2. Marked(status) \in RowType /\ loaded.main \in RowType /\ row \in RowType
        BY <3>1, RowTypes DEF TypeOK
      <3>3. /\ row' \in RowType
            /\ row'.details \in {row.details, Marked(status).details}
            /\ row'.rejected \in {row.rejected, Marked(status).rejected}
            /\ Marked(status).rejected # loaded.main.rejected => row'.rejected = Marked(status).rejected
            /\ loaded.main = row => row' = Marked(status)
        BY <3>1, <3>2, WriteMixes
      <3>4. TypeOK'
        BY <2>4, <3>1, <3>3, RowTypes DEF Mark, TypeOK, Calls, StartCalls, ShutdownCalls, AfterMark
      <3>5. ThreadInv'
        BY <2>4 DEF Mark, ThreadInv, AfterMark, StartCalls
      <3>6. MarkInv'
        BY <2>4, <3>1, <3>3 DEF Mark, MarkInv, ThreadInv, AfterMark, Marked
      <3>7. MarkerInv'
        BY <2>4, <3>3 DEF Mark, MarkerInv, AfterMark, Marked, NoDetails, Keys, StartCalls
      <3> QED
        BY <3>4, <3>5, <3>6, <3>7
    <2>5. CASE MarkFails
      <3>1. TypeOK'
        BY <2>5, RowTypes DEF MarkFails, TypeOK, Calls, StartCalls, ShutdownCalls, AfterMark
      <3> QED
        BY <2>5, <3>1 DEF MarkFails, TypeOK, ThreadInv, MarkInv, MarkerInv, AfterMark, StartCalls
    <2>6. CASE JoinListener
      <3>1. TypeOK'
        BY <2>6 DEF JoinListener, TypeOK, Calls, StartCalls, ShutdownCalls
      <3>2. ThreadInv'
        BY <2>6 DEF JoinListener, ThreadInv, StartCalls, Updating, Loaded, Keys
      <3>3. MarkInv'
        BY <2>6 DEF JoinListener, MarkInv
      <3>4. MarkerInv'
        BY <2>6 DEF JoinListener, MarkerInv, StartCalls, Loaded
      <3> QED
        BY <3>1, <3>2, <3>3, <3>4
    <2>7. CASE JoinHeart
      <3>1. TypeOK'
        BY <2>7 DEF JoinHeart, TypeOK, Calls, StartCalls, ShutdownCalls, AfterJoins
      <3>2. ThreadInv'
        BY <2>7 DEF JoinHeart, ThreadInv, StartCalls, AfterJoins
      <3>3. MarkInv'
        BY <2>7 DEF JoinHeart, MarkInv, ThreadInv, AfterJoins
      <3>4. MarkerInv'
        BY <2>7 DEF JoinHeart, MarkerInv, StartCalls, AfterJoins
      <3> QED
        BY <3>1, <3>2, <3>3, <3>4
    <2>8. CASE Exit
      BY <2>8 DEF Exit, TypeOK, Calls, ThreadInv, MarkInv, MarkerInv, StartCalls, Updating, Loaded, Keys
    <2> QED
      BY <2>1, <2>2, <2>3, <2>4, <2>5, <2>6, <2>7, <2>8 DEF Shutdown
  <1>2. /\ UNCHANGED <<runs, starts, cycle>>
        /\ listener' \in {listener, "off"}
        /\ main # "down"
        /\ main' # "down" /\ session' = "clean" =>
              session = "clean" /\ (listener' = listener \/ listener = "idle")
    BY DEF StartRaises, StartCalls, Interrupt, Shutdown, LoadForMark, Mark, MarkFails, JoinListener, JoinHeart, Exit
  <1>3. Unended' = Unended
    BY <1>2 DEF Unended
  <1>4. RunInv'
    BY <1>2, <1>3 DEF RunInv, InterruptedNeverEnded, Updating, Loaded, Keys
  <1> QED
    BY <1>1, <1>4

-----------------------------------------------------------------------------
\* Heartbeat

LEMMA HeartStep ==
    ASSUME IInv, Heart
    PROVE  IInv'
  <1> USE DEF IInv
  <1>1. Unended' = Unended
    BY DEF Heart, LoadForBeat, Beat, BeatFails, Unended
  <1>2. RunInv'
    BY <1>1 DEF Heart, LoadForBeat, Beat, BeatFails, RunInv, InterruptedNeverEnded
  <1>3. CASE LoadForBeat
    <2>1. beats' \in 0..MaxBeats
      BY <1>3, BoundsAssumption DEF LoadForBeat, TypeOK
    <2>2. TypeOK'
      BY <1>3, <2>1 DEF LoadForBeat, TypeOK
    <2>3. loaded'.main = loaded.main /\ loaded'.listener = loaded.listener
      BY <1>3 DEF LoadForBeat, TypeOK
    <2> QED
      BY <1>2, <1>3, <2>2, <2>3 DEF LoadForBeat, ThreadInv, MarkInv, MarkerInv
  <1>4. CASE Beat
    <2> DEFINE new == [loaded.heart EXCEPT !.running = TRUE, !.details = BeatDetails]
    <2>1. /\ loaded.heart \in RowType /\ row \in RowType /\ NoRow \in RowType
          /\ BeatDetails \in Details /\ \A k \in Keys : BeatDetails[k] = 0
      BY RowTypes DEF TypeOK, BeatDetails, NoDetails, Details, Keys
    <2>2. new \in RowType /\ new.rejected = loaded.heart.rejected /\ new.details = BeatDetails
      BY <2>1 DEF RowType
    <2>3. Write(new, loaded.heart, {})
      BY <1>4 DEF Beat
    <2>4. /\ row' \in RowType
          /\ row'.details \in {row.details, BeatDetails}
          /\ row'.rejected = row.rejected
      <3> HIDE DEF new
      <3> QED
        BY <2>1, <2>2, <2>3, WriteMixes
    <2>5. loaded'.main = loaded.main /\ loaded'.listener = loaded.listener
      BY <1>4 DEF Beat, TypeOK
    <2>6. TypeOK'
      BY <1>4, <2>1, <2>4 DEF Beat, TypeOK
    <2>7. ThreadInv'
      BY <1>4 DEF Beat, ThreadInv
    <2>8. MarkInv'
      BY <1>4, <2>4, <2>5 DEF Beat, MarkInv, ThreadInv
    <2>9. MarkerInv'
      BY <1>4, <2>1, <2>4, <2>5 DEF Beat, MarkerInv
    <2> QED
      BY <1>2, <2>6, <2>7, <2>8, <2>9
  <1>5. CASE BeatFails
    <2>1. TypeOK'
      BY <1>5, RowTypes DEF BeatFails, TypeOK
    <2>2. loaded'.main = loaded.main /\ loaded'.listener = loaded.listener
      BY <1>5 DEF BeatFails, TypeOK
    <2> QED
      BY <1>2, <1>5, <2>1, <2>2 DEF BeatFails, ThreadInv, MarkInv, MarkerInv
  <1> QED
    BY <1>3, <1>4, <1>5 DEF Heart

-----------------------------------------------------------------------------
\* Listener

\* Steps that write engine_runs.
LEMMA AuditStep ==
    ASSUME IInv, BeginCycle \/ EndWork \/ BeginUpdate \/ EndUpdate
    PROVE  IInv'
  <1> USE DEF IInv
  <1>1. starts \in Nat /\ main # "down" /\ ~hadError /\ session = "clean" /\ session' = "clean"
    BY DEF BeginCycle, EndWork, BeginUpdate, EndUpdate, TypeOK, ThreadInv, Updating
  <1>2. CASE BeginCycle
    <2>1. <<cycle', "work">> \in Runs /\ cycle' \in 1..MaxCycles /\ cycle' # 0
      BY <1>2, BoundsAssumption DEF BeginCycle, TypeOK, Runs, Cycles
    <2>2. TypeOK'
      BY <1>2, <2>1, OpenedRun DEF BeginCycle, TypeOK
    <2>3. ThreadInv' /\ MarkInv' /\ MarkerInv'
      BY <1>1, <1>2, <2>1 DEF BeginCycle, ThreadInv, MarkInv, MarkerInv, StartCalls, Loaded
    <2>4. Cardinality(Unended') <= starts'
      BY <1>1, <1>2, <2>1, RunOpened DEF BeginCycle, RunInv
    <2> QED
      BY <1>2, <2>1, <2>2, <2>3, <2>4, OpenedRun DEF BeginCycle, RunInv, InterruptedNeverEnded,
          Updating, Loaded, Keys
  <1>3. CASE EndWork
    <2>1. PICK status \in {"SUCCESS", "REJECTED", "FAILED"} :
              /\ EndRun(<<cycle, "work">>, status)
              /\ listener' = IF status = "SUCCESS" THEN "passed" ELSE "idle"
      BY <1>3 DEF EndWork
    <2>2. <<cycle, "work">> \in Runs /\ cycle # 0
      BY <1>3, BoundsAssumption DEF EndWork, ThreadInv, TypeOK, Runs, Cycles
    <2>3. TypeOK'
      BY <1>3, <2>1, <2>2, EndedRun DEF EndWork, TypeOK
    <2>4. ThreadInv' /\ MarkInv' /\ MarkerInv'
      BY <1>1, <1>3, <2>1, <2>2 DEF EndWork, ThreadInv, MarkInv, MarkerInv, StartCalls, Loaded
    <2>5. Cardinality(Unended') < starts' /\ Cardinality(Unended') <= starts'
      BY <1>1, <1>3, <2>1, <2>2, RunEnded DEF EndWork, RunInv
    <2>6. InterruptedNeverEnded'
      BY <1>3, <2>1, <2>2, EndedRun DEF EndWork, RunInv, InterruptedNeverEnded
    <2> QED
      BY <1>1, <1>3, <2>1, <2>3, <2>4, <2>5, <2>6 DEF EndWork, RunInv,
          Updating, Loaded, Keys
  <1>4. CASE BeginUpdate
    <2>1. <<cycle, "update">> \in Runs /\ cycle # 0
      BY <1>4, BoundsAssumption DEF BeginUpdate, ThreadInv, TypeOK, Runs, Cycles
    <2>2. TypeOK'
      BY <1>4, <2>1, OpenedRun DEF BeginUpdate, TypeOK
    <2>3. ThreadInv' /\ MarkInv' /\ MarkerInv'
      BY <1>1, <1>4, <2>1 DEF BeginUpdate, ThreadInv, MarkInv, MarkerInv, StartCalls, Loaded
    <2>4. Cardinality(Unended') <= starts'
      BY <1>1, <1>4, <2>1, RunOpened DEF BeginUpdate, RunInv
    <2> QED
      BY <1>4, <2>1, <2>2, <2>3, <2>4, OpenedRun DEF BeginUpdate, RunInv, InterruptedNeverEnded
  <1>5. CASE EndUpdate
    <2>1. <<cycle, "update">> \in Runs /\ cycle # 0
      BY <1>5, BoundsAssumption DEF EndUpdate, ThreadInv, Updating, TypeOK, Runs, Cycles
    <2>2. TypeOK'
      BY <1>5, <2>1, RowTypes, EndedRun DEF EndUpdate, TypeOK
    <2>3. loaded'.main = loaded.main
      BY <1>5 DEF EndUpdate, TypeOK
    <2>4. ThreadInv' /\ MarkInv' /\ MarkerInv'
      BY <1>1, <1>5, <2>1, <2>3 DEF EndUpdate, ThreadInv, MarkInv, MarkerInv, StartCalls, Loaded
    <2>5. Cardinality(Unended') < starts' /\ Cardinality(Unended') <= starts'
      BY <1>1, <1>5, <2>1, RunEnded DEF EndUpdate, RunInv, Updating
    <2>6. InterruptedNeverEnded'
      BY <1>5, <2>1, EndedRun DEF EndUpdate, RunInv, InterruptedNeverEnded, Updating
    <2> QED
      BY <1>1, <1>5, <2>2, <2>4, <2>5, <2>6 DEF EndUpdate, RunInv,
          Updating, Loaded, Keys
  <1> QED
    BY <1>2, <1>3, <1>4, <1>5

\* Steps that write the runtime row, and those that fail.
LEMMA MarkerStep ==
    ASSUME IInv, LoadForMarker \/ SetState \/ CycleFails
    PROVE  IInv'
  <1> USE DEF IInv
  <1>1. Unended' = Unended
    BY DEF LoadForMarker, SetState, CycleFails, Unended
  <1>2. RunInv'
    BY <1>1 DEF LoadForMarker, SetState, CycleFails, RunInv, InterruptedNeverEnded, Updating, Loaded,
                Keys
  <1>3. CASE LoadForMarker
    <2>1. /\ loaded' \in [{"main", "listener", "heart"} -> RowType]
          /\ loaded'.main = loaded.main /\ loaded'.listener = row
      BY <1>3 DEF LoadForMarker, TypeOK
    <2>2. TypeOK'
      BY <1>3, <2>1 DEF LoadForMarker, TypeOK
    <2>3. ThreadInv' /\ MarkInv'
      BY <1>3, <2>1 DEF LoadForMarker, ThreadInv, MarkInv, Updating, Loaded, Keys
    <2>4. MarkerInv'
      BY <1>3, <2>1 DEF LoadForMarker, MarkerInv, Loaded, Keys
    <2> QED
      BY <1>2, <2>2, <2>3, <2>4
  <1>4. CASE SetState
    <2> DEFINE k == IF listener = "candle_loaded" THEN "candle" ELSE "status"
               new == [running |-> TRUE, rejected |-> FALSE, details |-> WithMarker(k)]
    <2>1. PICK extra \in SUBSET Columns : Write(new, loaded.listener, extra)
      BY <1>4 DEF SetState
    <2>2. /\ k \in Keys /\ listener \in Loaded /\ ~hadError /\ cycle \in 0..MaxCycles
          /\ marked' = [marked EXCEPT ![k] = cycle] /\ row \in RowType /\ loaded.listener \in RowType
      BY <1>4 DEF SetState, Keys, Loaded, ThreadInv, TypeOK
    <2>3. /\ WithMarker(k) \in Details
          /\ \A q \in Keys : WithMarker(k)[q] = IF q = k THEN cycle ELSE loaded.listener.details[q]
      BY <2>2 DEF WithMarker, RowType, Details, Keys
    <2>4. new \in RowType /\ ~new.rejected /\ new.details = WithMarker(k)
      BY <2>3 DEF RowType
    <2> HIDE DEF k, new
    <2>5. /\ row' \in RowType
          /\ row'.details \in {row.details, WithMarker(k)}
          /\ row'.rejected \in {row.rejected, new.rejected}
          /\ new.details # loaded.listener.details => row'.details = new.details
      BY <2>1, <2>2, <2>4, WriteMixes
    <2>6. TypeOK'
      BY <1>4, <2>2, <2>5 DEF SetState, TypeOK
    <2>7. ThreadInv'
      BY <1>4, <2>2 DEF SetState, ThreadInv, Updating, Loaded, Keys
    <2>8. MarkInv'
      BY <1>4, <2>2, <2>4, <2>5 DEF SetState, MarkInv, ThreadInv
    <2>9. \A q \in Keys : row'.details[q] \in {0, marked'[q]}
      <3> SUFFICES ASSUME NEW q \in Keys PROVE row'.details[q] \in {0, marked'[q]}
        OBVIOUS
      <3>1. marked'[q] = IF q = k THEN cycle ELSE marked[q]
        BY <2>2 DEF TypeOK
      <3>2. WithMarker(k)[q] \in {0, marked'[q]}
        BY <2>2, <2>3, <3>1 DEF MarkerInv
      <3>3. CASE row'.details = WithMarker(k)
        BY <3>2, <3>3
      <3>4. CASE row'.details # WithMarker(k)
        <4>1. row'.details = row.details /\ WithMarker(k) = loaded.listener.details
          BY <2>4, <2>5, <3>4
        <4>2. q = k => cycle \in {0, marked[q]}
          BY <2>2, <2>3, <4>1 DEF MarkerInv
        <4>3. cycle # 0
          BY <2>2 DEF ThreadInv, Updating
        <4> QED
          BY <3>1, <4>1, <4>2, <4>3 DEF MarkerInv
      <3> QED
        BY <3>3, <3>4
    <2>10. MarkerInv'
      <3>1. marked \in [Keys -> 0..MaxCycles] /\ listener' \in {"status", "updated"}
            /\ (listener' = "status" <=> k = "candle")
        BY <1>4 DEF TypeOK, SetState, k
      <3>2. main \notin StartCalls /\ main' = main
        BY <1>4, <2>2 DEF SetState, ThreadInv, Loaded
      <3>3. listener' = "status" => marked'["candle"] = cycle
        BY <2>2, <3>1 DEF Keys
      <3>4. listener' = "updated" => marked'["candle"] = cycle /\ marked'["status"] = cycle
        BY <1>4, <2>2, <3>1 DEF SetState, Keys, MarkerInv, k
      <3> QED
        BY <1>4, <2>9, <3>1, <3>2, <3>3, <3>4 DEF SetState, MarkerInv, Loaded
    <2> QED
      BY <1>2, <2>6, <2>7, <2>8, <2>10
  <1>5. CASE CycleFails
    <2>1. TypeOK'
      BY <1>5, RowTypes DEF CycleFails, TypeOK
    <2>2. loaded'.main = loaded.main
      BY <1>5 DEF CycleFails, TypeOK
    <2> QED
      BY <1>2, <1>5, <2>1, <2>2 DEF CycleFails, ThreadInv, MarkInv, MarkerInv, Updating, Loaded, Keys
  <1> QED
    BY <1>3, <1>4, <1>5

-----------------------------------------------------------------------------
\* The invariant

LEMMA NextInv == IInv /\ [Next]_runtimeVars => IInv'
  <1> SUFFICES ASSUME IInv, [Next]_runtimeVars PROVE IInv'
    OBVIOUS
  <1>1. CASE Main
    BY <1>1, StartStep, ShutdownStep DEF Main
  <1>2. CASE Heart
    BY <1>2, HeartStep
  <1>3. CASE Listener
    BY <1>3, AuditStep, MarkerStep DEF Listener
  <1>4. CASE Age
    <2>1. runs' \in [Runs -> RunType]
      <3>1. \A r \in Runs : [runs[r] EXCEPT !.old = (runs[r].open = "RUNNING")] \in RunType
        <4>1. \A r \in Runs : runs[r] \in RunType /\ (runs[r].open = "RUNNING") \in BOOLEAN
          BY DEF IInv, TypeOK
        <4> QED
          BY <4>1 DEF RunType
      <3> QED
        BY <1>4, <3>1 DEF Age
    <2>2. \A r \in Runs : runs'[r].open = runs[r].open /\ runs'[r].end = runs[r].end
      BY <1>4 DEF Age, IInv, TypeOK, RunType
    <2>3. Unended' = Unended
      BY <2>2, UnendedKept
    <2>4. TypeOK' /\ ThreadInv' /\ MarkInv' /\ MarkerInv'
      BY <1>4, <2>1 DEF Age, IInv, TypeOK, ThreadInv, MarkInv, MarkerInv
    <2>5. cycle # 0 => <<cycle, "work">> \in Runs /\ <<cycle, "update">> \in Runs
      BY BoundsAssumption DEF IInv, TypeOK, Runs, Cycles
    <2>6. RunInv'
      BY <1>4, <2>2, <2>3, <2>5 DEF Age, IInv, RunInv, InterruptedNeverEnded, ThreadInv
    <2> QED
      BY <2>4, <2>6 DEF IInv
  <1>5. CASE UNCHANGED runtimeVars
    <2>1. Unended' = Unended
      BY <1>5 DEF runtimeVars, Unended
    <2> QED
      BY <1>5, <2>1 DEF runtimeVars, IInv, TypeOK, ThreadInv, MarkInv, MarkerInv, RunInv,
                        InterruptedNeverEnded
  <1> QED
    BY <1>1, <1>2, <1>3, <1>4, <1>5 DEF Next

\* The invariant of the worker's own rows holds in every reachable state.
THEOREM Invariance == Spec => []IInv
  BY InitInv, NextInv, PTL DEF Spec

\* The end of a process is recorded consistently, in spite of the heartbeat.
THEOREM EndIsRecorded == Spec => []EndRecorded
  <1>1. IInv => EndRecorded
    BY DEF IInv, MarkInv, EndRecorded
  <1> QED
    BY <1>1, Invariance, PTL

\* No marker of an earlier cycle comes back.
THEOREM NewestMarkers == Spec => []MarkersNewest
  <1>1. IInv => MarkersNewest
    BY DEF IInv, MarkerInv, MarkersNewest
  <1> QED
    BY <1>1, Invariance, PTL

\* The markers in the row between cycles belong together.
THEOREM MarkersBelongTogether == Spec => []MarkersOfOneCycle
  <1>1. IInv => MarkersOfOneCycle
    BY DEF IInv, MarkerInv, MarkersOfOneCycle, Keys
  <1> QED
    BY <1>1, Invariance, PTL

\* Recovery interrupts no run that has ended.
THEOREM OnlyOrphansInterrupted == Spec => []InterruptedNeverEnded
  <1>1. IInv => InterruptedNeverEnded
    BY DEF IInv, RunInv
  <1> QED
    BY <1>1, Invariance, PTL

\* A process leaves at most one run without an end.
THEOREM OrphansCounted == Spec => []OneOpenRunPerProcess
  <1>1. IInv => OneOpenRunPerProcess
    BY DEF IInv, RunInv, OneOpenRunPerProcess
  <1> QED
    BY <1>1, Invariance, PTL
=============================================================================
