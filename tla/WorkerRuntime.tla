---------------------------- MODULE WorkerRuntime ----------------------------
(***************************************************************************)
(* What the worker writes down about itself: its row in bot_instances, its *)
(* row in bot_runtime_states and the engine_runs of its cycles.  Three     *)
(* threads write the runtime row, two of them on one session:              *)
(*                                                                         *)
(*   main        registers, recovers, and marks the end of the process     *)
(*   heartbeat   replaces the details of the row, on a session of its own  *)
(*   listener    adds markers to the details when a cycle ends             *)
(*                                                                         *)
(* A process registers an instance of its own, so only the latest one's    *)
(* rows can change.  A cycle is cut down to two steps, the second of them  *)
(* RuntimeStateUpdater.                                                    *)
(***************************************************************************)
EXTENDS Integers, FiniteSets

CONSTANTS
    MaxCycles,      \* bound: cycles of all processes
    MaxBeats,       \* bound: heartbeats of all processes
    MaxStarts       \* bound: processes

ASSUME BoundsAssumption == MaxCycles \in Nat /\ MaxBeats \in Nat /\ MaxStarts \in Nat

VARIABLES
    instance,   \* status in bot_instances, "none" before registration
    row,        \* the runtime row
    runs,       \* engine_runs, by cycle and step
    main,       \* the call the main thread is about to make
    hadError,   \* main's local of that name
    listener,   \* where the listener thread is
    heart,      \* where the heartbeat thread is
    loaded,     \* the row as a thread that is about to write it loaded it
    session,    \* the trading session: usable, or poisoned by a failed flush
    cycle,      \* the latest cycle
    beats,      \* the latest heartbeat
    starts,     \* processes started
    \* history, read by no guard
    late,       \* threads that outlived the three seconds of their join
    marked      \* the latest marker written under each key

runtimeVars == <<instance, row, runs, main, hadError, listener, heart, loaded,
                 session, cycle, beats, starts, late, marked>>

-----------------------------------------------------------------------------

ShutdownCalls == {"mark_error", "error_loaded", "stop_listener", "stop_heartbeat",
                  "mark_stopped", "stopped_loaded"}
StartCalls == {"mark_running", "run_startup", "heartbeat_start", "wiring"}
Calls   == {"down", "up", "ended"} \cup StartCalls \cup ShutdownCalls
Columns == {"running", "rejected", "details"}
Keys    == {"candle", "status"}
Cycles  == 1..MaxCycles
Runs    == Cycles \X {"work", "update"}

\* Keys of the details: 0 and "none" say that a key is absent.
NoDetails == [state |-> "none", beat |-> 0, candle |-> 0, status |-> 0]

Details == [state: {"none", "running", "stopped", "error"},
            beat: 0..MaxBeats, candle: 0..MaxCycles, status: 0..MaxCycles]

RowType == [running: BOOLEAN, rejected: BOOLEAN, details: Details]

NoRow == [running |-> FALSE, rejected |-> FALSE, details |-> NoDetails]
RunType == [open: {"none", "RUNNING", "INTERRUPTED"},
            end: {"none", "SUCCESS", "REJECTED", "FAILED"}, old: BOOLEAN]

NoRun == [open |-> "none", end |-> "none", old |-> FALSE]

\* The row a mark_* call writes.
Marked(status) == [running  |-> status = "running",
                   rejected |-> status = "error",
                   details  |-> [NoDetails EXCEPT !.state = status]]

\* The ORM writes the columns that differ from what it loaded; others may
\* have changed since.
Write(new, was, extra) ==
    row' = [running  |-> IF new.running = was.running /\ "running" \notin extra
                         THEN row.running ELSE new.running,
            rejected |-> IF new.rejected = was.rejected /\ "rejected" \notin extra
                         THEN row.rejected ELSE new.rejected,
            details  |-> IF new.details = was.details /\ "details" \notin extra
                         THEN row.details ELSE new.details]

Init ==
    /\ instance = "none"
    /\ row = NoRow
    /\ runs = [r \in Runs |-> NoRun]
    /\ main = "down"
    /\ hadError = FALSE
    /\ listener = "off"
    /\ heart = "off"
    /\ loaded = [w \in {"main", "listener", "heart"} |-> NoRow]
    /\ session = "clean"
    /\ cycle = 0
    /\ beats = 0
    /\ starts = 0
    /\ late = {}
    /\ marked = [k \in Keys |-> 0]

-----------------------------------------------------------------------------
\* Main: start

Register ==
    /\ main = "down"
    /\ starts < MaxStarts
    /\ instance' = "starting"
    /\ row' = NoRow
    /\ main' = "mark_running"
    /\ session' = "clean"
    /\ starts' = starts + 1
    /\ hadError' = FALSE
    /\ late' = {}
    /\ marked' = [k \in Keys |-> 0]
    /\ loaded' = [w \in {"main", "listener", "heart"} |-> NoRow]
    /\ UNCHANGED <<runs, listener, heart, cycle, beats>>

MarkRunning ==
    /\ main = "mark_running"
    /\ instance' = "running"
    /\ row' = Marked("running")
    /\ main' = "run_startup"
    /\ UNCHANGED <<runs, hadError, listener, heart, loaded, session, cycle, beats, starts, late, marked>>

\* Mutant: a run that has ended is interrupted as well.
Stale(r) == runs[r].open = "RUNNING" /\ runs[r].old

\* Runs older than fifteen minutes that no later row ends.
Orphan(r) == runs[r].open = "RUNNING" /\ runs[r].old /\ runs[r].end = "none"

\* Recovery; the keys it adds to the details are not told apart from "state".
Recover ==
    /\ main = "run_startup"
    /\ runs' = [r \in Runs |-> IF Orphan(r) THEN [runs[r] EXCEPT !.open = "INTERRUPTED"] ELSE runs[r]]
    /\ main' = "heartbeat_start"
    /\ UNCHANGED <<instance, row, hadError, listener, heart, loaded, session, cycle, beats, starts, late, marked>>

StartHeartbeat ==
    /\ main = "heartbeat_start"
    /\ heart' = "idle"
    /\ main' = "wiring"
    /\ UNCHANGED <<instance, row, runs, hadError, listener, loaded, session, cycle, beats, starts, late, marked>>

StartListener ==
    /\ main = "wiring"
    /\ listener' = "idle"
    /\ main' = "up"
    /\ UNCHANGED <<instance, row, runs, hadError, heart, loaded, session, cycle, beats, starts, late, marked>>

-----------------------------------------------------------------------------
\* Main: end

\* The start raises; only a database error poisons the session.
StartRaises ==
    /\ main \in StartCalls
    /\ hadError' = TRUE
    /\ session' \in {session, "poisoned"}
    /\ main = "mark_running" => session' = "poisoned"
    /\ main' = "mark_error"
    /\ UNCHANGED <<instance, row, runs, listener, heart, loaded, cycle, beats, starts, late, marked>>

Interrupt ==
    /\ main \in StartCalls \cup {"up"}
    /\ main' = "stop_listener"
    /\ UNCHANGED <<instance, row, runs, hadError, listener, heart, loaded, session, cycle, beats, starts, late, marked>>

AfterMark == IF main \in {"mark_error", "error_loaded"} THEN "stop_listener" ELSE "ended"

LoadForMark ==
    /\ main \in {"mark_error", "mark_stopped"}
    /\ session = "clean"
    /\ loaded' = [loaded EXCEPT !.main = row]
    /\ main' = IF main = "mark_error" THEN "error_loaded" ELSE "stopped_loaded"
    /\ UNCHANGED <<instance, row, runs, hadError, listener, heart, session, cycle, beats, starts, late, marked>>

\* mark_error and mark_stopped; an overlapping cycle shares the row object.
Mark ==
    /\ main \in {"error_loaded", "stopped_loaded"}
    /\ session = "clean"
    /\ LET status == IF main = "error_loaded" THEN "error" ELSE "stopped"
       IN  /\ instance' = status
           /\ \E extra \in IF late = {} THEN {{}} ELSE SUBSET Columns :
                  Write(Marked(status), loaded.main, extra)
    /\ main' = AfterMark
    /\ loaded' = [loaded EXCEPT !.main = NoRow]
    /\ UNCHANGED <<runs, hadError, listener, heart, session, cycle, beats, starts, late, marked>>

\* The mark raises, as it must on a poisoned session, and main goes on.
MarkFails ==
    /\ main \in {"mark_error", "error_loaded", "mark_stopped", "stopped_loaded"}
    /\ session' = "poisoned"
    /\ main' = AfterMark
    /\ loaded' = [loaded EXCEPT !.main = NoRow]
    /\ UNCHANGED <<instance, row, runs, hadError, listener, heart, cycle, beats, starts, late, marked>>

\* Mutant: a join without a time limit.
JoinListenerForever ==
    /\ main = "stop_listener"
    /\ listener \in {"off", "idle"}
    /\ listener' = "off"
    /\ main' = "stop_heartbeat"
    /\ UNCHANGED <<instance, row, runs, hadError, heart, loaded, session, cycle, beats, starts, late, marked>>

JoinListener ==
    /\ main = "stop_listener"
    /\ \/ listener \in {"off", "idle"} /\ listener' = "off" /\ UNCHANGED late
       \/ listener \notin {"off", "idle"} /\ late' = late \cup {"listener"} /\ UNCHANGED listener
    /\ main' = "stop_heartbeat"
    /\ UNCHANGED <<instance, row, runs, hadError, heart, loaded, session, cycle, beats, starts, marked>>

AfterJoins == IF hadError THEN "ended" ELSE "mark_stopped"

\* Mutant: the heartbeat is told to stop and not waited for.
LeaveHeart ==
    /\ main = "stop_heartbeat"
    /\ main' = AfterJoins
    /\ UNCHANGED <<instance, row, runs, hadError, listener, heart, loaded, session, cycle, beats, starts, late, marked>>

JoinHeart ==
    /\ main = "stop_heartbeat"
    /\ \/ heart \in {"off", "idle"} /\ heart' = "off" /\ UNCHANGED late
       \/ heart = "loaded" /\ late' = late \cup {"heart"} /\ UNCHANGED heart
    /\ main' = AfterJoins
    /\ UNCHANGED <<instance, row, runs, hadError, listener, loaded, session, cycle, beats, starts, marked>>

\* The process is gone, at its end or killed before, and its threads with it.
Exit ==
    /\ main # "down"
    /\ main' = "down"
    /\ listener' = "off"
    /\ heart' = "off"
    /\ UNCHANGED <<instance, row, runs, hadError, loaded, session, cycle, beats, starts, late, marked>>

-----------------------------------------------------------------------------
\* Heartbeat

LoadForBeat ==
    /\ heart = "idle"
    /\ main \in {"wiring", "up", "mark_error", "error_loaded", "stop_listener"}
    /\ beats < MaxBeats
    /\ beats' = beats + 1
    /\ loaded' = [loaded EXCEPT !.heart = row]
    /\ heart' = "loaded"
    /\ UNCHANGED <<instance, row, runs, main, hadError, listener, session, cycle, starts, late, marked>>

\* Mutant: the heartbeat is merged into the details that were loaded.
BeatMerged == [loaded.heart.details EXCEPT !.beat = beats]

\* update_heartbeat passes its one key as the whole details.
BeatDetails == [NoDetails EXCEPT !.beat = beats]

Beat ==
    /\ heart = "loaded"
    /\ Write([loaded.heart EXCEPT !.running = TRUE, !.details = BeatDetails], loaded.heart, {})
    /\ heart' = "idle"
    /\ loaded' = [loaded EXCEPT !.heart = NoRow]
    /\ UNCHANGED <<instance, runs, main, hadError, listener, session, cycle, beats, starts, late, marked>>

\* It raises, and the session is rolled back.
BeatFails ==
    /\ heart = "loaded"
    /\ heart' = "idle"
    /\ loaded' = [loaded EXCEPT !.heart = NoRow]
    /\ UNCHANGED <<instance, row, runs, main, hadError, listener, session, cycle, beats, starts, late, marked>>

-----------------------------------------------------------------------------
\* Listener: run_and_audit around each step, set_state in the second

OpenRun(r) == runs' = [runs EXCEPT ![r] = [NoRun EXCEPT !.open = "RUNNING"]]
EndRun(r, status) == runs' = [runs EXCEPT ![r].end = status]

BeginCycle ==
    /\ listener = "idle"
    /\ main = "up"
    /\ cycle < MaxCycles
    /\ session = "clean"
    /\ cycle' = cycle + 1
    /\ OpenRun(<<cycle', "work">>)
    /\ listener' = "work"
    /\ UNCHANGED <<instance, row, main, hadError, heart, loaded, session, beats, starts, late, marked>>

\* Mutant: nothing is written when the step raises.
EndWorkQuietly ==
    /\ listener = "work"
    /\ session = "clean"
    /\ \E status \in {"SUCCESS", "REJECTED", "none"} :
           /\ EndRun(<<cycle, "work">>, status)
           /\ listener' = IF status = "SUCCESS" THEN "passed" ELSE "idle"
    /\ UNCHANGED <<instance, row, main, hadError, heart, loaded, session, cycle, beats, starts, late, marked>>

\* A rejection or an exception ends the cycle.
EndWork ==
    /\ listener = "work"
    /\ session = "clean"
    /\ \E status \in {"SUCCESS", "REJECTED", "FAILED"} :
           /\ EndRun(<<cycle, "work">>, status)
           /\ listener' = IF status = "SUCCESS" THEN "passed" ELSE "idle"
    /\ UNCHANGED <<instance, row, main, hadError, heart, loaded, session, cycle, beats, starts, late, marked>>

BeginUpdate ==
    /\ listener = "passed"
    /\ session = "clean"
    /\ OpenRun(<<cycle, "update">>)
    /\ listener' = "candle"
    /\ UNCHANGED <<instance, row, main, hadError, heart, loaded, session, cycle, beats, starts, late, marked>>

\* set_last_processed_candle, then last_cycle_status: set_state reads the row
\* for the details it extends ...
LoadForMarker ==
    /\ listener \in Keys
    /\ session = "clean"
    /\ loaded' = [loaded EXCEPT !.listener = row]
    /\ listener' = IF listener = "candle" THEN "candle_loaded" ELSE "status_loaded"
    /\ UNCHANGED <<instance, row, runs, main, hadError, heart, session, cycle, beats, starts, late, marked>>

WithMarker(k) == [loaded.listener.details EXCEPT ![k] = cycle]

\* ... and once more to update it: a column that changed in between counts as
\* loaded with either value.
SetState ==
    /\ listener \in {"candle_loaded", "status_loaded"}
    /\ session = "clean"
    /\ LET k == IF listener = "candle_loaded" THEN "candle" ELSE "status"
       IN  /\ \E extra \in SUBSET Columns :
                  Write([running |-> TRUE, rejected |-> FALSE, details |-> WithMarker(k)],
                        loaded.listener, extra)
           /\ marked' = [marked EXCEPT ![k] = cycle]
    /\ listener' = IF listener = "candle_loaded" THEN "status" ELSE "updated"
    /\ UNCHANGED <<instance, runs, main, hadError, heart, loaded, session, cycle, beats, starts, late>>

EndUpdate ==
    /\ listener = "updated"
    /\ session = "clean"
    /\ EndRun(<<cycle, "update">>, "SUCCESS")
    /\ listener' = "idle"
    /\ loaded' = [loaded EXCEPT !.listener = NoRow]
    /\ UNCHANGED <<instance, row, main, hadError, heart, session, cycle, beats, starts, late, marked>>

\* A database error, here or in a position cycle: no row ends the run, and no
\* later cycle opens one.
CycleFails ==
    /\ listener # "off"
    /\ session' = "poisoned"
    /\ listener' = "idle"
    /\ loaded' = [loaded EXCEPT !.listener = NoRow]
    /\ UNCHANGED <<instance, row, runs, main, hadError, heart, cycle, beats, starts, late, marked>>

\* Fifteen minutes pass.
Age ==
    /\ \E r \in Runs : runs[r].open = "RUNNING" /\ ~runs[r].old
    /\ runs' = [r \in Runs |-> [runs[r] EXCEPT !.old = runs[r].open = "RUNNING"]]
    /\ UNCHANGED <<instance, row, main, hadError, listener, heart, loaded, session, cycle, beats, starts, late, marked>>

-----------------------------------------------------------------------------

Shutdown == LoadForMark \/ Mark \/ MarkFails \/ JoinListener \/ JoinHeart
Main     == Register \/ MarkRunning \/ Recover \/ StartHeartbeat \/ StartListener
            \/ StartRaises \/ Interrupt \/ Shutdown \/ Exit
Heart    == LoadForBeat \/ Beat \/ BeatFails
Listener == BeginCycle \/ EndWork \/ BeginUpdate \/ LoadForMarker \/ SetState \/ EndUpdate \/ CycleFails

Next == Main \/ Heart \/ Listener \/ Age

Spec == Init /\ [][Next]_runtimeVars

\* The main thread is scheduled while it shuts down; the other threads may
\* hang in a call to the terminal or the database for as long as they like.
FairSpec == Spec /\ WF_runtimeVars(Shutdown)
-----------------------------------------------------------------------------
\* Properties

\* Every variable keeps to the values the code can give it.
TypeOK ==
    /\ instance \in {"none", "starting", "running", "stopped", "error"}
    /\ row \in RowType
    /\ runs \in [Runs -> RunType]
    /\ main \in Calls
    /\ hadError \in BOOLEAN
    /\ listener \in {"off", "idle", "work", "passed", "candle", "candle_loaded",
                     "status", "status_loaded", "updated"}
    /\ heart \in {"off", "idle", "loaded"}
    /\ loaded \in [{"main", "listener", "heart"} -> RowType]
    /\ session \in {"clean", "poisoned"}
    /\ cycle \in 0..MaxCycles
    /\ beats \in 0..MaxBeats
    /\ starts \in 0..MaxStarts
    /\ late \subseteq {"listener", "heart"}
    /\ marked \in [Keys -> 0..MaxCycles]

\* A process that ends with both threads joined and a usable session leaves
\* consistent rows: stopped, or after an error an instance in error and a row
\* that is still rejected, although a heartbeat may have set is_running again.
EndRecorded ==
    main = "ended" /\ late = {} /\ session = "clean" =>
        IF hadError
        THEN instance = "error" /\ row.rejected
        ELSE instance = "stopped" /\ row = Marked("stopped")

\* A heartbeat may remove markers, and a cycle may put back those it read, but
\* no interleaving brings back the marker of an earlier cycle.
MarkersNewest == \A k \in Keys : row.details[k] \in {0, marked[k]}

\* Between cycles the candle and the status in the details, where both are
\* there, are of one and the same cycle.
MarkersOfOneCycle ==
    listener = "idle" /\ session = "clean" /\ row.details.candle # 0 /\ row.details.status # 0
        => row.details.candle = row.details.status

\* Recovery marks only runs that no row ends, and none of the running process.
InterruptedNeverEnded ==
    \A r \in Runs : runs[r].open = "INTERRUPTED" => runs[r].end = "none"

Unended == {r \in Runs : runs[r].open # "none" /\ runs[r].end = "none"}

\* A process leaves at most one run without an end, whether it dies or its
\* session does.
OneOpenRunPerProcess ==
    Cardinality(Unended) <= starts

\* Once it has begun, a shutdown comes to its end, whatever the threads hang in.
ShutdownEnds ==
    main \in ShutdownCalls ~> main \in {"ended", "down"}

-----------------------------------------------------------------------------
\* The inductive invariant behind the properties

Loaded   == {"candle_loaded", "status_loaded"}
Updating == Keys \cup Loaded \cup {"updated"}

\* Which threads run while main is where it is.
ThreadInv ==
    /\ main \in {"down", "mark_running", "run_startup", "heartbeat_start"} => heart = "off"
    /\ main \in {"down"} \cup StartCalls => listener = "off"
    /\ hadError => main \in {"mark_error", "error_loaded", "stop_listener", "stop_heartbeat", "ended", "down"}
                   /\ listener = "off"
    /\ main \in {"mark_error", "error_loaded"} => hadError
    /\ late = {} => /\ main \in {"stop_heartbeat", "mark_stopped", "stopped_loaded", "ended"} => listener = "off"
                    /\ main \in {"mark_stopped", "stopped_loaded", "ended"} => heart = "off"
    /\ listener \in {"work", "passed"} \cup Updating => cycle # 0

\* What the marks rely on, and what they leave until the process has ended.
MarkInv ==
    /\ ~hadError \/ main \in {"mark_error", "error_loaded"} => ~row.rejected
    /\ main = "error_loaded" => ~loaded.main.rejected
    /\ main = "stopped_loaded" /\ late = {} => loaded.main = row
    /\ hadError /\ session = "clean" /\ late = {} /\ main \in {"stop_listener", "stop_heartbeat", "ended"}
          => instance = "error" /\ row.rejected
    /\ ~hadError /\ session = "clean" /\ late = {} /\ main = "ended"
          => instance = "stopped" /\ row = Marked("stopped")

\* What a cycle has written under which key.
MarkerInv ==
    /\ \A k \in Keys : row.details[k] \in {0, marked[k]}
    /\ listener \in Loaded => \A k \in Keys : loaded.listener.details[k] \in {0, marked[k]}
    /\ session = "clean" /\ (listener \in {"idle", "work", "passed", "candle", "candle_loaded"} \/ main \in StartCalls)
          => marked["candle"] = marked["status"]
    /\ listener \in {"status", "status_loaded"} => marked["candle"] = cycle
    /\ listener = "updated" => marked["candle"] = cycle /\ marked["status"] = cycle

\* The run of the current step is open, and how many others are.
RunInv ==
    /\ InterruptedNeverEnded
    /\ listener = "work" => runs[<<cycle, "work">>].open = "RUNNING" /\ runs[<<cycle, "work">>].end = "none"
    /\ listener \in Updating => runs[<<cycle, "update">>].open = "RUNNING" /\ runs[<<cycle, "update">>].end = "none"
    /\ Cardinality(Unended) <= starts
    /\ main # "down" /\ session = "clean" /\ listener \in {"off", "idle", "passed"}
          => Cardinality(Unended) < starts

IInv == TypeOK /\ ThreadInv /\ MarkInv /\ MarkerInv /\ RunInv
=============================================================================
