------------------------------ MODULE Runtime -------------------------------
(***************************************************************************)
(* The thread lifecycle of src/meter_thread.cpp: the main thread, which    *)
(* starts the pipeline, ingests and stops it; the metering thread; and the *)
(* reporter thread.  The three SPSC rings are the bounded queues that      *)
(* SpscRing is shown to implement.  The engine (see MeterEngine) is        *)
(* reduced to what crosses the threads: every event carries one unit of    *)
(* usage, a record carries the units not reported before.                  *)
(***************************************************************************)
EXTENDS Integers, Sequences, Sums

CONSTANTS
  MeterCapacity, GyCapacity, RecordCapacity,   \* the ring sizes
  MeterBatch,                                  \* cfg_.meter_batch
  WantsFile,                                   \* cfg_.records_path is not empty
  MaxStarts, MaxInputs                         \* bounds: calls of start(), and those
                                               \* together with the events of both kinds

ASSUME RuntimeAssumption ==
  /\ {MeterCapacity, GyCapacity, RecordCapacity, MeterBatch} \subseteq Nat \ {0}
  /\ {MaxStarts, MaxInputs} \subseteq Nat
  /\ WantsFile \in BOOLEAN

VARIABLES
  main, starts,             \* where the main thread is, and its calls of start()
  meterStop, reporterStop,  \* meter_stop_, reporter_stop_
  meterDepth, gyDepth,      \* the elements in meter_ring_ and gy_ring_
  recordRing,               \* record_ring_: the usage each record carries
  ingest,                   \* IngestStats: events_pushed, events_dropped, gy_events, gy_events_dropped
  meterPc, exiting,         \* where the metering thread is; its loop has ended
  popped,                   \* n of this iteration
  engine,                   \* PipelineStats: events, gy_events, records_emitted, records_dropped
  unreported,               \* usage no record carries yet
  building, snap,           \* the PipelineSnapshot under construction and the stored one
  reporterPc,               \* where the reporter thread is
  file, written, errors,    \* records_file_, records_written_, record_write_errors_
  sunk                      \* history: usage in records the reporter took, and in dropped ones

mainVars == <<main, starts, ingest>>
meterVars == <<meterPc, exiting, popped, engine, unreported, building, snap>>
reportVars == <<file, written, errors>>
vars == <<mainVars, meterStop, reporterStop, meterDepth, gyDepth, recordRing,
          meterVars, reporterPc, reportVars, sunk>>

EmptySnap == [applied |-> 0, emitted |-> 0, pushed |-> 0, dropped |-> 0, depth |-> 0]

Init ==
  /\ main = "stopped" /\ starts = 0
  /\ meterStop = FALSE /\ reporterStop = FALSE
  /\ meterDepth = 0 /\ gyDepth = 0 /\ recordRing = << >>
  /\ ingest = [pushed |-> 0, dropped |-> 0, gy |-> 0, gyDropped |-> 0]
  /\ meterPc = "done" /\ exiting = FALSE /\ popped = 0
  /\ engine = [applied |-> 0, gy |-> 0, emitted |-> 0, dropped |-> 0]
  /\ unreported = 0
  /\ building = EmptySnap /\ snap = EmptySnap
  /\ reporterPc = "done"
  /\ file = "none" /\ written = 0 /\ errors = 0
  /\ sunk = [taken |-> 0, dropped |-> 0]

-----------------------------------------------------------------------------
(* Main thread *)

Offered == ingest.pushed + ingest.dropped
Inputs == starts + Offered + ingest.gy

\* start(): fopen may fail, and the pipeline then runs without a file.
Start ==
  /\ main = "stopped"
  /\ starts < MaxStarts /\ Inputs < MaxInputs
  /\ starts' = starts + 1
  /\ main' = "ingest"
  /\ meterStop' = FALSE /\ reporterStop' = FALSE
  /\ file' \in IF file = "none" /\ WantsFile THEN {"none", "open"} ELSE {file}
  /\ meterPc' = "pop" /\ exiting' = FALSE /\ popped' = 0
  /\ reporterPc' = "test"
  /\ UNCHANGED <<meterDepth, gyDepth, recordRing, ingest, engine, unreported,
                 building, snap, written, errors, sunk>>

MainKeeps == UNCHANGED <<starts, meterStop, reporterStop, recordRing, meterVars,
                         reporterPc, reportVars, sunk>>

\* push_event(): the push ...
PushEvent ==
  /\ main = "ingest"
  /\ Inputs < MaxInputs
  /\ IF meterDepth < MeterCapacity
       THEN meterDepth' = meterDepth + 1 /\ main' = "count" /\ UNCHANGED ingest
       ELSE /\ ingest' = [ingest EXCEPT !.dropped = @ + 1]
            /\ UNCHANGED <<meterDepth, main>>
  /\ UNCHANGED gyDepth
  /\ MainKeeps

\* ... and the increment of events_pushed that follows it.
CountPushed ==
  /\ main = "count"
  /\ main' = "ingest"
  /\ ingest' = [ingest EXCEPT !.pushed = @ + 1]
  /\ UNCHANGED <<meterDepth, gyDepth>>
  /\ MainKeeps

\* One round of emit_gy_events().
PushGy ==
  /\ main = "ingest"
  /\ Inputs < MaxInputs
  /\ IF gyDepth < GyCapacity
       THEN gyDepth' = gyDepth + 1 /\ ingest' = [ingest EXCEPT !.gy = @ + 1]
       ELSE ingest' = [ingest EXCEPT !.gy = @ + 1, !.gyDropped = @ + 1] /\ UNCHANGED gyDepth
  /\ UNCHANGED <<main, meterDepth>>
  /\ MainKeeps

\* The source is exhausted or a signal came; main waits for the metering
\* thread, but no longer than the deadline.
EndIngest ==
  /\ main = "ingest"
  /\ main' = "wait"
  /\ UNCHANGED <<ingest, meterDepth, gyDepth>>
  /\ MainKeeps

StopSteps == UNCHANGED <<starts, ingest, meterDepth, gyDepth, meterVars, reporterPc, file>>

\* stop(): the ring is empty or the deadline has passed.
SetMeterStop ==
  /\ main = "wait"
  /\ main' = "join_meter"
  /\ meterStop' = TRUE
  /\ UNCHANGED <<reporterStop, recordRing, written, errors, sunk>>
  /\ StopSteps

\* Only once the metering thread is gone is the reporter told to stop.
JoinMeter ==
  /\ main = "join_meter"
  /\ meterPc = "done"
  /\ main' = "join_reporter"
  /\ reporterStop' = TRUE
  /\ UNCHANGED <<meterStop, recordRing, written, errors, sunk>>
  /\ StopSteps

JoinReporter ==
  /\ main = "join_reporter"
  /\ reporterPc = "done"
  /\ main' = "drain"
  /\ UNCHANGED <<meterStop, reporterStop, recordRing, written, errors, sunk>>
  /\ StopSteps

\* One record of drain_records(): without a file it is counted as written,
\* with one the write may fail.
TakeRecord ==
  /\ recordRing # << >>
  /\ recordRing' = Tail(recordRing)
  /\ sunk' = [sunk EXCEPT !.taken = @ + Head(recordRing)]
  /\ \/ written' = written + 1 /\ UNCHANGED errors
     \/ file = "open" /\ errors' = errors + 1 /\ UNCHANGED written

\* stop()'s own drain_records(), of what the reporter did not get to; no other
\* thread uses the ring any more.
Stopped ==
  /\ main = "drain"
  /\ main' = "stopped"
  /\ recordRing' = << >>
  /\ sunk' = [sunk EXCEPT !.taken = @ + Total(recordRing)]
  /\ \E failed \in IF file = "open" THEN 0 .. Len(recordRing) ELSE {0} :
       /\ written' = written + Len(recordRing) - failed
       /\ errors' = errors + failed
  /\ UNCHANGED <<meterStop, reporterStop>>
  /\ StopSteps

-----------------------------------------------------------------------------
(* Metering thread *)

MeterKeeps == UNCHANGED <<mainVars, meterStop, reporterStop, reporterPc, reportVars>>

SmallerOf(m, n) == IF m <= n THEN m ELSE n

\* Mutant: the pop frees the whole ring, not only the batch.
PopBatchFreesAll ==
  LET n == SmallerOf(meterDepth, MeterBatch) IN
  /\ meterPc = "pop"
  /\ meterDepth' = 0
  /\ popped' = n
  /\ engine' = [engine EXCEPT !.applied = @ + n]
  /\ unreported' = unreported + n
  /\ meterPc' = "gy"
  /\ UNCHANGED <<exiting, building, snap, gyDepth, recordRing, sunk>>
  /\ MeterKeeps

\* try_pop_bulk, and engine_.apply() for each event of the batch: no other
\* thread looks at the engine.
PopBatch ==
  LET n == SmallerOf(meterDepth, MeterBatch) IN
  /\ meterPc = "pop"
  /\ meterDepth' = meterDepth - n
  /\ popped' = n
  /\ engine' = [engine EXCEPT !.applied = @ + n]
  /\ unreported' = unreported + n
  /\ meterPc' = "gy"
  /\ UNCHANGED <<exiting, building, snap, gyDepth, recordRing, sunk>>
  /\ MeterKeeps

\* while (gy_ring_.try_pop(gy)) engine_.apply_gy(gy);
ApplyGy ==
  /\ meterPc = "gy"
  /\ IF gyDepth > 0
       THEN /\ gyDepth' = gyDepth - 1
            /\ engine' = [engine EXCEPT !.gy = @ + 1]
            /\ UNCHANGED meterPc
       ELSE meterPc' = "poll" /\ UNCHANGED <<gyDepth, engine>>
  /\ UNCHANGED <<exiting, popped, unreported, building, snap, meterDepth, recordRing, sunk>>
  /\ MeterKeeps

\* emit_record() into record_ring_, dropped and counted when it is full.
EmitRecord ==
  /\ unreported > 0
  /\ unreported' = 0
  /\ IF Len(recordRing) < RecordCapacity
       THEN /\ recordRing' = Append(recordRing, unreported)
            /\ engine' = [engine EXCEPT !.emitted = @ + 1]
            /\ UNCHANGED sunk
       ELSE /\ engine' = [engine EXCEPT !.dropped = @ + 1]
            /\ sunk' = [sunk EXCEPT !.dropped = @ + unreported]
            /\ UNCHANGED recordRing

EmitNothing == UNCHANGED <<unreported, recordRing, engine, sunk>>

\* engine_.poll(now), which may or may not find a record due, and the decision
\* whether publish_interval_ns has passed.
PollThenPublish ==
  /\ meterPc = "poll"
  /\ EmitRecord \/ EmitNothing
  /\ meterPc' \in {"publish_meter", "check"}
  /\ UNCHANGED <<exiting, popped, building, snap, meterDepth, gyDepth>>
  /\ MeterKeeps

PublishKeeps == UNCHANGED <<popped, engine, unreported, meterDepth, gyDepth, recordRing, sunk>>

\* publish_locked(): the engine's counters, then ...
PublishMeter ==
  /\ meterPc = "publish_meter"
  /\ building' = [building EXCEPT !.applied = engine.applied,
                                  !.emitted = engine.emitted + engine.dropped]
  /\ meterPc' = "publish_ingest"
  /\ UNCHANGED <<exiting, snap>>
  /\ PublishKeeps
  /\ MeterKeeps

\* ... the ingest thread's counters, plain integers that thread may be
\* incrementing (a data race): one word, in either order, ...
PublishIngest ==
  /\ meterPc = "publish_ingest"
  /\ \/ /\ building' = [building EXCEPT !.pushed = ingest.pushed]
        /\ meterPc' = "publish_dropped"
     \/ /\ building' = [building EXCEPT !.dropped = ingest.dropped]
        /\ meterPc' = "publish_pushed"
  /\ UNCHANGED <<exiting, snap>>
  /\ PublishKeeps
  /\ MeterKeeps

\* ... and then the other, ...
PublishIngestRest ==
  /\ \/ /\ meterPc = "publish_dropped"
        /\ building' = [building EXCEPT !.dropped = ingest.dropped]
     \/ /\ meterPc = "publish_pushed"
        /\ building' = [building EXCEPT !.pushed = ingest.pushed]
  /\ meterPc' = "publish_store"
  /\ UNCHANGED <<exiting, snap>>
  /\ PublishKeeps
  /\ MeterKeeps

\* ... the ring depths, and the seqlock store.
PublishStore ==
  /\ meterPc = "publish_store"
  /\ snap' = [building EXCEPT !.depth = meterDepth]
  /\ building' = EmptySnap
  /\ meterPc' = IF exiting THEN "done" ELSE "check"
  /\ UNCHANGED exiting
  /\ PublishKeeps
  /\ MeterKeeps

\* Mutant: the loop ends as soon as an iteration found nothing and stop is set.
LoopEndsEarly == popped = 0 /\ meterStop
LoopEnds == popped = 0 /\ meterStop /\ meterDepth = 0 /\ gyDepth = 0

CheckStop ==
  /\ meterPc = "check"
  /\ meterPc' = IF LoopEnds THEN "flush" ELSE "pop"
  /\ exiting' = LoopEnds
  /\ UNCHANGED <<building, snap>>
  /\ PublishKeeps
  /\ MeterKeeps

\* Mutant: the final snapshot is not published.
FinalFlushUnpublished ==
  /\ meterPc = "flush"
  /\ IF unreported > 0 THEN EmitRecord ELSE EmitNothing
  /\ meterPc' = "done"
  /\ UNCHANGED <<exiting, popped, building, snap, meterDepth, gyDepth>>
  /\ MeterKeeps

\* engine_.drain(now), and the last publish_locked(now) follows.
FinalFlush ==
  /\ meterPc = "flush"
  /\ IF unreported > 0 THEN EmitRecord ELSE EmitNothing
  /\ meterPc' = "publish_meter"
  /\ UNCHANGED <<exiting, popped, building, snap, meterDepth, gyDepth>>
  /\ MeterKeeps

-----------------------------------------------------------------------------
(* Reporter thread *)

ReporterKeeps == UNCHANGED <<mainVars, meterStop, reporterStop, meterDepth, gyDepth, meterVars, file>>

ReporterTests ==
  /\ reporterPc = "test"
  /\ reporterPc' = IF reporterStop THEN "last_drain" ELSE "drain"
  /\ UNCHANGED <<recordRing, written, errors, sunk>>
  /\ ReporterKeeps

ReporterTakes ==
  /\ reporterPc \in {"drain", "last_drain"}
  /\ TakeRecord
  /\ UNCHANGED reporterPc
  /\ ReporterKeeps

\* Mutant: the loop goes round without testing reporter_stop_.
ReporterDrainedForever ==
  /\ reporterPc \in {"drain", "last_drain"}
  /\ recordRing = << >>
  /\ UNCHANGED <<reporterPc, recordRing, written, errors, sunk>>
  /\ ReporterKeeps

ReporterDrained ==
  /\ reporterPc \in {"drain", "last_drain"}
  /\ recordRing = << >>
  /\ reporterPc' = IF reporterPc = "drain" THEN "test" ELSE "done"
  /\ UNCHANGED <<recordRing, written, errors, sunk>>
  /\ ReporterKeeps

-----------------------------------------------------------------------------
Ingesting == PushEvent \/ CountPushed \/ PushGy \/ EndIngest

Stopping == SetMeterStop \/ JoinMeter \/ JoinReporter \/ Stopped

Metering ==
  \/ PopBatch \/ ApplyGy \/ PollThenPublish
  \/ PublishMeter \/ PublishIngest \/ PublishIngestRest \/ PublishStore \/ CheckStop \/ FinalFlush

Reporting == ReporterTests \/ ReporterTakes \/ ReporterDrained

Next == Start \/ Ingesting \/ Stopping \/ Metering \/ Reporting

Spec == Init /\ [][Next]_vars

\* Each thread is scheduled now and then; the main thread need not start, feed
\* or end the ingest.
FairSpec == Spec /\ WF_vars(Stopping) /\ WF_vars(Metering) /\ WF_vars(Reporting)

-----------------------------------------------------------------------------
(* Properties *)

\* At every instant each accepted event is in the ring or applied,
\* each applied unit of usage is unreported, in a queued record, in one the
\* reporter took or in one that was dropped, and each record the reporter took is
\* counted as written or as an error.
NothingLost ==
  /\ meterDepth + engine.applied = ingest.pushed + (IF main = "count" THEN 1 ELSE 0)
  /\ engine.gy + gyDepth + ingest.gyDropped = ingest.gy
  /\ engine.applied = unreported + Total(recordRing) + sunk.taken + sunk.dropped
  /\ engine.emitted = written + errors + Len(recordRing)

\* When stop() returns, whatever the interleaving of the last push, the last
\* idle iteration and the two joins, the rings are empty, everything accepted
\* was applied, and no usage is left that a record does not carry
\* (runtime.hpp:83-84).
StopSettles ==
  main = "stopped" =>
    /\ meterDepth = 0 /\ gyDepth = 0
    /\ unreported = 0 /\ recordRing = << >>
    /\ meterPc = "done" /\ reporterPc = "done"

\* After stop() the stored snapshot has the final counters of the metering and
\* of the ingest thread: they are read after both have come to rest.
FinalCounters ==
  main = "stopped" =>
    /\ snap.applied = engine.applied
    /\ snap.emitted = engine.emitted + engine.dropped
    /\ snap.pushed = ingest.pushed /\ snap.dropped = ingest.dropped
    /\ snap.depth = 0

\* stop() returns: neither join waits for a thread that waits for something
\* else, with full rings, a failing file or a Gy burst behind it.
StopReturns == main = "wait" ~> main = "stopped"
=============================================================================
