------------------------------ MODULE Telemetry ------------------------------
(***************************************************************************)
(* The background work of one process and its shutdown: RealtimeStreamer,  *)
(* which draws a tick every second, publishes it and writes it in batches  *)
(* to realtime_readings; the log pipeline, a bounded queue that the flusher *)
(* moves to a Redis stream, and the paged query over that stream; and the  *)
(* lifespan, which stops them one after the other.                         *)
(*                                                                         *)
(* A reading is named by its tick, a log record by its place in the order  *)
(* of emission, which is the order of stream ids as well.  Whatever fails  *)
(* in here is itself logged: the handler is on the root logger.            *)
(*                                                                         *)
(* The process may die at any point and is started again; the tick in      *)
(* Redis, the rows and the log stream outlive it.                          *)
(***************************************************************************)
EXTENDS Naturals, SequencesExt

CONSTANTS
  BatchSize,    \* BATCH_SIZE of the streamer
  QueueMax,     \* monitoring_log_queue_maxsize
  FlushMax,     \* monitoring_log_flush_batch_size
  PageLimit,    \* limit of the log query
  FetchFactor,  \* raw entries fetched for each one asked for (4) ...
  FetchMax,     \* ... but not more than this (2000)
  Matching,     \* records the reader's filter accepts
  MaxTicks,     \* bound: readings
  MaxLogs,      \* bound: log records
  MaxFaults     \* bound: failing commands and crashes

ASSUME TelemetryAssumption ==
  /\ BatchSize \in Nat \ {0} /\ QueueMax \in Nat \ {0} /\ FlushMax \in Nat \ {0}
  /\ PageLimit \in Nat \ {0} /\ FetchFactor \in Nat \ {0}
  /\ FetchMax \in Nat \ {0}
  /\ MaxTicks \in Nat /\ MaxLogs \in Nat /\ MaxFaults \in Nat
  /\ Matching \subseteq Nat

Ticks == 1..MaxTicks
Logs  == 1..MaxLogs

VARIABLES
  stage,      \* how far the lifespan has come
  tick,       \* realtime:tick
  spc,        \* the await the streamer is in
  reading,    \* the tick it works on
  batch,      \* RealtimeStreamer._batch
  rows,       \* how often each tick is in realtime_readings
  excused,    \* ticks that were lost for a reason
  unsure,     \* ticks in a flush whose commit was not answered
  logged,     \* records emitted
  queue,      \* the handler's queue
  fpc,        \* the await the flusher is in
  taken,      \* the records it has taken from the queue
  stream,     \* monitor:stream:logs
  dropped,    \* records that were lost for a reason
  reader,     \* a client that pages through the log
  faults

streamerVars == <<tick, spc, reading, batch, rows, excused, unsure>>
storedLogs   == <<fpc, taken, stream, reader>>
logVars      == <<logged, queue, dropped, storedLogs>>
vars         == <<stage, streamerVars, logVars, faults>>

StreamerPcs == {"sleep", "publish", "insert", "commit", "lastInsert", "lastCommit", "off"}
Stages      == {"up", "streamer", "flusher", "resources", "down"}

Init ==
  /\ stage = "up"
  /\ tick = 0 /\ spc = "sleep" /\ reading = 0 /\ batch = <<>>
  /\ rows = [t \in Ticks |-> 0] /\ excused = {} /\ unsure = {}
  /\ logged = 0 /\ queue = <<>> /\ fpc = "sleep" /\ taken = <<>>
  /\ stream = <<>> /\ dropped = {}
  /\ reader = [cursor |-> 0, upto |-> 0, seen |-> <<>>, done |-> FALSE]
  /\ faults = 0

-----------------------------------------------------------------------------
(* Logging: emit puts the record into the queue, or drops it when full.    *)

Emit ==
  /\ logged < MaxLogs /\ logged' = logged + 1
  /\ IF Len(queue) < QueueMax
     THEN queue' = Append(queue, logged') /\ UNCHANGED dropped
     ELSE dropped' = dropped \cup {logged'} /\ UNCHANGED queue

Silent == UNCHANGED <<logged, queue, dropped>>

Fault == faults < MaxFaults /\ faults' = faults + 1

\* Any part of the application logs.
Log == stage # "down" /\ Emit /\ UNCHANGED <<stage, streamerVars, storedLogs, faults>>

-----------------------------------------------------------------------------
(* The streamer                                                            *)

\* INCR draws the next tick; its value and time are computed.
Draw ==
  /\ spc = "sleep" /\ tick < MaxTicks
  /\ tick' = tick + 1 /\ reading' = tick' /\ spc' = "publish"
  /\ UNCHANGED <<stage, batch, rows, excused, unsure, logVars, faults>>

\* INCR or PUBLISH fails, executed or not: the reading is not taken.
DrawFails ==
  /\ Fault /\ Emit
  /\ \/ /\ spc = "sleep" /\ tick < MaxTicks
        /\ tick' = tick + 1 /\ excused' = excused \cup {tick'}
     \/ /\ spc = "publish"
        /\ excused' = excused \cup {reading} /\ UNCHANGED tick
  /\ spc' = "sleep" /\ reading' = 0
  /\ UNCHANGED <<stage, batch, rows, unsure, storedLogs>>

\* The published reading joins the batch, and a full batch is flushed.
Collect ==
  /\ spc = "publish"
  /\ batch' = Append(batch, reading) /\ reading' = 0
  /\ spc' = IF Len(batch') >= BatchSize THEN "insert" ELSE "sleep"
  /\ UNCHANGED <<stage, tick, rows, excused, unsure, logVars, faults>>

\* What a commit of the batch adds.
Saved == [t \in Ticks |-> rows[t] + IF t \in ToSet(batch) THEN 1 ELSE 0]

Insert ==
  /\ spc \in {"insert", "lastInsert"}
  /\ spc' = IF spc = "insert" THEN "commit" ELSE "lastCommit"
  /\ UNCHANGED <<stage, tick, reading, batch, rows, excused, unsure, logVars, faults>>

\* Fault: a batch that was written is not cleared.
FlushedAgain ==
  /\ spc \in {"commit", "lastCommit"}
  /\ rows' = Saved
  /\ spc' = IF spc = "commit" THEN "sleep" ELSE "off"
  /\ UNCHANGED <<stage, tick, reading, batch, excused, unsure, logVars, faults>>

Flushed ==
  /\ spc \in {"commit", "lastCommit"}
  /\ rows' = Saved /\ batch' = <<>>
  /\ spc' = IF spc = "commit" THEN "sleep" ELSE "off"
  /\ UNCHANGED <<stage, tick, reading, excused, unsure, logVars, faults>>

\* A flush fails: the batch is retained, to be written with the next reading.
\* The commit may have been applied nevertheless.  The last flush is not
\* repeated.
FlushFails ==
  /\ Fault /\ Emit
  /\ spc \in {"insert", "commit", "lastInsert", "lastCommit"}
  /\ \/ UNCHANGED <<rows, unsure>>
     \/ /\ spc \in {"commit", "lastCommit"}
        /\ rows' = Saved /\ unsure' = unsure \cup ToSet(batch)
  /\ IF spc \in {"insert", "commit"}
     THEN spc' = "sleep" /\ UNCHANGED excused
     ELSE spc' = "off" /\ excused' = excused \cup ToSet(batch)
  /\ UNCHANGED <<stage, tick, reading, batch, storedLogs>>

-----------------------------------------------------------------------------
(* The flusher and the log query                                           *)

Take ==
  /\ fpc = "sleep" /\ queue # <<>>
  /\ LET n == IF Len(queue) < FlushMax THEN Len(queue) ELSE FlushMax
     IN /\ taken' = SubSeq(queue, 1, n)
        /\ queue' = SubSeq(queue, n + 1, Len(queue))
  /\ fpc' = "append"
  /\ UNCHANGED <<stage, streamerVars, logged, dropped, stream, reader, faults>>

\* One pipeline of XADD, which trims the oldest entries by number and by age;
\* approximately: it may leave more than it must.
AppendMany ==
  /\ fpc = "append"
  /\ \E k \in 0..Len(stream) :
       /\ stream' = SubSeq(stream, k + 1, Len(stream)) \o taken
       /\ dropped' = dropped \cup ToSet(SubSeq(stream, 1, k))
  /\ taken' = <<>> /\ fpc' = "sleep"
  /\ UNCHANGED <<stage, streamerVars, logged, queue, reader, faults>>

\* The pipeline is no transaction: the first k entries were added.
AppendPart(k) ==
  /\ stream' = stream \o SubSeq(taken, 1, k)
  /\ taken' = <<>>

Unappended(k) == ToSet(SubSeq(taken, k + 1, Len(taken)))

\* Fault: what was not appended goes back to the end of the queue.
AppendRequeued ==
  /\ fpc = "append" /\ Fault
  /\ \E k \in 0..Len(taken) :
       /\ AppendPart(k)
       /\ queue' = queue \o SubSeq(taken, k + 1, Len(taken))
       /\ UNCHANGED <<logged, dropped>>
  /\ fpc' = "sleep"
  /\ UNCHANGED <<stage, streamerVars, reader>>

\* A failed append is logged; the rest of the batch is lost.
AppendFails ==
  /\ fpc = "append" /\ Fault
  /\ \E k \in 0..Len(taken) :
       /\ AppendPart(k)
       /\ logged < MaxLogs /\ logged' = logged + 1
       /\ IF Len(queue) < QueueMax
          THEN queue' = Append(queue, logged') /\ dropped' = dropped \cup Unappended(k)
          ELSE dropped' = dropped \cup Unappended(k) \cup {logged'} /\ UNCHANGED queue
  /\ fpc' = "sleep"
  /\ UNCHANGED <<stage, streamerVars, reader>>

Increasing(s) == \A i, j \in DOMAIN s : i < j => s[i] < s[j]

\* Entries in the order of their ids, in which XRANGE answers.
ById(entries) == CHOOSE s \in [1..Cardinality(entries) -> entries] : Increasing(s)

\* The entries after a cursor.
After(cursor) == ById({e \in ToSet(stream) : e > cursor})

Least(m, n) == IF m < n THEN m ELSE n

FirstOf(s, n) == SubSeq(s, 1, Least(Len(s), n))

\* Fault: the cursor of a full page is the last entry that was fetched.
PageFrom(raw, more, accepted) ==
  IF raw # <<>> /\ (more \/ Len(accepted) = PageLimit) THEN Last(raw) ELSE 0

\* LogQueryService.query: the cursor of the next page, 0 for none.
NextCursor(raw, more, accepted) ==
  IF Len(accepted) = PageLimit THEN Last(accepted)
  ELSE IF more THEN Last(raw) ELSE 0

NextPage ==
  /\ ~reader.done
  /\ LET rest     == After(reader.cursor)
         fetch    == Least(PageLimit * FetchFactor, FetchMax)
         raw      == FirstOf(rest, fetch)
         accepted == FirstOf(ById(ToSet(raw) \cap Matching), PageLimit)
         next     == NextCursor(raw, Len(rest) > fetch, accepted)
     IN reader' = [cursor |-> next,
                   upto   |-> IF next # 0 THEN next
                              ELSE IF raw # <<>> THEN Last(raw) ELSE reader.upto,
                   seen   |-> reader.seen \o accepted,
                   done   |-> next = 0]
  /\ UNCHANGED <<stage, streamerVars, logged, queue, fpc, taken, stream, dropped, faults>>

-----------------------------------------------------------------------------
(* The lifespan                                                            *)

\* Fault: a cancelled streamer does not write what it has collected.
StopWithoutFlush ==
  /\ stage = "up" /\ stage' = "streamer"
  /\ excused' = excused \cup ({reading} \ {0})
  /\ spc' = "off" /\ reading' = 0
  /\ UNCHANGED <<tick, rows, unsure, batch, logVars, faults>>

(* streamer.stop cancels the task at whatever it awaits: a reading that is *)
(* being drawn or published is lost, a commit may still be applied; _loop  *)
(* then flushes once more.                                                 *)
StopStreamer ==
  /\ stage = "up" /\ stage' = "streamer"
  /\ \/ /\ UNCHANGED <<tick, rows, unsure>>
        /\ excused' = excused \cup ({reading} \ {0})
     \/ /\ spc = "sleep" /\ tick < MaxTicks
        /\ tick' = tick + 1 /\ excused' = excused \cup {tick'}
        /\ UNCHANGED <<rows, unsure>>
     \/ /\ spc = "commit"
        /\ rows' = Saved /\ unsure' = unsure \cup ToSet(batch)
        /\ UNCHANGED <<tick, excused>>
  /\ reading' = 0
  /\ spc' = IF batch = <<>> THEN "off" ELSE "lastInsert"
  /\ UNCHANGED <<batch, logVars, faults>>

(* The samplers are stopped in between (SamplerLease); then the flusher is *)
(* cancelled, asleep or while it appends, and does not empty the queue.    *)
StopFlusher ==
  /\ stage = "streamer" /\ spc = "off" /\ stage' = "flusher"
  /\ \E k \in 0..Len(taken) :
       AppendPart(k) /\ dropped' = dropped \cup Unappended(k)
  /\ fpc' = "off"
  /\ UNCHANGED <<streamerVars, logged, queue, reader, faults>>

\* close_all, bridge.stop, engine.dispose and close_redis: after them neither
\* database nor Redis can be reached.
CloseResources ==
  /\ stage = "flusher" /\ stage' = "resources"
  /\ UNCHANGED <<streamerVars, logVars, faults>>

(* The process ends.                                                       *)
Exit ==
  /\ stage = "resources" /\ stage' = "down"
  /\ dropped' = dropped \cup ToSet(queue)
  /\ queue' = <<>>
  /\ UNCHANGED <<streamerVars, logged, storedLogs, faults>>

\* The state of a new process.
Fresh ==
  /\ stage' = "up" /\ spc' = "sleep" /\ reading' = 0 /\ batch' = <<>>
  /\ queue' = <<>> /\ fpc' = "sleep"

Boot ==
  /\ stage = "down" /\ Fresh
  /\ UNCHANGED <<tick, rows, excused, unsure, logged, taken, stream, dropped, reader, faults>>

(* The process dies, or the shutdown is given up by an exception in        *)
(* between; what was sent may have been executed.  It is started again.    *)
Crash ==
  /\ stage # "down" /\ Fault /\ Fresh
  /\ \/ UNCHANGED rows /\ excused' = excused \cup ToSet(batch) \cup ({reading} \ {0})
     \/ /\ spc \in {"commit", "lastCommit"} /\ rows' = Saved
        /\ UNCHANGED excused
  /\ \E k \in 0..Len(taken) :
       AppendPart(k) /\ dropped' = dropped \cup Unappended(k) \cup ToSet(queue)
  /\ UNCHANGED <<tick, unsure, logged, reader>>

Streamer == Draw \/ DrawFails \/ Collect \/ Insert \/ Flushed \/ FlushFails
LogWork  == Log \/ Take \/ AppendMany \/ AppendFails \/ NextPage
Lifespan == StopStreamer \/ StopFlusher \/ CloseResources \/ Exit \/ Boot \/ Crash

Next == Streamer \/ LogWork \/ Lifespan

Spec == Init /\ [][Next]_vars

-----------------------------------------------------------------------------
(* Types; a batch is full only while its flush is under way or fails, and  *)
(* what runs belongs to the stage of the lifespan.                         *)
TypeOK ==
  /\ stage \in Stages
  /\ tick \in 0..MaxTicks /\ reading \in 0..MaxTicks
  /\ spc \in StreamerPcs /\ (spc = "publish" <=> reading # 0)
  /\ batch \in Seq(Ticks) /\ Increasing(batch)
  /\ rows \in [Ticks -> 0..(MaxFaults + 2)]
  /\ excused \subseteq Ticks /\ unsure \subseteq Ticks
  /\ logged \in 0..MaxLogs /\ dropped \subseteq Logs
  /\ queue \in Seq(Logs) /\ Len(queue) <= QueueMax
  /\ taken \in Seq(Logs) /\ Len(taken) <= FlushMax /\ stream \in Seq(Logs)
  /\ fpc \in {"sleep", "append", "off"} /\ (fpc = "append" <=> taken # <<>>)
  /\ stage = "up" => fpc # "off"
  /\ stage \in {"flusher", "resources", "down"} => spc = "off" /\ fpc = "off"
  /\ stage = "down" => queue = <<>>
  /\ faults \in 0..MaxFaults
  /\ Len(batch) > BatchSize => faults > 0
  /\ reader \in [cursor : 0..MaxLogs, upto : 0..MaxLogs, seen : Seq(Logs), done : BOOLEAN]

(* Every tick that was drawn reaches realtime_readings or waits in the     *)
(* batch, over failing flushes (streamer.py:99 "batch retained") and over  *)
(* a shutdown (streamer.py:123), unless its own INCR or PUBLISH failed, it *)
(* was cancelled before it was collected, the last flush failed, or the    *)
(* process died.  It is there once, unless a commit was not answered.      *)
ReadingsKept ==
  \A t \in 1..tick :
    /\ rows[t] = 0 => t \in excused \cup ToSet(batch) \cup {reading}
    /\ rows[t] > 0 /\ t \in ToSet(batch) => t \in unsure
    /\ rows[t] > 1 => t \in unsure

(* Log records reach the stream in the order of emission, none twice; a    *)
(* record is missing only because the queue was full, its append failed,   *)
(* the process ended, or the stream was trimmed (log_handler.py:39-82).    *)
LogsAccounted ==
  LET kept == stream \o taken \o queue
  IN /\ Increasing(kept)
     /\ 1..logged = ToSet(kept) \cup dropped
     /\ ToSet(kept) \cap dropped = {}

(* A client that follows the cursors sees every matching record that is    *)
(* still in the stream once and in order, whatever is appended and trimmed *)
(* meanwhile (logs.py:26-70, store.py:114-127).                             *)
PagedOnce ==
  /\ Increasing(reader.seen)
  /\ \A n \in ToSet(stream) : n \in Matching /\ n <= reader.upto => n \in ToSet(reader.seen)

(* The inductive invariant.  A tick has a row only once it was collected,  *)
(* the batch is older than the reading, and a tick is written again only   *)
(* after a fault, or once by the last flush of the streamer.               *)
Collected ==
  /\ reading \in {0, tick}
  /\ \A t \in ToSet(batch) : t <= tick /\ t # reading
  /\ \A t \in Ticks : t > tick \/ t = reading => rows[t] = 0
  /\ \A t \in Ticks : rows[t] <= faults + 2
  /\ \A t \in ToSet(batch) : rows[t] <= faults + IF stage = "up" THEN 0 ELSE 1
  /\ Len(batch) >= BatchSize /\ spc \in {"sleep", "publish"} => faults > 0
  /\ spc = "off" => ToSet(batch) \subseteq excused

(* What the client has seen ends where its next page begins, and whatever  *)
(* is not in the stream yet comes behind that.                             *)
Followed ==
  /\ ~reader.done => reader.cursor = reader.upto
  /\ reader.upto <= logged
  /\ \A e \in ToSet(taken) \cup ToSet(queue) : e > reader.upto
  /\ \A e \in ToSet(reader.seen) : e <= reader.upto

IInv == TypeOK /\ Collected /\ ReadingsKept /\ LogsAccounted /\ Followed /\ PagedOnce

=============================================================================
