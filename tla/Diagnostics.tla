----------------------------- MODULE Diagnostics -----------------------------
(***************************************************************************)
(* The diagnostics pipeline of the three applications                      *)
(* (shared/diagnostics/src: lib.rs, filter.rs, ring.rs, worker.rs).        *)
(*                                                                         *)
(* Any thread records a line: into one of two bounded rings, whose lock it *)
(* only tries, and into the one queue of the writer thread, where details  *)
(* may take half of the room.  Whatever is refused is counted.  The UI     *)
(* takes snapshots of the rings and exports the files through the same     *)
(* queue; the guard of the application shuts the writer down.  An atomic   *)
(* counter or a lock is one step; lines are numbers and files what was     *)
(* written to them.                                                        *)
(***************************************************************************)
EXTENDS Integers, Sequences, FiniteSets, SequencesExt

CONSTANTS
  Threads,       \* the threads that record
  MaxLines,      \* bound: lines recorded
  MaxExports,    \* bound: exports
  PrivateOnly,   \* redact_private_locations, which macOS sets
  QueueCap,      \* capacity of the writer's queue
  RingCap        \* capacity of each ring

DiagnosticsAssumption ==
  PrivateOnly \in BOOLEAN /\ QueueCap \in Nat \ {0, 1} /\ {MaxLines, MaxExports, RingCap} \subseteq Nat \ {0}

VARIABLES
  mode,        \* what build came to: "files", "fallback" or "disabled"
  detailed,    \* FilterPolicy::detailed
  lines,       \* the lines recorded so far: their streams
  thread,      \* per thread: what it does and its line
  holder,      \* per stream: who holds the lock of its ring
  ring,        \* per stream: the sequence numbers in its ring
  numbered,    \* Ring::revision, as the streams of the entries it numbered
  contended,   \* contention_dropped
  queue,       \* commands
  pending,     \* detail_pending
  dropped, detailDropped,
  accepted,    \* the lines that the queue took
  worker,      \* what the writer thread does and its command
  written,     \* per stream: the lines in its file
  failure,     \* an output failed before
  reader,      \* the UI thread that takes a snapshot
  exporter,    \* the thread that exports
  exports,     \* exports begun
  guard        \* WorkerGuard

ringVars   == <<holder, ring, numbered, contended>>
queueVars  == <<queue, pending>>
countVars  == <<dropped, detailDropped>>
workerVars == <<worker, written, failure>>
uiVars     == <<reader, exporter, exports, guard>>
vars == <<mode, detailed, lines, thread, ringVars, queueVars, countVars, accepted, workerVars, uiVars>>

Streams   == {"lifecycle", "detail"}
DetailCap == QueueCap \div 2
Stream(l) == lines[l]
Line(l)   == [kind |-> "line", line |-> l]
Stopped   == worker.pc = "stopped"
Room      == ~Stopped /\ Len(queue) < QueueCap

(***************************************************************************)
(* FilterPolicy::allows.                                                   *)
(***************************************************************************)
Levels  == {"error", "warn", "info", "debug", "trace"}
Targets == {"application", "transport", "tokio", "mdns", "mdnsDaemon", "quic", "other"}
Severity(level) == CASE level = "error" -> 0 [] level = "warn" -> 1 [] level = "info" -> 2
                     [] level = "debug" -> 3 [] level = "trace" -> 4

\* macOS records no target that it does not name, but for the details of QUIC.
Allows(level, target) ==
  \/ detailed /\ target = "quic"
  \/ /\ PrivateOnly => target \notin {"quic", "other"}
     /\ \/ detailed /\ target = "mdnsDaemon"
        \/ detailed /\ target = "transport" /\ Severity(level) <= Severity("debug")
        \/ target \in {"transport", "tokio", "mdns", "mdnsDaemon"} /\ Severity(level) <= Severity("warn")
        \/ target \in {"application", "quic", "other"} /\ Severity(level) <= Severity("info")
        \/ detailed /\ target = "application" /\ Severity(level) <= Severity("debug")

StreamOf(level) == IF Severity(level) >= Severity("debug") THEN "detail" ELSE "lifecycle"

SetDetailed ==
  /\ detailed' = ~detailed
  /\ UNCHANGED <<mode, lines, thread, ringVars, queueVars, countVars, accepted, workerVars, uiVars>>

(***************************************************************************)
(* DiagnosticsLayer::on_event on one thread.                               *)
(***************************************************************************)
At(t, pc) == thread[t].pc = pc
Goes(t, pc) == thread' = [thread EXCEPT ![t] = [pc |-> pc, line |-> IF pc = "idle" THEN 0 ELSE @.line]]
Mine(t)   == Stream(thread[t].line)
Queues(t) == Goes(t, IF Mine(t) = "detail" THEN "reserve" ELSE "send")

OnEvent(t) ==
  /\ At(t, "idle") /\ Len(lines) < MaxLines
  /\ \E level \in Levels, target \in Targets :
       Allows(level, target) /\ lines' = Append(lines, StreamOf(level))
  /\ thread' = [thread EXCEPT ![t] = [pc |-> "ring", line |-> Len(lines')]]
  /\ UNCHANGED <<mode, detailed, ringVars, queueVars, countVars, accepted, workerVars, uiVars>>

\* Ring::push: the lock is tried, then the oldest entry makes room and the new
\* one is numbered and added.
TryLock(t) ==
  /\ At(t, "ring")
  /\ \/ holder[Mine(t)] = "nobody"
        /\ holder' = [holder EXCEPT ![Mine(t)] = t] /\ Goes(t, "number") /\ UNCHANGED contended
     \/ holder[Mine(t)] # "nobody"
        /\ contended' = contended + 1 /\ Queues(t) /\ UNCHANGED holder
  /\ UNCHANGED <<mode, detailed, lines, ring, numbered, queueVars, countVars, accepted, workerVars, uiVars>>

Number(t) ==
  /\ At(t, "number") /\ Goes(t, "push")
  /\ ring' = [ring EXCEPT ![Mine(t)] = IF Len(@) = RingCap THEN Tail(@) ELSE @]
  /\ numbered' = Append(numbered, Mine(t))
  /\ UNCHANGED <<mode, detailed, lines, holder, contended, queueVars, countVars, accepted, workerVars, uiVars>>

\* No other entry of this stream was numbered since: its lock is held.
NumberOf(stream) == CHOOSE n \in 1..Len(numbered) :
                      /\ numbered[n] = stream
                      /\ \A m \in n + 1..Len(numbered) : numbered[m] # stream

Push(t) ==
  /\ At(t, "push") /\ Queues(t)
  /\ ring' = [ring EXCEPT ![Mine(t)] = Append(@, NumberOf(Mine(t)))]
  /\ holder' = [holder EXCEPT ![Mine(t)] = "nobody"]
  /\ UNCHANGED <<mode, detailed, lines, numbered, contended, queueVars, countVars, accepted, workerVars, uiVars>>

\* Writer::enqueue: a detail takes a place of the half of the queue first.
Reserve(t) ==
  /\ At(t, "reserve")
  /\ IF pending < DetailCap THEN pending' = pending + 1 /\ Goes(t, "send")
     ELSE UNCHANGED pending /\ Goes(t, "count")
  /\ UNCHANGED <<mode, detailed, lines, ringVars, queue, countVars, accepted, workerVars, uiVars>>

TrySend(t) ==
  /\ At(t, "send")
  /\ \/ /\ Room /\ Goes(t, "idle") /\ UNCHANGED pending
        /\ queue' = Append(queue, Line(thread[t].line))
        /\ accepted' = accepted \union {thread[t].line}
     \/ /\ ~Room /\ Goes(t, "count") /\ UNCHANGED <<queue, accepted>>
        /\ pending' = IF Mine(t) = "detail" THEN pending - 1 ELSE pending
  /\ UNCHANGED <<mode, detailed, lines, ringVars, countVars, workerVars, uiVars>>

\* Writer::count_drop: the total, then the details among it.
CountDrop(t) ==
  /\ \/ /\ At(t, "count") /\ dropped' = dropped + 1 /\ UNCHANGED detailDropped
        /\ Goes(t, IF Mine(t) = "detail" THEN "countDetail" ELSE "idle")
     \/ /\ At(t, "countDetail") /\ detailDropped' = detailDropped + 1 /\ UNCHANGED dropped
        /\ Goes(t, "idle")
  /\ UNCHANGED <<mode, detailed, lines, ringVars, queueVars, accepted, workerVars, uiVars>>

Records(t) == TryLock(t) \/ Number(t) \/ Push(t) \/ Reserve(t) \/ TrySend(t) \/ CountDrop(t)

(***************************************************************************)
(* The writer thread.                                                      *)
(***************************************************************************)
Receive ==
  /\ worker.pc = "recv" /\ queue # <<>>
  /\ queue' = Tail(queue) /\ worker' = [pc |-> Head(queue).kind, line |-> Head(queue).line]
  /\ UNCHANGED <<mode, detailed, lines, thread, ringVars, pending, countVars, accepted, written, failure, uiVars>>

\* Without a file for details both streams go to the one output, which does not
\* fail when it is the fallback.
WriteLine ==
  /\ worker.pc = "line" /\ worker' = [pc |-> "recv", line |-> 0]
  /\ pending' = IF Stream(worker.line) = "detail" THEN pending - 1 ELSE pending
  /\ \/ /\ written' = [written EXCEPT ![IF mode = "files" THEN Stream(worker.line) ELSE "lifecycle"]
                         = Append(@, worker.line)]
        /\ UNCHANGED failure
     \/ mode = "files" /\ failure' = TRUE /\ UNCHANGED written
  /\ UNCHANGED <<mode, detailed, lines, thread, ringVars, queue, countVars, accepted, uiVars>>

\* Both outputs are flushed and the files copied, unless something failed here or
\* before; the exporter waits for the answer.
Idle == [pc |-> "idle", detail |-> 0, queue |-> 0, owed |-> {}]

AnswersExport ==
  /\ worker.pc = "export" /\ worker' = [pc |-> "recv", line |-> 0]
  /\ exporter' = Idle
  /\ UNCHANGED <<mode, detailed, lines, thread, ringVars, queueVars, countVars, accepted, written, failure,
                 reader, exports, guard>>

\* The receiver is dropped with what is behind the command.
LeftQueued == queue
Discarded  == <<>>
ShutDown ==
  /\ worker.pc = "shutdown" /\ worker' = [worker EXCEPT !.pc = "stopped"]
  /\ queue' = Discarded
  /\ UNCHANGED <<mode, detailed, lines, thread, ringVars, pending, countVars, accepted, written, failure, uiVars>>

Writes == Receive \/ WriteLine \/ AnswersExport \/ ShutDown

(***************************************************************************)
(* The UI: Ring::snapshot and Handle::export.                              *)
(***************************************************************************)
Opens(stream, from, to) ==
  /\ reader = from /\ holder[stream] = "nobody"
  /\ holder' = [holder EXCEPT ![stream] = "reader"] /\ reader' = to
  /\ UNCHANGED <<mode, detailed, lines, thread, ring, numbered, contended, queueVars, countVars, accepted,
                 workerVars, exporter, exports, guard>>

\* Revision and entries are read when both locks are held.
FirstLocked == reader \in {"first", "both"}
BothLocked  == reader = "both"

Collect ==
  /\ BothLocked /\ reader' = "idle"
  /\ holder' = [s \in Streams |-> IF holder[s] = "reader" THEN "nobody" ELSE holder[s]]
  /\ UNCHANGED <<mode, detailed, lines, thread, ring, numbered, contended, queueVars, countVars, accepted,
                 workerVars, exporter, exports, guard>>

BeginSnapshot == Opens("lifecycle", "idle", "first")
Snapshots     == Opens("detail", "first", "both") \/ Collect

Exporting(pc) == exporter.pc = pc
Exports(to)   == /\ exporter' = to
                 /\ UNCHANGED <<mode, detailed, lines, thread, ringVars, pending, countVars, accepted,
                                workerVars, reader, guard>>

\* Without files there is nothing to export.
Export ==
  /\ Exporting("idle") /\ exports < MaxExports /\ exports' = exports + 1 /\ UNCHANGED queue
  /\ Exports([exporter EXCEPT !.pc = IF mode = "files" THEN "subset" ELSE "idle"])

\* Writer::losses reads the subset before the total.
Losses ==
  /\ UNCHANGED <<queue, exports>>
  /\ \/ Exporting("subset") /\ Exports([exporter EXCEPT !.pc = "total", !.detail = detailDropped])
     \/ Exporting("total") /\ Exports([exporter EXCEPT !.pc = "send", !.queue = dropped])

\* Writer::export: a send that waits for room, then the answer; both fail when
\* the worker is gone.
Request ==
  /\ UNCHANGED exports
  /\ \/ Exporting("send") /\ Room /\ queue' = Append(queue, [kind |-> "export", line |-> 0])
        /\ Exports([exporter EXCEPT !.pc = "wait", !.owed = accepted])
     \/ Exporting("send") /\ Stopped /\ UNCHANGED queue
        /\ Exports(Idle)
     \/ Exporting("wait") /\ Stopped /\ queue = <<>> /\ UNCHANGED queue
        /\ Exports(Idle)

\* WorkerGuard::drop
DropGuard ==
  /\ guard = "held" /\ guard' = "send"
  /\ UNCHANGED <<mode, detailed, lines, thread, ringVars, queueVars, countVars, accepted, workerVars,
                 reader, exporter, exports>>

Joins ==
  /\ \/ guard = "send" /\ Room /\ queue' = Append(queue, [kind |-> "shutdown", line |-> 0]) /\ guard' = "join"
     \/ guard = "join" /\ Stopped /\ guard' = "gone" /\ UNCHANGED queue
  /\ UNCHANGED <<mode, detailed, lines, thread, ringVars, pending, countVars, accepted, workerVars,
                 reader, exporter, exports>>

Init ==
  /\ mode \in {"files", "fallback", "disabled"} /\ detailed \in BOOLEAN
  /\ lines = <<>> /\ thread = [t \in Threads |-> [pc |-> "idle", line |-> 0]]
  /\ holder = [s \in Streams |-> "nobody"] /\ ring = [s \in Streams |-> <<>>]
  /\ numbered = <<>> /\ contended = 0
  /\ queue = <<>> /\ pending = 0 /\ dropped = 0 /\ detailDropped = 0 /\ accepted = {}
  /\ worker = [pc |-> IF mode = "disabled" THEN "stopped" ELSE "recv", line |-> 0]
  /\ written = [s \in Streams |-> <<>>] /\ failure = FALSE
  /\ reader = "idle" /\ exporter = Idle /\ exports = 0 /\ guard = IF mode = "disabled" THEN "gone" ELSE "held"

Next == \/ SetDetailed \/ DropGuard \/ BeginSnapshot \/ Export
        \/ \E t \in Threads : OnEvent(t) \/ Records(t)
        \/ Writes \/ Snapshots \/ Losses \/ Request \/ Joins

\* Threads run on; what the user and the application begin may never come.
Fairness == /\ \A t \in Threads : WF_vars(Records(t))
            /\ WF_vars(Writes) /\ WF_vars(Snapshots) /\ WF_vars(Losses) /\ WF_vars(Request) /\ WF_vars(Joins)

Spec == Init /\ [][Next]_vars /\ Fairness

(***************************************************************************)
(* Properties.                                                             *)
(***************************************************************************)
Details(q)  == {i \in 1..Len(q) : q[i].kind = "line" /\ Stream(q[i].line) = "detail"}
Sending     == {t \in Threads : At(t, "send") /\ Mine(t) = "detail"}
InHand      == IF worker.pc = "line" THEN {worker.line} ELSE {}
QueuedLines == {queue[i].line : i \in 1..Len(queue)} \ {0}
InFiles     == Range(written["lifecycle"]) \union Range(written["detail"])
Latest(stream) ==
  LET all == {n \in 1..Len(numbered) : numbered[n] = stream}
  IN  {n \in all : Cardinality({m \in all : m >= n}) <= RingCap}

\* README of the crate: whatever threads record, refuse, export and shut down at
\* once, details leave half of the queue to lifecycle events; every line is in a
\* file, on its way or counted as dropped; an export counts no more details than
\* lines, and one that succeeds has every line accepted before it; and a snapshot
\* of the two rings is their state at one moment.
RecordsAreAccounted ==
  /\ Cardinality(Details(queue)) <= DetailCap
  /\ ~Stopped => pending = Cardinality(Details(queue)) + Cardinality(Sending)
                            + Cardinality({l \in InHand : Stream(l) = "detail"})
  /\ (\A t \in Threads : At(t, "idle")) => Len(lines) = Cardinality(accepted) + dropped
  /\ failure \/ Stopped \/ accepted = InFiles \union QueuedLines \union InHand
  /\ Exporting("send") \/ Exporting("wait") => exporter.detail <= exporter.queue
  /\ worker.pc = "export" /\ ~failure => exporter.owed \subseteq InFiles
  /\ BothLocked => \A s \in Streams : Range(ring[s]) = Latest(s)
=============================================================================
