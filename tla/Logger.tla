------------------------------- MODULE Logger -------------------------------
(***************************************************************************)
(* Logger: log() on any thread puts an event into one of two bounded       *)
(* queues; a worker for each queue writes to the common sink, which keeps  *)
(* what it was given in a buffer until it is flushed.  pending_ counts the *)
(* events between the call and the write, and flush() waits until it is 0. *)
(*                                                                         *)
(* An event is a number and its queue: the text, what log() rejects for    *)
(* it, the levels of modules, the sampling and the counters of these are   *)
(* left out.  A wait for a condition ends at its time-out at the latest,   *)
(* so it is no state of its own: the thread looks again at any time.       *)
(***************************************************************************)
EXTENDS Naturals, Sequences, FiniteSets

CONSTANTS
    Nil,
    Producers,      \* threads that log
    Levels,         \* the lowest severities that are set
    QueueCapacity,  \* of each of the two queues
    MaxEvents,      \* bound on the events
    MaxErrors,      \* bound on the failures of the sink
    MaxSettings     \* bound on how often the configuration is set

VARIABLES
    runtime,   \* runtime_config_: the lowest severity that is logged
    setter,    \* what set_min_severity is about to store, or Nil
    settings,
    sequence,  \* sequence_
    caller,    \* of each producer: its event in log(), or Nil
    queue,     \* of each queue: its events
    worker,    \* of each queue: the event its worker has in hand, or Nil
    ended,     \* the queues whose workers have ended
    pending_,  \* what flush() waits for to become 0
    sink,      \* the events in the buffer of the file, on disk, and on stderr
    stats,     \* LogStats
    flushing,  \* flush() of a caller, and of the destructor: Nil, or what was accepted before
    flushed,   \* what was accepted before a flush() that returned true
    accepted,  \* the events whose log() returned Accepted
    life       \* "live", "closing" (the destructor's flush), "stopping" or "gone"

config  == <<runtime, setter, settings>>
calls   == <<sequence, caller, accepted>>
workers == <<queue, worker, ended>>
flushes == <<flushing, flushed>>
loggerVars == <<config, calls, workers, pending_, sink, stats, flushes, life>>

Queues == {"normal", "priority"}

ASSUME LoggerAssumption ==
    /\ Nil \notin [id : Nat, queue : Queues, pushed : BOOLEAN]
    /\ Nil \notin [id : Nat, written : BOOLEAN]

Severity == [normal |-> 1, priority |-> 2]

LoggerInit ==
    /\ runtime = 1 /\ setter = Nil /\ settings = 0
    /\ sequence = 0 /\ caller = [p \in Producers |-> Nil] /\ accepted = {}
    /\ queue = [q \in Queues |-> <<>>] /\ worker = [q \in Queues |-> Nil] /\ ended = {}
    /\ pending_ = 0
    /\ sink = [buffer |-> {}, disk |-> {}, stderr |-> {}]
    /\ stats = [accepted |-> 0, emitted |-> 0, dropped |-> 0, write_errors |-> 0]
    /\ flushing = [caller |-> Nil, destructor |-> Nil] /\ flushed = {}
    /\ life = "live"

Counts(s) == stats' = [stats EXCEPT ![s] = @ + 1]

-----------------------------------------------------------------------------
(* log().  An event below the level leaves no trace; one that is to go     *)
(* into a queue is counted before it is there.                             *)
Enter(p, q) ==
    /\ life = "live" /\ caller[p] = Nil /\ sequence < MaxEvents
    /\ Severity[q] >= runtime
    /\ sequence' = sequence + 1
    /\ caller' = [caller EXCEPT ![p] = [id |-> sequence', queue |-> q, pushed |-> FALSE]]
    /\ pending_' = pending_ + 1
    /\ UNCHANGED <<config, accepted, workers, sink, stats, flushes, life>>

Calling(p) == caller[p] # Nil /\ ~caller[p].pushed

Push(p) ==
    /\ Calling(p)
    /\ LET q == caller[p].queue IN
         /\ Len(queue[q]) < QueueCapacity
         /\ queue' = [queue EXCEPT ![q] = Append(@, caller[p].id)]
    /\ caller' = [caller EXCEPT ![p].pushed = TRUE]
    /\ UNCHANGED <<config, sequence, accepted, worker, ended, pending_, sink, stats, flushes, life>>

(* The queue is full: the event is dropped, and no caller waits. *)
Drop(p) ==
    /\ Calling(p)
    /\ Len(queue[caller[p].queue]) = QueueCapacity
    /\ pending_' = pending_ - 1 /\ Counts("dropped")
    /\ caller' = [caller EXCEPT ![p] = Nil]
    /\ UNCHANGED <<config, sequence, accepted, workers, sink, flushes, life>>

(* By then the worker may have written the event. *)
Return(p) ==
    /\ caller[p] # Nil /\ caller[p].pushed
    /\ Counts("accepted")
    /\ accepted' = accepted \cup {caller[p].id}
    /\ caller' = [caller EXCEPT ![p] = Nil]
    /\ UNCHANGED <<config, sequence, workers, pending_, sink, flushes, life>>

-----------------------------------------------------------------------------
(* consume(), the worker of a queue.  In hand: an event that is not yet    *)
(* written, or one that is and still counts as pending.                    *)
Pop(q) ==
    /\ worker[q] = Nil /\ q \notin ended /\ queue[q] # <<>>
    /\ worker' = [worker EXCEPT ![q] = [id |-> Head(queue[q]), written |-> FALSE]]
    /\ queue' = [queue EXCEPT ![q] = Tail(@)]
    /\ UNCHANGED <<config, calls, ended, pending_, sink, stats, flushes, life>>

InHand(q, written) == worker[q] # Nil /\ worker[q].written = written

ToDisk(s) == [s EXCEPT !.disk = @ \cup s.buffer, !.buffer = {}]

(* The buffer is flushed when nothing waits behind the event. *)
WriteEvent(q) ==
    /\ InHand(q, FALSE)
    /\ LET given == [sink EXCEPT !.buffer = @ \cup {worker[q].id}]
       IN  sink' = IF queue[q] = <<>> THEN ToDisk(given) ELSE given
    /\ Counts("emitted")
    /\ worker' = [worker EXCEPT ![q].written = TRUE]
    /\ UNCHANGED <<config, calls, queue, ended, pending_, flushes, life>>

(* The sink throws, at the write or at the flush after it. *)
WriteFails(q) ==
    /\ InHand(q, FALSE) /\ stats.write_errors < MaxErrors
    /\ \E kept \in SUBSET {worker[q].id} :
         /\ kept # {} => queue[q] = <<>>
         /\ sink' = [sink EXCEPT !.stderr = @ \cup {worker[q].id}, !.buffer = @ \cup kept]
    /\ Counts("write_errors")
    /\ worker' = [worker EXCEPT ![q].written = TRUE]
    /\ UNCHANGED <<config, calls, queue, ended, pending_, flushes, life>>

SettleEvent(q) ==
    /\ InHand(q, TRUE)
    /\ pending_' = pending_ - 1
    /\ worker' = [worker EXCEPT ![q] = Nil]
    /\ UNCHANGED <<config, calls, queue, ended, sink, stats, flushes, life>>

(* Mutant of Stopped: the worker looks at the stop token first. *)
StoppedFirst(q) == life = "stopping"

(* The worker ends when it was told to and its queue is empty. *)
Stopped(q) == life = "stopping" /\ queue[q] = <<>>

End(q) ==
    /\ worker[q] = Nil /\ q \notin ended /\ Stopped(q)
    /\ ended' = ended \cup {q}
    /\ UNCHANGED <<config, calls, queue, worker, pending_, sink, stats, flushes, life>>

-----------------------------------------------------------------------------
(* flush(), and the destructor.                                            *)
FlushStart ==
    /\ life = "live" /\ flushing.caller = Nil
    /\ flushing' = [flushing EXCEPT !.caller = accepted]
    /\ UNCHANGED <<config, calls, workers, pending_, sink, stats, flushed, life>>

(* ~Impl: by then no other thread uses the logger. *)
Destroy ==
    /\ life = "live" /\ flushing.caller = Nil /\ \A p \in Producers : caller[p] = Nil
    /\ life' = "closing"
    /\ flushing' = [flushing EXCEPT !.destructor = accepted]
    /\ UNCHANGED <<config, calls, workers, pending_, sink, stats, flushed>>

(* After the destructor's flush the workers are told to stop. *)
Returns(f) ==
    /\ flushing' = [flushing EXCEPT ![f] = Nil]
    /\ life' = IF f = "destructor" THEN "stopping" ELSE life

QueuesEmpty == \A q \in Queues : queue[q] = <<>>

(* What flush() waits for. *)
Idle == pending_ = 0

Flush(f) ==
    /\ flushing[f] # Nil /\ Idle
    /\ sink' = ToDisk(sink)
    /\ flushed' = flushed \cup flushing[f]
    /\ Returns(f)
    /\ UNCHANGED <<config, calls, workers, pending_, stats>>

FlushFails(f) ==
    /\ flushing[f] # Nil /\ Idle /\ stats.write_errors < MaxErrors
    /\ Counts("write_errors")
    /\ Returns(f)
    /\ UNCHANGED <<config, calls, workers, pending_, sink, flushed>>

FlushTimeout(f) ==
    /\ flushing[f] # Nil /\ ~Idle
    /\ Returns(f)
    /\ UNCHANGED <<config, calls, workers, pending_, sink, stats, flushed>>

(* The workers have been joined; the file is closed after them. *)
Gone ==
    /\ life = "stopping" /\ ended = Queues
    /\ life' = "gone"
    /\ sink' = ToDisk(sink)
    /\ UNCHANGED <<config, calls, workers, pending_, stats, flushes>>

-----------------------------------------------------------------------------
(* set_min_severity stores a changed copy of what it has read before, so a *)
(* change in between is lost; reconfigure stores its argument.             *)
MayChange == life = "live" /\ settings < MaxSettings /\ settings' = settings + 1

SetMinSeverity(s) ==
    /\ MayChange /\ setter = Nil
    /\ setter' = s
    /\ UNCHANGED <<runtime, calls, workers, pending_, sink, stats, flushes, life>>

SetterStores ==
    /\ setter # Nil
    /\ runtime' = setter /\ setter' = Nil
    /\ UNCHANGED <<settings, calls, workers, pending_, sink, stats, flushes, life>>

Reconfigure(s) ==
    /\ MayChange
    /\ runtime' = s
    /\ UNCHANGED <<setter, calls, workers, pending_, sink, stats, flushes, life>>

-----------------------------------------------------------------------------
LoggerNext ==
    \/ \E p \in Producers : (\E q \in Queues : Enter(p, q)) \/ Push(p) \/ Drop(p) \/ Return(p)
    \/ \E q \in Queues : Pop(q) \/ WriteEvent(q) \/ WriteFails(q) \/ SettleEvent(q) \/ End(q)
    \/ \E f \in {"caller", "destructor"} : Flush(f) \/ FlushFails(f) \/ FlushTimeout(f)
    \/ FlushStart \/ Destroy \/ Gone \/ SetterStores
    \/ \E s \in Levels : SetMinSeverity(s) \/ Reconfigure(s)

LoggerSpec == LoggerInit /\ [][LoggerNext]_loggerVars

-----------------------------------------------------------------------------
(* What was accepted before a flush() that returned true has left the      *)
(* process, whatever was logged, dropped or failed meanwhile.              *)
FlushedIsWritten == flushed \subseteq sink.disk \cup sink.stderr

(* The destructor loses nothing that was accepted, also when its flush     *)
(* gives up after two seconds.                                             *)
NothingStranded == life = "gone" => accepted \subseteq sink.disk \cup sink.stderr

(* When nothing is pending, the counters account for every event.          *)
Accounted ==
    (Idle /\ \A p \in Producers : caller[p] = Nil) =>
        /\ QueuesEmpty
        /\ stats.accepted = Cardinality(accepted)
        /\ stats.accepted + stats.dropped = sequence
        /\ accepted \subseteq sink.buffer \cup sink.disk \cup sink.stderr

(* An event that log() accepted is not lost. *)
AcceptedIsKept == FlushedIsWritten /\ NothingStranded /\ Accounted
=============================================================================
