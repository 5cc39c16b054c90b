-------------------------- MODULE BoundedWorkPool ---------------------------
(***************************************************************************)
(* BoundedWorkPool: worker threads run blocking jobs for one owner thread. *)
(* Every operation holds the mutex once, except the job itself, which a    *)
(* worker runs between two critical sections; a job may be cancelled in    *)
(* that window.  The modules that own a pool instantiate this one.         *)
(***************************************************************************)
EXTENDS Integers, Sequences, FiniteSets

CONSTANTS
    Workers,   \* number of worker threads
    Capacity   \* capacity_: queued, running and completed jobs together

VARIABLES
    queue,       \* queue_: ids of the jobs no worker has taken
    running,     \* running_: ids of the jobs being executed
    done,        \* completions_: ids of the results not yet drained
    cancelled,   \* cancelled_: running jobs whose result is not wanted
    inFlight,    \* in_flight_
    stopped      \* stopped_

Init ==
    /\ queue = <<>> /\ running = {} /\ done = <<>> /\ cancelled = {}
    /\ inFlight = 0
    /\ stopped = FALSE

(* The sequence without its i-th element (deque::erase). *)
Erase(s, i) == SubSeq(s, 1, i - 1) \o SubSeq(s, i + 1, Len(s))

Holds(s, id) == \E i \in 1..Len(s) : s[i] = id

(* The elements of a sequence. *)
Elems(s) == {s[i] : i \in 1..Len(s)}

-----------------------------------------------------------------------------
(* try_submit, answered Submitted.  Full and Stopped change nothing. *)
Accept(id) ==
    /\ ~stopped
    /\ inFlight < Capacity
    /\ queue' = Append(queue, id)
    /\ inFlight' = inFlight + 1
    /\ UNCHANGED <<running, done, cancelled>>

(* drain: hand out the first n results. *)
TakeResults(n) ==
    /\ n \in 1..Len(done)
    /\ done' = SubSeq(done, n + 1, Len(done))
    /\ inFlight' = inFlight - n
    /\ UNCHANGED <<queue, running, cancelled>>

(* cancel: a queued job or a result is discarded, a running job is marked, *)
(* an unknown id is ignored.                                               *)
Discard(id) ==
    \/ /\ \E i \in 1..Len(queue) : queue[i] = id /\ queue' = Erase(queue, i)
       /\ inFlight' = inFlight - 1
       /\ UNCHANGED <<running, done, cancelled>>
    \/ /\ ~Holds(queue, id)
       /\ \E i \in 1..Len(done) : done[i] = id /\ done' = Erase(done, i)
       /\ inFlight' = inFlight - 1
       /\ UNCHANGED <<queue, running, cancelled>>
    \/ /\ ~Holds(queue, id) /\ ~Holds(done, id)
       /\ cancelled' = IF id \in running THEN cancelled \cup {id} ELSE cancelled
       /\ UNCHANGED <<queue, running, done, inFlight>>

(* A worker takes the first job of the queue. *)
Take ==
    /\ queue # <<>>
    /\ Cardinality(running) < Workers
    /\ running' = running \cup {Head(queue)}
    /\ queue' = Tail(queue)
    /\ UNCHANGED <<done, cancelled, inFlight>>

(* The job of a worker ends: its result is kept, or dropped if the job was *)
(* cancelled meanwhile.                                                    *)
Finish(id) ==
    /\ id \in running
    /\ running' = running \ {id}
    /\ \/ /\ id \in cancelled
          /\ cancelled' = cancelled \ {id}
          /\ inFlight' = inFlight - 1
          /\ UNCHANGED done
       \/ /\ id \notin cancelled
          /\ done' = Append(done, id)
          /\ UNCHANGED <<cancelled, inFlight>>
    /\ UNCHANGED queue

(* stop: the queue is discarded; running jobs are waited for. *)
Stop ==
    /\ ~stopped
    /\ stopped' = TRUE
    /\ inFlight' = inFlight - Len(queue)
    /\ queue' = <<>>
    /\ UNCHANGED <<running, done, cancelled>>

-----------------------------------------------------------------------------
(* in_flight_ is exact through every race of cancel() and stop() with the  *)
(* workers, and never exceeds the capacity: it counts queued, running and  *)
(* completed jobs, and no slot is lost or given back twice.                *)
InFlightExact ==
    /\ inFlight = Len(queue) + Cardinality(running) + Len(done)
    /\ inFlight <= Capacity
=============================================================================
