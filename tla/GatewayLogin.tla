---------------------------- MODULE GatewayLogin ----------------------------
(***************************************************************************)
(* GatewayLoginPipeline on the service thread, with the edge runtime's I/O *)
(* thread and the worker pool of the account fetch.  One advance() is the  *)
(* sequence of its phases: lifecycle events, messages, handoff expiry,     *)
(* fetch completions, fetch timeouts, fetch submissions and the flush of   *)
(* the intents; each loop body is one step.                                *)
(*                                                                         *)
(* Deadlines are not modelled: a deadline that is set may have passed in   *)
(* any frame.  The outcome of credential inspection, of the consumption    *)
(* store (AdmissionConsumption) and of a fetch is any possible one.        *)
(***************************************************************************)
EXTENDS EdgeRuntime

CONSTANTS
    FetchCapacity,   \* fetch_capacity, also of the pool
    Workers,         \* fetch_workers
    RetryMax,        \* fetch_retry_max
    MaxEvents,       \* max_events_per_advance
    MaxAttempts,     \* bound on next_attempt_id_
    MayFail          \* whether the I/O loop may fail and the service stop

AttemptIds == 1..MaxAttempts

ASSUME LoginAssumption ==
    /\ FetchCapacity \in Nat \ {0}
    /\ Workers \in Nat \ {0}
    /\ RetryMax \in Nat
    /\ MaxEvents \in Nat \ {0}
    /\ MaxAttempts \in Nat
    /\ MayFail \in BOOLEAN

VARIABLES
    sessions,    \* sessions_: NoSession, or the PipelineSession
    used,        \* fetch_used_
    attempts,    \* attempts_: the connection of each attempt it knows
    nextAttempt, \* next_attempt_id_
    health,      \* health_; Destroyed after the destructor
    phase,       \* where advance() is
    events,      \* drained events still to be visited in this phase
    later,       \* drained events to be visited again by process_messages
    comps,       \* drained completions
    left,        \* sessions a loop still has to visit
    grant,       \* what became of the reservation of the connection's grant
    queue, working, done, cancelled, inFlight, stopped   \* the pool

fetchPool == <<queue, working, done, cancelled, inFlight, stopped>>
frame     == <<phase, events, later, comps, left>>
state     == <<sessions, used, attempts, nextAttempt, health, grant>>
vars      == <<edge, state, frame, fetchPool>>

Pool == INSTANCE BoundedWorkPool WITH Capacity <- FetchCapacity, running <- working

NoSession == [open |-> FALSE, stage |-> "Pending", intent |-> "None", closing |-> FALSE,
              reserved |-> FALSE, held |-> FALSE, failures |-> 0, attempt |-> 0,
              grace |-> FALSE]

NewSession == [NoSession EXCEPT !.open = TRUE]

Open == {c \in Conns : sessions[c].open}

Init ==
    /\ EdgeInit
    /\ sessions = [c \in Conns |-> NoSession]
    /\ used = 0
    /\ attempts = [id \in {} |-> 0]
    /\ nextAttempt = 1
    /\ health = "Healthy"
    /\ phase = "idle" /\ events = <<>> /\ later = <<>> /\ comps = <<>> /\ left = {}
    /\ grant = [c \in Conns |-> "none"]
    /\ Pool!Init

-----------------------------------------------------------------------------
(* Releasing what a session holds.                                         *)

Without(f, ids) == [id \in DOMAIN f \ ids |-> f[id]]

(* Mutant of CancelAttempt: the pool is not told. *)
CancelAttemptKeepsJob(c) ==
    /\ attempts' = Without(attempts, {sessions[c].attempt})
    /\ UNCHANGED fetchPool

(* The active attempt is cancelled in the pool and forgotten. *)
CancelAttempt(c) ==
    LET id == sessions[c].attempt IN
    IF id = 0 THEN UNCHANGED <<attempts, fetchPool>>
              ELSE /\ attempts' = Without(attempts, {id})
                   /\ Pool!Discard(id)
                   /\ UNCHANGED stopped

(* release_fetch_reservation *)
ReleaseFetch(c) == used' = IF sessions[c].reserved THEN used - 1 ELSE used

(* Mutant of ReleaseAdmission: the handle is dropped without abandon. *)
ReleaseAdmissionSkipped(c) == grant' = grant

(* release_admission_reservation: abandon the handle, if there is one. *)
ReleaseAdmission(c) ==
    grant' = IF sessions[c].held THEN [grant EXCEPT ![c] = "released"] ELSE grant

ReleaseAll(c) == CancelAttempt(c) /\ ReleaseFetch(c) /\ ReleaseAdmission(c)

(* schedule_decline and schedule_close. *)
Schedule(c, kind) ==
    /\ ReleaseAll(c)
    /\ sessions' = [sessions EXCEPT ![c] =
         [@ EXCEPT !.attempt = 0, !.reserved = FALSE, !.held = FALSE,
                   !.closing = TRUE, !.intent = kind]]
    /\ UNCHANGED <<nextAttempt, health>>

-----------------------------------------------------------------------------
(* advance(): drain_events and preapply_lifecycle.                         *)
BeginFrame ==
    /\ phase = "idle"
    /\ health = "Healthy"
    /\ LET n == IF Len(inbound) < MaxEvents THEN Len(inbound) ELSE MaxEvents IN
       /\ TakeEvents(n)
       /\ events' = SubSeq(inbound, 1, n)
       /\ later' = SubSeq(inbound, 1, n)
    /\ phase' = "lifecycle"
    /\ UNCHANGED <<state, comps, left, fetchPool>>

NextEvent == events' = Tail(events) /\ UNCHANGED <<phase, later, comps, left>>

(* conn_capacity is the sum of the transports' max_sessions. *)
ApplyOpened(c) ==
    /\ sessions' = IF c \notin Open /\ Cardinality(Open) < MaxSessions
                     THEN [sessions EXCEPT ![c] = NewSession] ELSE sessions
    /\ UNCHANGED <<used, attempts, nextAttempt, health, grant, fetchPool>>

(* Mutant of ApplyClosed: a session that is closing is not looked at. *)
ApplyClosedSkipsClosing(c) ==
    IF sessions[c].closing
      THEN UNCHANGED <<state, fetchPool>>
      ELSE /\ ReleaseAll(c)
           /\ sessions' = [sessions EXCEPT ![c] = NoSession]
           /\ UNCHANGED <<nextAttempt, health>>

(* release_session, and the session is erased. *)
ApplyClosed(c) ==
    /\ ReleaseAll(c)
    /\ sessions' = [sessions EXCEPT ![c] = NoSession]
    /\ UNCHANGED <<nextAttempt, health>>

PreapplyLifecycle ==
    /\ phase = "lifecycle"
    /\ events # <<>>
    /\ LET e == Head(events) IN
         \/ e.kind = "Opened" /\ ApplyOpened(e.conn)
         \/ e.kind = "Closed" /\ ApplyClosed(e.conn)
         \/ e.kind \notin {"Opened", "Closed"} /\ UNCHANGED <<state, fetchPool>>
    /\ NextEvent
    /\ UNCHANGED edge

LifecycleDone ==
    /\ phase = "lifecycle"
    /\ events = <<>>
    /\ phase' = "messages"
    /\ events' = later /\ later' = <<>>
    /\ UNCHANGED <<edge, state, comps, left, fetchPool>>

-----------------------------------------------------------------------------
(* process_messages.                                                       *)

Ignored(e) ==
    LET s == sessions[e.conn] IN
    e.kind # "Message" \/ ~s.open \/ s.closing \/ s.intent # "None"

(* handle_attach after a successful reserve. *)
Reserve(c) ==
    /\ sessions' = [sessions EXCEPT ![c] =
         [@ EXCEPT !.held = TRUE, !.reserved = TRUE, !.intent = "Accept"]]
    /\ used' = used + 1
    /\ grant' = [grant EXCEPT ![c] = "held"]
    /\ UNCHANGED <<attempts, nextAttempt, health, fetchPool>>

(* An attach is declined for its credentials, a throttle, the state of the *)
(* store or the fetch budget; a message out of place, or abuse, closes.    *)
HandleMessage(e) ==
    LET c == e.conn IN
    \/ Schedule(c, "Close")
    \/ /\ ~e.established /\ sessions[c].stage = "Pending"
       /\ \/ Schedule(c, "Decline")
          \/ used < FetchCapacity /\ Reserve(c)

ProcessMessages ==
    /\ phase = "messages"
    /\ events # <<>>
    /\ LET e == Head(events) IN
         \/ Ignored(e) /\ UNCHANGED <<state, fetchPool>>
         \/ ~Ignored(e) /\ HandleMessage(e)
    /\ NextEvent
    /\ UNCHANGED edge

MessagesDone ==
    /\ phase = "messages"
    /\ events = <<>>
    /\ phase' = "expiry"
    /\ UNCHANGED <<edge, state, events, later, comps, left, fetchPool>>

-----------------------------------------------------------------------------
(* apply_handoff_expiry, for a session whose deadline has passed. *)
ExpireHandoff(c) ==
    /\ phase = "expiry"
    /\ sessions[c].open /\ ~sessions[c].closing /\ sessions[c].grace
    /\ Schedule(c, "Close")
    /\ UNCHANGED <<edge, frame>>

(* drain_completions: what the pool has, up to fetch_capacity. *)
ExpiryDone ==
    /\ phase = "expiry"
    /\ phase' = "completions"
    /\ comps' = done
    /\ \/ Pool!TakeResults(Len(done)) /\ UNCHANGED stopped
       \/ done = <<>> /\ UNCHANGED fetchPool
    /\ UNCHANGED <<edge, state, events, later, left>>

(* record_fetch_failure *)
FetchFailed(c, s) ==
    IF s.failures + 1 <= RetryMax
      THEN /\ sessions' = [sessions EXCEPT ![c] = [s EXCEPT !.failures = s.failures + 1]]
           /\ UNCHANGED <<used, grant>>
      ELSE /\ sessions' = [sessions EXCEPT ![c] =
                [s EXCEPT !.failures = s.failures + 1, !.reserved = FALSE, !.held = FALSE,
                          !.closing = TRUE, !.intent = "Decline"]]
           /\ ReleaseFetch(c) /\ ReleaseAdmission(c)

(* What a completion of its active attempt does to a session. *)
FetchSucceeded(c, s) ==
    /\ sessions' = [sessions EXCEPT ![c] = [s EXCEPT !.reserved = FALSE, !.intent = "Handoff"]]
    /\ ReleaseFetch(c)
    /\ UNCHANGED grant

NotEligible(c, s) ==
    /\ sessions' = [sessions EXCEPT ![c] =
         [s EXCEPT !.reserved = FALSE, !.held = FALSE, !.closing = TRUE, !.intent = "Decline"]]
    /\ ReleaseFetch(c) /\ ReleaseAdmission(c)

Forget(c, s) ==
    /\ sessions' = [sessions EXCEPT ![c] = s]
    /\ UNCHANGED <<used, grant>>

(* drain_fetch_completions, one completion. *)
ApplyCompletion(id) ==
    IF id \notin DOMAIN attempts \/ sessions[attempts[id]].attempt # id
      THEN /\ attempts' = Without(attempts, {id})
           /\ UNCHANGED <<sessions, used, grant>>
      ELSE LET c == attempts[id]
               s == [sessions[c] EXCEPT !.attempt = 0] IN
           /\ attempts' = Without(attempts, {id})
           /\ \/ s.closing /\ Forget(c, s)
              \/ ~s.closing /\ (FetchSucceeded(c, s) \/ NotEligible(c, s) \/ FetchFailed(c, s))

DrainCompletion ==
    /\ phase = "completions"
    /\ comps # <<>>
    /\ ApplyCompletion(Head(comps))
    /\ comps' = Tail(comps)
    /\ UNCHANGED <<edge, nextAttempt, health, phase, events, later, left, fetchPool>>

CompletionsDone ==
    /\ phase = "completions"
    /\ comps = <<>>
    /\ phase' = "timeouts"
    /\ UNCHANGED <<edge, state, events, later, comps, left, fetchPool>>

(* apply_fetch_timeouts, for a session whose attempt is overdue. *)
TimeoutFetch(c) ==
    /\ phase = "timeouts"
    /\ sessions[c].open /\ ~sessions[c].closing /\ sessions[c].attempt # 0
    /\ CancelAttempt(c)
    /\ FetchFailed(c, [sessions[c] EXCEPT !.attempt = 0])
    /\ UNCHANGED <<edge, nextAttempt, health, frame>>

TimeoutsDone ==
    /\ phase = "timeouts"
    /\ phase' = "submit"
    /\ UNCHANGED <<edge, state, events, later, comps, left, fetchPool>>

Submittable(c) ==
    LET s == sessions[c] IN
    /\ s.open /\ ~s.closing /\ s.stage = "Fetching" /\ s.reserved
    /\ s.attempt = 0 /\ s.intent = "None"

(* drive_fetch_submissions, for a session that is due and gets a place in  *)
(* the pool.  A full pool leaves everything as it is.                      *)
SubmitFetch(c) ==
    /\ phase = "submit"
    /\ Submittable(c)
    /\ nextAttempt <= MaxAttempts
    /\ Pool!Accept(nextAttempt)
    /\ nextAttempt' = nextAttempt + 1
    /\ sessions' = [sessions EXCEPT ![c] = [@ EXCEPT !.attempt = nextAttempt]]
    /\ attempts' = [id \in DOMAIN attempts \cup {nextAttempt} |->
                      IF id = nextAttempt THEN c ELSE attempts[id]]
    /\ UNCHANGED <<edge, used, health, grant, frame, stopped>>

SubmitDone ==
    /\ phase = "submit"
    /\ phase' = "flush1"
    /\ left' = Open
    /\ UNCHANGED <<edge, state, events, later, comps, fetchPool>>

-----------------------------------------------------------------------------
(* flush_intents: by kind, and within a kind by connection id.             *)

FlushPhases == {"flush1", "flush2", "flush3", "flush4"}

FlushKind ==
    CASE phase = "flush1" -> "Close"
      [] phase = "flush2" -> "Decline"
      [] phase = "flush3" -> "Accept"
      [] phase = "flush4" -> "Handoff"
      [] OTHER -> "None"

NextFlush ==
    CASE phase = "flush1" -> "flush2"
      [] phase = "flush2" -> "flush3"
      [] phase = "flush3" -> "flush4"
      [] OTHER -> "idle"

ToFlush == {c \in left : sessions[c].open /\ sessions[c].intent = FlushKind}

Flushing(c) ==
    /\ phase \in FlushPhases
    /\ c \in ToFlush
    /\ \A d \in ToFlush : c <= d

Visited(c) == left' = left \ {c} /\ UNCHANGED <<phase, events, later, comps>>

(* The runtime queue is full: the intent stays for the next frame. *)
FlushFull(c) ==
    /\ Flushing(c)
    /\ QueueResult = "Full"
    /\ Visited(c)
    /\ UNCHANGED <<edge, state, fetchPool>>

(* Close or Decline is queued. *)
FlushEnd(c) ==
    /\ Flushing(c)
    /\ FlushKind \in {"Close", "Decline"}
    /\ QueueResult = "Queued"
    /\ Enqueue(FlushKind, c)
    /\ sessions' = [sessions EXCEPT ![c] =
         [@ EXCEPT !.closing = TRUE, !.intent = "None",
                   !.grace = FlushKind # "Close" /\ sessions[c].grace]]
    /\ Visited(c)
    /\ UNCHANGED <<used, attempts, nextAttempt, health, grant, fetchPool>>

(* Accept is queued and the reservation committed: Fetching begins. *)
FlushAccept(c) ==
    /\ Flushing(c)
    /\ FlushKind = "Accept"
    /\ QueueResult = "Queued"
    /\ Enqueue("Accept", c)
    /\ grant' = [grant EXCEPT ![c] = "committed"]
    /\ sessions' = [sessions EXCEPT ![c] =
         [@ EXCEPT !.held = FALSE, !.stage = "Fetching", !.intent = "None"]]
    /\ Visited(c)
    /\ UNCHANGED <<used, attempts, nextAttempt, health, fetchPool>>

(* Mutant of FlushAcceptLost: the session keeps its handle. *)
FlushAcceptLostKeepsHandle(c) ==
    /\ Flushing(c)
    /\ FlushKind = "Accept"
    /\ QueueResult = "Queued"
    /\ Enqueue("Accept", c)
    /\ grant' = [grant EXCEPT ![c] = "unknown"]
    /\ ReleaseFetch(c)
    /\ sessions' = [sessions EXCEPT ![c] =
         [@ EXCEPT !.reserved = FALSE, !.closing = TRUE, !.intent = "Close"]]
    /\ Visited(c)
    /\ UNCHANGED <<attempts, nextAttempt, health, fetchPool>>

(* Accept is queued, but the commit is lost or its outcome unknown: the    *)
(* session is closed, and the reservation is never released.               *)
FlushAcceptLost(c) ==
    /\ Flushing(c)
    /\ FlushKind = "Accept"
    /\ QueueResult = "Queued"
    /\ Enqueue("Accept", c)
    /\ grant' = [grant EXCEPT ![c] = "unknown"]
    /\ ReleaseFetch(c)
    /\ sessions' = [sessions EXCEPT ![c] =
         [@ EXCEPT !.held = FALSE, !.reserved = FALSE, !.closing = TRUE, !.intent = "Close"]]
    /\ Visited(c)
    /\ UNCHANGED <<attempts, nextAttempt, health, fetchPool>>

(* Handoff is queued; the client has handoff_grace to move on. *)
FlushHandoff(c) ==
    /\ Flushing(c)
    /\ FlushKind = "Handoff"
    /\ QueueResult = "Queued"
    /\ Enqueue("Send", c)
    /\ sessions' = [sessions EXCEPT ![c] =
         [@ EXCEPT !.stage = "HandedOff", !.grace = TRUE, !.intent = "None"]]
    /\ Visited(c)
    /\ UNCHANGED <<used, attempts, nextAttempt, health, grant, fetchPool>>

(* No realm endpoint is known: the session is closed in the next frame. *)
FlushNoRealm(c) ==
    /\ Flushing(c)
    /\ FlushKind = "Handoff"
    /\ Schedule(c, "Close")
    /\ Visited(c)
    /\ UNCHANGED edge

(* The runtime has stopped: an Accept's reservation is released and the    *)
(* pipeline becomes unhealthy.                                             *)
FlushStopped(c) ==
    /\ Flushing(c)
    /\ QueueResult = "Stopped"
    /\ ReleaseAdmission(c)
    /\ sessions' = [sessions EXCEPT ![c].held = FALSE]
    /\ health' = "Unhealthy"
    /\ phase' = "sweep" /\ left' = Open
    /\ UNCHANGED <<edge, used, attempts, nextAttempt, events, later, comps, fetchPool>>

FlushDone ==
    /\ phase \in FlushPhases
    /\ ToFlush = {}
    /\ phase' = NextFlush
    /\ left' = IF NextFlush = "idle" THEN {} ELSE Open
    /\ UNCHANGED <<edge, state, events, later, comps, fetchPool>>

-----------------------------------------------------------------------------
(* mark_unhealthy and the destructor, for one session: its attempt is      *)
(* cancelled and its reservation released.                                 *)
Sweep(c) ==
    /\ phase = "sweep"
    /\ c \in left
    /\ CancelAttempt(c)
    /\ ReleaseAdmission(c)
    /\ sessions' = [sessions EXCEPT ![c] = [@ EXCEPT !.attempt = 0, !.held = FALSE]]
    /\ left' = left \ {c}
    /\ UNCHANGED <<edge, used, nextAttempt, health, phase, events, later, comps>>

(* An unhealthy frame makes GatewayFrame::tick stop the runtime. *)
SweepDone ==
    /\ phase = "sweep"
    /\ left = {}
    /\ phase' = "idle"
    /\ StopRuntime
    /\ UNCHANGED <<state, events, later, comps, left, fetchPool>>

(* The service is stopped between two frames and the pipeline destroyed. *)
Shutdown ==
    /\ MayFail
    /\ phase = "idle"
    /\ health # "Destroyed"
    /\ health' = "Destroyed"
    /\ phase' = "sweep" /\ left' = Open
    /\ UNCHANGED <<edge, sessions, used, attempts, nextAttempt, grant,
                   events, later, comps, fetchPool>>

(* ... and after the pipeline the fetch port and its pool. *)
StopPool ==
    /\ health = "Destroyed" /\ phase = "idle"
    /\ Pool!Stop
    /\ UNCHANGED <<edge, state, frame>>

-----------------------------------------------------------------------------
Frame ==
    \/ BeginFrame \/ PreapplyLifecycle \/ LifecycleDone \/ ProcessMessages \/ MessagesDone
    \/ ExpiryDone \/ DrainCompletion \/ CompletionsDone \/ TimeoutsDone \/ SubmitDone
    \/ FlushDone \/ SweepDone
    \/ \E c \in Conns :
         \/ FlushFull(c) \/ FlushEnd(c) \/ FlushAccept(c) \/ FlushAcceptLost(c)
         \/ FlushHandoff(c) \/ FlushNoRealm(c) \/ FlushStopped(c) \/ Sweep(c)

Deadline == \E c \in Conns : ExpireHandoff(c) \/ TimeoutFetch(c)

Submission == \E c \in Conns : SubmitFetch(c)

Io == IoCycle /\ UNCHANGED <<state, frame, fetchPool>>

IoFailure == MayFail /\ IoFails /\ UNCHANGED <<state, frame, fetchPool>>

Worker ==
    /\ Pool!Take \/ \E id \in AttemptIds : Pool!Finish(id)
    /\ UNCHANGED <<edge, state, frame, stopped>>

Next == Frame \/ Deadline \/ Submission \/ Shutdown \/ StopPool \/ Io \/ IoFailure \/ Worker

Spec == Init /\ [][Next]_vars

(* Both threads and the workers keep running, and a fetch that stays due   *)
(* is due in some frame: its retry delay is finite.                        *)
FairSpec ==
    /\ Spec
    /\ WF_vars(Frame) /\ WF_vars(Io) /\ WF_vars(Worker)
    /\ \A c \in Conns : SF_vars(SubmitFetch(c))

-----------------------------------------------------------------------------
Stages == {"Pending", "Fetching", "HandedOff"}

Sessions == [open : BOOLEAN, stage : Stages,
             intent : {"None", "Close", "Decline", "Accept", "Handoff"},
             closing : BOOLEAN, reserved : BOOLEAN, held : BOOLEAN, grace : BOOLEAN,
             failures : 0..(RetryMax + 1), attempt : 0..MaxAttempts]

(* Types; the bounded queues stay within their capacity. *)
TypeOK ==
    /\ EdgeTypeOK
    /\ sessions \in [Conns -> Sessions]
    /\ used \in Nat
    /\ DOMAIN attempts \subseteq AttemptIds /\ \A id \in DOMAIN attempts : attempts[id] \in Conns
    /\ nextAttempt \in 1..(MaxAttempts + 1)
    /\ health \in {"Healthy", "Unhealthy", "Destroyed"}
    /\ phase \in FlushPhases \cup {"idle", "lifecycle", "messages", "expiry", "completions",
                                  "timeouts", "submit", "sweep"}
    /\ events \in Seq(Events) /\ later \in Seq(Events) /\ comps \in Seq(AttemptIds)
    /\ left \subseteq Conns
    /\ grant \in [Conns -> {"none", "held", "committed", "unknown", "released"}]
    /\ inFlight \in 0..FetchCapacity

(* fetch_used_ is the number of sessions with a reservation and within the *)
(* budget (so that fetch_free() does not wrap), and no session keeps its   *)
(* reservation when it can no longer use it: one that is closing, handed   *)
(* off or gone has none.                                                   *)
FetchBudget ==
    /\ used = Cardinality({c \in Conns : sessions[c].reserved})
    /\ used <= FetchCapacity
    /\ \A c \in Conns : sessions[c].reserved =>
         /\ sessions[c].open /\ ~sessions[c].closing
         /\ sessions[c].intent = "Accept" \/ sessions[c].stage = "Fetching"

(* Ids of the fetches whose result is still to come. *)
Expected == Pool!Elems(queue) \cup (working \ cancelled) \cup Pool!Elems(done)

(* The sessions, attempts_ and the pool agree while the pipeline is in     *)
(* use: every active attempt is known and its result still to come, so no  *)
(* session waits for a result that was dropped, and no result is to come   *)
(* that nobody waits for.  The pool's own count is exact at all times.     *)
AttemptsMatched ==
    /\ Pool!InFlightExact
    /\ health = "Healthy" =>
      /\ \A c \in Open : sessions[c].attempt # 0 =>
           sessions[c].attempt \in DOMAIN attempts /\ attempts[sessions[c].attempt] = c
      /\ \A id \in DOMAIN attempts :
           /\ sessions[attempts[id]].attempt = id
           /\ id \in Expected \cup Pool!Elems(comps)
      /\ Expected \subseteq DOMAIN attempts

(* The fetch budget, the sessions, attempts_ and the pool come out even,   *)
(* whatever is cancelled, overdue, late or retried, and whenever the       *)
(* service stops.                                                          *)
Accounting == FetchBudget /\ AttemptsMatched

(* Of a reservation handle at most one of commit and release is called, so *)
(* nothing reopens a grant that is consumed or may be.                     *)
NoReleaseAfterCommit ==
    [][\A c \in Conns : grant[c] \in {"committed", "unknown", "released"} =>
          grant'[c] = grant[c]]_vars

(* Every handle is settled: only an open session whose accept has not been *)
(* queued holds one, and a pipeline that was stopped or destroyed none.    *)
HandlesSettled ==
    \A c \in Conns : grant[c] = "held" =>
      /\ sessions[c].open /\ ~sessions[c].closing /\ sessions[c].intent = "Accept"
      /\ health # "Healthy" => phase = "sweep"

Unseen(k, c) ==
    LET Has(s) == \E i \in 1..Len(s) : s[i].kind = k /\ s[i].conn = c IN
    Has(batch) \/ Has(inbound) \/ (phase = "lifecycle" /\ Has(events))

(* The session of a connection that ended is not kept: the end is still to *)
(* be seen by the pipeline.                                                *)
NoOrphanSession ==
    running => \A c \in Open : table[c] = "gone" => Unseen("Closed", c)

(* No live connection is left without a session, even when the connections *)
(* are at max_sessions and some of them are replaced.                      *)
NoOrphanConnection ==
    running => \A c \in Conns : Alive(c) /\ ~sessions[c].open => Unseen("Opened", c)

(* A message is sent only to an established connection: the accept of a    *)
(* connection is always ahead of its handoff (the contract of try_send).   *)
SendEstablished ==
    io \in {"process", "final"} /\ todo # <<>> /\ Head(todo).kind = "Send" =>
      table[Head(todo).conn] # "pending"

(* The pipeline and the I/O thread agree on the connections, as long as no *)
(* event is lost to a full queue and no end overtakes the event that opens *)
(* its connection: finish_close publishes at once, poll_events at the end  *)
(* of a batch, so a batch of two may do that when peers move.              *)
ConnectionsMatched == NoOrphanSession /\ NoOrphanConnection /\ SendEstablished

InUse(c) == sessions[c].reserved \/ sessions[c].closing

(* A session that reserved a fetch gets its result or is ended, and one    *)
(* that is closing is removed in the end.                                  *)
EventuallySettled == \A c \in Conns : InUse(c) ~> ~InUse(c)
=============================================================================
