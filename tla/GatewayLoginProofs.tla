------------------------ MODULE GatewayLoginProofs -------------------------
(***************************************************************************)
(* The fetch budget, the attempts and the pool come out even, every        *)
(* reservation handle is settled, and a commit is final: for any number of *)
(* connections, attempts and workers, all capacities, and every point      *)
(* where the I/O loop fails or the service is stopped.                     *)
(*                                                                         *)
(* The inductive invariant has four parts: the types; a connection is      *)
(* opened once, and a session holds a handle only while its accept is      *)
(* pending; the budget; the pool, with the session that waits for each     *)
(* attempt.  That pipeline and runtime agree on the connections needs two  *)
(* more: what the events on their way make of the sessions, and that an    *)
(* accept is on its way ahead of what needs it.                            *)
(***************************************************************************)
EXTENDS GatewayLogin, FiniteSetTheorems, TLAPS

(* Types. *)
Stage4 == {"new", "pending", "established", "gone"}
SessionType == [open : BOOLEAN, stage : Stages,
                intent : {"None", "Close", "Decline", "Accept", "Handoff"},
                closing : BOOLEAN, reserved : BOOLEAN, held : BOOLEAN, grace : BOOLEAN,
                failures : Nat, attempt : 0..MaxAttempts]

(* The edge runtime. *)
EdgeTypes ==
    /\ table \in [Conns -> Stage4]
    /\ inbound \in Seq(Events) /\ batch \in Seq(Events)
    /\ outbound \in Seq(Commands) /\ todo \in Seq(Commands)
    /\ running \in BOOLEAN /\ msgs \in [Conns -> Nat]
    /\ io \in {"commands", "process", "final", "poll", "publish", "ended"}

(* The fetch pool. *)
PoolTypes ==
    /\ queue \in Seq(AttemptIds) /\ done \in Seq(AttemptIds)
    /\ working \subseteq AttemptIds /\ cancelled \subseteq AttemptIds
    /\ inFlight \in Int /\ stopped \in BOOLEAN

Phases == FlushPhases \cup {"idle", "lifecycle", "messages", "expiry", "completions",
                            "timeouts", "submit", "sweep"}

GrantTypes == {"none", "held", "committed", "unknown", "released"}

(* Sessions, grants, budget, attempts and health_. *)
StateTypes ==
    /\ sessions \in [Conns -> SessionType]
    /\ grant \in [Conns -> GrantTypes]
    /\ used \in Int
    /\ attempts \in [DOMAIN attempts -> Conns] /\ DOMAIN attempts \subseteq AttemptIds
    /\ nextAttempt \in 1..(MaxAttempts + 1)
    /\ health \in {"Healthy", "Unhealthy", "Destroyed"}

(* Where advance() stands in its frame. *)
FrameTypes ==
    /\ phase \in Phases
    /\ events \in Seq(Events) /\ later \in Seq(Events) /\ comps \in Seq(AttemptIds)
    /\ left \subseteq Conns

TypeInv == EdgeTypes /\ PoolTypes /\ StateTypes /\ FrameTypes

(* The ConnectionOpened events of c in a sequence of events. *)
Opens(s, c) == {i \in 1..Len(s) : s[i].kind = "Opened" /\ s[i].conn = c}
Opening(s, c) == Opens(s, c) # {}
Once(s, c) == \A i, j \in Opens(s, c) : i = j

(* Events that the pipeline has drained and not visited. *)
Waiting == IF phase = "lifecycle" THEN events ELSE <<>>

(* A connection is opened once, and its event is in one place only. *)
OpenedOnce(t, b, i, w, c) ==
    /\ Once(b, c) /\ Once(i, c) /\ Once(w, c)
    /\ Opening(b, c) => ~Opening(i, c) /\ ~Opening(w, c)
    /\ Opening(i, c) => ~Opening(w, c)
    /\ t = "new" => ~Opening(b, c) /\ ~Opening(i, c) /\ ~Opening(w, c)

(* The pipeline has not seen the connection yet. *)
Fresh(t, b, i, w, c) == t = "new" \/ Opening(b, c) \/ Opening(i, c) \/ Opening(w, c)

(* A session, the grant of its connection and health_: a session has a     *)
(* handle exactly when the grant is reserved for it, and while the         *)
(* pipeline works exactly when it is about to be accepted; one that may    *)
(* still reserve has not done so before.                                   *)
Handle(s, g, h) ==
    /\ s.held <=> g = "held"
    /\ s.held => s.open /\ ~s.closing /\ s.intent = "Accept"
    /\ s.open /\ s.intent = "Accept" /\ h = "Healthy" => s.held
    /\ s.intent = "Accept" => s.stage = "Pending"
    /\ s.attempt # 0 => s.stage # "Pending"
    /\ s.open /\ ~s.closing /\ s.stage = "Pending" /\ s.intent = "None" => g = "none"
    /\ s.closing \/ s.attempt # 0 \/ s.reserved => s.open

(* Handles, and who still has one when the pipeline has stopped. *)
HandleInv ==
    /\ \A c \in Conns : OpenedOnce(table[c], batch, inbound, Waiting, c)
    /\ \A c \in Conns : Fresh(table[c], batch, inbound, Waiting, c) =>
         ~sessions[c].open /\ grant[c] = "none"
    /\ \A c \in Conns : Handle(sessions[c], grant[c], health)
    /\ phase = "sweep" => health # "Healthy"
    /\ health # "Healthy" => phase \in {"idle", "sweep"}
    /\ phase = "sweep" => \A c \in Conns : sessions[c].held => c \in left
    /\ health # "Healthy" /\ phase = "idle" => \A c \in Conns : ~sessions[c].held

(* The fetch budget. *)
Reserving == {c \in Conns : sessions[c].reserved}

(* Who holds a unit of the budget, and who no longer does. *)
Uses(s) ==
    /\ s.reserved => /\ s.open /\ ~s.closing /\ s.intent # "Handoff"
                     /\ s.intent = "Accept" \/ s.stage = "Fetching"
    /\ s.intent \in {"Close", "Decline"} => s.closing

(* used_ counts the sessions that hold a unit. *)
BudgetInv ==
    /\ IsFiniteSet(Reserving) /\ used = Cardinality(Reserving) /\ used <= FetchCapacity
    /\ \A c \in Conns : Uses(sessions[c])

(* The pool: every id is in one place, and was given out. *)
Injective(s) == \A i, j \in 1..Len(s) : s[i] = s[j] => i = j

(* A pool with queue q, worked on w, done d, of which x cancelled, n in flight, and completions cs the frame has drained. *)
PoolOk(q, w, d, x, n, cs, next) ==
    /\ Injective(q) /\ Injective(d) /\ IsFiniteSet(w) /\ x \subseteq w
    /\ Pool!Elems(q) \cap w = {} /\ Pool!Elems(q) \cap Pool!Elems(d) = {}
    /\ w \cap Pool!Elems(d) = {}
    /\ Pool!Elems(cs) \cap (Pool!Elems(q) \cup w \cup Pool!Elems(d)) = {}
    /\ \A id \in Pool!Elems(q) \cup w \cup Pool!Elems(d) \cup Pool!Elems(cs) : id < next
    /\ n = Len(q) + Cardinality(w) + Len(d) /\ n <= FetchCapacity

PoolInv == PoolOk(queue, working, done, cancelled, inFlight, comps, nextAttempt)

(* Sessions and attempts_ name each other. *)
Matched(s, a) ==
    /\ \A c \in Conns : s[c].attempt # 0 =>
         s[c].attempt \in DOMAIN a /\ a[s[c].attempt] = c
    /\ \A id \in DOMAIN a : s[a[id]].attempt = id

(* ... and what they wait for is what the pool or a drained result holds. *)
Agree ==
    /\ Matched(sessions, attempts)
    /\ DOMAIN attempts \subseteq Expected \cup Pool!Elems(comps)
    /\ Expected \subseteq DOMAIN attempts

(* An attempt is in the pool exactly when attempts knows it. *)
AccountInv ==
    /\ PoolInv
    /\ phase # "completions" => comps = <<>>
    /\ health = "Healthy" => Agree

-----------------------------------------------------------------------------
(* Types.                                                                  *)

(* The sequence operators of the model keep their element set. *)
LEMMA SeqTail == ASSUME NEW S, NEW s \in Seq(S), s # <<>>
                 PROVE Head(s) \in S /\ Tail(s) \in Seq(S)
OBVIOUS

LEMMA SeqAppend == ASSUME NEW S, NEW s \in Seq(S), NEW e \in S
                 PROVE Append(s, e) \in Seq(S)
OBVIOUS

LEMMA SeqSub == ASSUME NEW S, NEW s \in Seq(S), NEW n \in 0..Len(s)
                 PROVE SubSeq(s, 1, n) \in Seq(S) /\ SubSeq(s, n + 1, Len(s)) \in Seq(S)
<1>1. \A i \in 1..Len(s) : s[i] \in S
  OBVIOUS
<1>2. SubSeq(s, 1, n) \in Seq(S)
  BY <1>1
<1>3. SubSeq(s, n + 1, Len(s)) \in Seq(S)
  BY <1>1
<1> QED BY <1>2, <1>3

(* Publishing a batch keeps the types of the runtime. *)
LEMMA PublishTypes ==
    ASSUME EdgeTypes, NEW e \in Events, NEW tbl \in [Conns -> Stage4], Publish(e, tbl)
    PROVE  table' \in [Conns -> Stage4] /\ inbound' \in Seq(Events)
<1>1. e.conn \in Conns
  BY DEF Events
<1>2. inbound' \in Seq(Events)
  BY SeqAppend DEF Publish, Push, EdgeTypes
<1>3. table' \in [Conns -> Stage4]
  BY <1>1 DEF Publish, EdgeTypes, Stage4
<1> QED BY <1>2, <1>3

(* An event of a connection is an event. *)
LEMMA EventType ==
    ASSUME NEW k \in EventKinds, NEW c \in Conns, NEW b \in BOOLEAN
    PROVE  Event(k, c, b) \in Events
BY DEF Event, Events

(* So does closing, *)
LEMMA FinishCloseTypes ==
    ASSUME EdgeTypes, NEW c \in Conns, FinishClose(c)
    PROVE  table' \in [Conns -> Stage4] /\ inbound' \in Seq(Events)
<1>1. Event("Closed", c, table[c] = "established") \in Events
  BY EventType DEF EventKinds
<1>2. [table EXCEPT ![c] = "gone"] \in [Conns -> Stage4]
  BY DEF EdgeTypes, Stage4
<1> QED BY <1>1, <1>2, PublishTypes DEF FinishClose

(* every step of the I/O loop, *)
LEMMA IoTypes ==
    ASSUME EdgeTypes, IoCycle \/ IoFails
    PROVE  EdgeTypes'
<1>1. CASE DrainCommands
  <2> DEFINE n == IF Len(outbound) < MaxCommands THEN Len(outbound) ELSE MaxCommands
  <2>1. outbound \in Seq(Commands) /\ n \in 0..Len(outbound)
    BY EdgeAssumption DEF EdgeAssumption, EdgeTypes
  <2>2. SubSeq(outbound, 1, n) \in Seq(Commands)
        /\ SubSeq(outbound, n + 1, Len(outbound)) \in Seq(Commands)
    BY <2>1, SeqSub
  <2> QED BY <1>1, <2>2 DEF DrainCommands, EdgeTypes
<1>2. CASE ProcessCommand
  <2>1. /\ Head(todo) \in Commands /\ todo' \in Seq(Commands)
        /\ UNCHANGED <<outbound, io, batch, running, msgs>>
    BY <1>2, SeqTail DEF ProcessCommand, EdgeTypes
  <2> DEFINE c == Head(todo).conn
  <2>2. c \in Conns
    BY <2>1 DEF Commands
  <2>3. table' \in [Conns -> Stage4] /\ inbound' \in Seq(Events)
    <3>1. CASE NoEvent
      BY <3>1 DEF NoEvent, EdgeTypes
    <3>2. CASE FinishClose(c)
      BY <3>2, <2>2, FinishCloseTypes
    <3>3. CASE Publish(Event("Established", c, TRUE), [table EXCEPT ![c] = "established"])
      <4>1. Event("Established", c, TRUE) \in Events
        BY <2>2, EventType DEF EventKinds
      <4>2. [table EXCEPT ![c] = "established"] \in [Conns -> Stage4]
        BY <2>2 DEF EdgeTypes, Stage4
      <4> QED BY <3>3, <4>1, <4>2, PublishTypes
    <3> QED BY <1>2, <3>1, <3>2, <3>3
          DEF ProcessCommand, ProcessSend, ProcessAccept, ProcessClose
  <2> QED BY <2>1, <2>3 DEF EdgeTypes
<1>3. CASE Poll
  <2>1. PICK c \in Conns :
          PollOpened(c) \/ PollMessage(c) \/ PollClosed(c) \/ PollMoved(c) \/ PollLost(c)
    BY <1>3 DEF Poll
  <2>2. UNCHANGED <<outbound, io, todo, running>>
    BY <1>3 DEF Poll
  <2>3. CASE PollLost(c)
    BY <2>2, <2>3, FinishCloseTypes DEF PollLost, EdgeTypes
  <2>4. ASSUME NEW k \in EventKinds, NEW b \in BOOLEAN, Collect(Event(k, c, b))
        PROVE  batch' \in Seq(Events)
    BY <2>4, EventType, SeqAppend DEF Collect, EdgeTypes
  <2>5. CASE PollOpened(c)
    <3>1. batch' \in Seq(Events)
      BY <2>5, <2>4 DEF PollOpened, EventKinds
    <3> QED BY <2>2, <2>5, <3>1 DEF PollOpened, EdgeTypes, Stage4
  <2>6. CASE PollMessage(c)
    <3>1. batch' \in Seq(Events)
      BY <2>6, <2>4 DEF PollMessage, EventKinds
    <3> QED BY <2>2, <2>6, <3>1 DEF PollMessage, EdgeTypes, Stage4
  <2>7. CASE PollClosed(c)
    <3>1. batch' \in Seq(Events)
      BY <2>7, <2>4 DEF PollClosed, EventKinds
    <3> QED BY <2>2, <2>7, <3>1 DEF PollClosed, EdgeTypes, Stage4
  <2>8. CASE PollMoved(c)
    <3>1. batch' \in Seq(Events)
      BY <2>8, <2>4 DEF PollMoved, EventKinds
    <3> QED BY <2>2, <2>8, <3>1 DEF PollMoved, EdgeTypes, Stage4
  <2> QED BY <2>1, <2>3, <2>5, <2>6, <2>7, <2>8
<1>4. CASE PublishNext
  <2>1. Head(batch) \in Events /\ batch' \in Seq(Events)
    BY <1>4, SeqTail DEF PublishNext, EdgeTypes
  <2>2. table \in [Conns -> Stage4]
    BY DEF EdgeTypes
  <2>3. table' \in [Conns -> Stage4] /\ inbound' \in Seq(Events)
    BY <1>4, <2>1, <2>2, PublishTypes DEF PublishNext
  <2> QED BY <1>4, <2>1, <2>3 DEF PublishNext, EdgeTypes
<1>5. CASE CommandsDone
  BY <1>5 DEF CommandsDone, EdgeTypes
<1>6. CASE PollDone
  BY <1>6 DEF PollDone, EdgeTypes
<1>7. CASE CycleDone
  BY <1>7 DEF CycleDone, EdgeTypes
<1>8. CASE IoFails
  <2>1. todo' \in Seq(Commands) /\ batch' \in Seq(Events)
    <3>1. <<>> \in Seq(Commands) /\ <<>> \in Seq(Events)
      OBVIOUS
    <3> QED BY <1>8, <3>1 DEF IoFails
  <2> QED BY <1>8, <2>1 DEF IoFails, EdgeTypes
<1> QED BY <1>1, <1>2, <1>3, <1>4, <1>5, <1>6, <1>7, <1>8 DEF IoCycle

(* and the start and stop of the service. *)
LEMMA ServiceTypes ==
    /\ \A n \in 0..Len(inbound) : EdgeTypes /\ TakeEvents(n) => EdgeTypes'
    /\ \A k \in CmdKinds, c \in Conns : EdgeTypes /\ Enqueue(k, c) => EdgeTypes'
    /\ EdgeTypes /\ StopRuntime => EdgeTypes'
<1>1. ASSUME NEW n \in 0..Len(inbound), EdgeTypes, TakeEvents(n) PROVE EdgeTypes'
  BY <1>1, SeqSub DEF TakeEvents, EdgeTypes
<1>2. ASSUME NEW k \in CmdKinds, NEW c \in Conns, EdgeTypes, Enqueue(k, c) PROVE EdgeTypes'
  <2>1. [kind |-> k, conn |-> c] \in Commands
    BY DEF Commands
  <2>2. outbound' \in Seq(Commands)
    BY <1>2, <2>1, SeqAppend DEF Enqueue, EdgeTypes
  <2> QED BY <1>2, <2>2 DEF Enqueue, EdgeTypes
<1>3. ASSUME EdgeTypes, StopRuntime PROVE EdgeTypes'
  BY <1>3 DEF StopRuntime, EdgeTypes
<1> QED BY <1>1, <1>2, <1>3

(* Erasing from the pool gives a sequence of attempts. *)
LEMMA EraseType ==
    ASSUME NEW S, NEW s \in Seq(S), NEW i \in 1..Len(s)
    PROVE  /\ Pool!Erase(s, i) \in Seq(S)
           /\ Len(Pool!Erase(s, i)) = Len(s) - 1
           /\ \A j \in 1..Len(s) - 1 : Pool!Erase(s, i)[j] = IF j < i THEN s[j] ELSE s[j + 1]
<1> DEFINE a == SubSeq(s, 1, i - 1)
           b == SubSeq(s, i + 1, Len(s))
<1>1. /\ a \in Seq(S) /\ Len(a) = i - 1
      /\ \A j \in 1..i - 1 : a[j] = s[j]
  BY SeqSub
<1>2. /\ b \in Seq(S) /\ Len(b) = Len(s) - i
      /\ \A j \in 1..Len(s) - i : b[j] = s[i + j]
  BY SeqSub
<1> HIDE DEF a, b
<1>3. a \o b \in Seq(S) /\ Len(a \o b) = Len(s) - 1
  <2>1. a \in Seq(S) /\ b \in Seq(S)
    BY <1>1, <1>2
  <2>2. a \o b \in Seq(S) /\ Len(a \o b) = Len(a) + Len(b)
    BY <2>1
  <2> QED BY <1>1, <1>2, <2>2
<1>4. \A j \in 1..Len(s) - 1 : (a \o b)[j] = IF j < i THEN s[j] ELSE s[j + 1]
  <2> TAKE j \in 1..Len(s) - 1
  <2>1. (a \o b)[j] = IF j <= Len(a) THEN a[j] ELSE b[j - Len(a)]
    BY <1>1, <1>2
  <2> QED BY <1>1, <1>2, <2>1
<1> QED BY <1>3, <1>4 DEF Pool!Erase, a, b

(* What one operation of the pool may change. *)
PoolStep ==
    \/ \E id \in AttemptIds : Pool!Accept(id) /\ UNCHANGED stopped
    \/ \E n \in Nat : Pool!TakeResults(n) /\ UNCHANGED stopped
    \/ \E id \in AttemptIds : Pool!Discard(id) /\ UNCHANGED stopped
    \/ Pool!Take /\ UNCHANGED stopped
    \/ \E id \in AttemptIds : Pool!Finish(id) /\ UNCHANGED stopped
    \/ Pool!Stop
    \/ UNCHANGED fetchPool

(* Such an operation keeps the types of the pool. *)
LEMMA PoolStepTypes ==
    ASSUME PoolTypes, PoolStep
    PROVE  PoolTypes'
<1>1. ASSUME NEW id \in AttemptIds, Pool!Accept(id), UNCHANGED stopped PROVE PoolTypes'
  <2>1. queue' \in Seq(AttemptIds)
    BY <1>1, SeqAppend DEF PoolTypes, Pool!Accept
  <2> QED BY <1>1, <2>1 DEF PoolTypes, Pool!Accept
<1>2. ASSUME NEW n \in Nat, Pool!TakeResults(n), UNCHANGED stopped PROVE PoolTypes'
  <2>1. n \in 0..Len(done)
    BY <1>2 DEF PoolTypes, Pool!TakeResults
  <2>2. done' \in Seq(AttemptIds)
    BY <1>2, <2>1, SeqSub DEF PoolTypes, Pool!TakeResults
  <2> QED BY <1>2, <2>2 DEF PoolTypes, Pool!TakeResults
<1>3. ASSUME NEW id \in AttemptIds, Pool!Discard(id), UNCHANGED stopped PROVE PoolTypes'
  <2>1. CASE /\ \E i \in 1..Len(queue) : queue' = Pool!Erase(queue, i)
             /\ inFlight' = inFlight - 1 /\ UNCHANGED <<working, done, cancelled>>
    <3>1. queue' \in Seq(AttemptIds)
      BY <2>1, EraseType DEF PoolTypes
    <3> QED BY <1>3, <2>1, <3>1 DEF PoolTypes
  <2>2. CASE /\ \E i \in 1..Len(done) : done' = Pool!Erase(done, i)
             /\ inFlight' = inFlight - 1 /\ UNCHANGED <<queue, working, cancelled>>
    <3>1. done' \in Seq(AttemptIds)
      BY <2>2, EraseType DEF PoolTypes
    <3> QED BY <1>3, <2>2, <3>1 DEF PoolTypes
  <2>3. CASE /\ cancelled' = IF id \in working THEN cancelled \cup {id} ELSE cancelled
             /\ UNCHANGED <<queue, working, done, inFlight>>
    BY <1>3, <2>3 DEF PoolTypes
  <2> QED BY <1>3, <2>1, <2>2, <2>3 DEF Pool!Discard
<1>4. ASSUME Pool!Take, UNCHANGED stopped PROVE PoolTypes'
  <2>1. Head(queue) \in AttemptIds /\ queue' \in Seq(AttemptIds)
    BY <1>4, SeqTail DEF PoolTypes, Pool!Take
  <2> QED BY <1>4, <2>1 DEF PoolTypes, Pool!Take
<1>5. ASSUME NEW id \in AttemptIds, Pool!Finish(id), UNCHANGED stopped PROVE PoolTypes'
  <2>1. done' \in Seq(AttemptIds)
    BY <1>5, SeqAppend DEF PoolTypes, Pool!Finish
  <2> QED BY <1>5, <2>1 DEF PoolTypes, Pool!Finish
<1>6. ASSUME Pool!Stop PROVE PoolTypes'
  <2>1. queue' \in Seq(AttemptIds) /\ Len(queue) \in Nat
    <3>1. <<>> \in Seq(AttemptIds)
      OBVIOUS
    <3> QED BY <1>6, <3>1 DEF Pool!Stop, PoolTypes
  <2> QED BY <1>6, <2>1 DEF PoolTypes, Pool!Stop
<1>7. CASE UNCHANGED fetchPool
  BY <1>7 DEF PoolTypes, fetchPool
<1> QED BY <1>1, <1>2, <1>3, <1>4, <1>5, <1>6, <1>7 DEF PoolStep

(* Every update the handlers make of a session gives a session. *)
LEMMA SessionUpdates ==
    ASSUME NEW s \in SessionType, NEW kind \in {"Close", "Decline"},
           NEW g \in BOOLEAN
    PROVE  /\ NoSession \in SessionType /\ NewSession \in SessionType
           /\ [s EXCEPT !.attempt = 0] \in SessionType
           /\ [s EXCEPT !.attempt = 0, !.held = FALSE] \in SessionType
           /\ [s EXCEPT !.held = FALSE] \in SessionType
           /\ [s EXCEPT !.attempt = 0, !.reserved = FALSE, !.held = FALSE,
                        !.closing = TRUE, !.intent = kind] \in SessionType
           /\ [s EXCEPT !.held = TRUE, !.reserved = TRUE, !.intent = "Accept"] \in SessionType
           /\ [s EXCEPT !.failures = s.failures + 1] \in SessionType
           /\ [s EXCEPT !.failures = s.failures + 1, !.reserved = FALSE, !.held = FALSE,
                        !.closing = TRUE, !.intent = "Decline"] \in SessionType
           /\ [s EXCEPT !.reserved = FALSE, !.intent = "Handoff"] \in SessionType
           /\ [s EXCEPT !.reserved = FALSE, !.held = FALSE, !.closing = TRUE,
                        !.intent = "Decline"] \in SessionType
           /\ [s EXCEPT !.closing = TRUE, !.intent = "None", !.grace = g] \in SessionType
           /\ [s EXCEPT !.held = FALSE, !.stage = "Fetching", !.intent = "None"] \in SessionType
           /\ [s EXCEPT !.held = FALSE, !.reserved = FALSE, !.closing = TRUE, !.intent = "Close"]
                \in SessionType
           /\ [s EXCEPT !.stage = "HandedOff", !.grace = TRUE, !.intent = "None"] \in SessionType
<1> DEFINE A == 0..MaxAttempts
<1>0. 0 \in A /\ SessionType =
              [open : BOOLEAN, stage : Stages,
                intent : {"None", "Close", "Decline", "Accept", "Handoff"},
                closing : BOOLEAN, reserved : BOOLEAN, held : BOOLEAN, grace : BOOLEAN,
                failures : Nat, attempt : A]
  BY LoginAssumption DEF LoginAssumption, SessionType
<1> HIDE DEF A
<1> USE <1>0 DEF Stages
<1>1. NoSession \in SessionType /\ NewSession \in SessionType
  BY DEF NoSession, NewSession
<1>2. [s EXCEPT !.attempt = 0] \in SessionType
  OBVIOUS
<1>3. [s EXCEPT !.attempt = 0, !.held = FALSE] \in SessionType
  OBVIOUS
<1>4. [s EXCEPT !.attempt = 0, !.reserved = FALSE, !.held = FALSE,
                !.closing = TRUE, !.intent = kind] \in SessionType
  OBVIOUS
<1>5. [s EXCEPT !.held = TRUE, !.reserved = TRUE, !.intent = "Accept"] \in SessionType
  OBVIOUS
<1>6. [s EXCEPT !.failures = s.failures + 1] \in SessionType
  OBVIOUS
<1>7. [s EXCEPT !.failures = s.failures + 1, !.reserved = FALSE, !.held = FALSE,
                !.closing = TRUE, !.intent = "Decline"] \in SessionType
  <2> DEFINE f == s.failures + 1
  <2>1. f \in Nat
    OBVIOUS
  <2> HIDE DEF f
  <2>2. [s EXCEPT !.failures = f, !.reserved = FALSE, !.held = FALSE,
                  !.closing = TRUE, !.intent = "Decline"] \in SessionType
    BY <2>1
  <2> QED BY <2>2 DEF f
<1>8. [s EXCEPT !.reserved = FALSE, !.intent = "Handoff"] \in SessionType
  OBVIOUS
<1>9. [s EXCEPT !.reserved = FALSE, !.held = FALSE, !.closing = TRUE, !.intent = "Decline"]
        \in SessionType
  OBVIOUS
<1>11. [s EXCEPT !.closing = TRUE, !.intent = "None", !.grace = g] \in SessionType
  OBVIOUS
<1>12. [s EXCEPT !.held = FALSE, !.stage = "Fetching", !.intent = "None"] \in SessionType
  OBVIOUS
<1>13. [s EXCEPT !.held = FALSE, !.reserved = FALSE, !.closing = TRUE, !.intent = "Close"]
         \in SessionType
  OBVIOUS
<1>14. [s EXCEPT !.stage = "HandedOff", !.grace = TRUE, !.intent = "None"] \in SessionType
  OBVIOUS
<1>15. [s EXCEPT !.held = FALSE] \in SessionType
  OBVIOUS
<1> QED BY ONLY <1>1, <1>2, <1>3, <1>4, <1>5, <1>6, <1>7, <1>8, <1>9, <1>11, <1>12, <1>13, <1>14, <1>15

(* Setting one session keeps the others. *)
LEMMA SessionSet ==
    ASSUME StateTypes, NEW c \in Conns, NEW s \in SessionType,
           sessions' = [sessions EXCEPT ![c] = s]
    PROVE  sessions' \in [Conns -> SessionType]
BY DEF StateTypes

(* What a release does to the state. *)
LEMMA ReleaseTypes ==
    ASSUME StateTypes, NEW c \in Conns
    PROVE  /\ CancelAttempt(c) =>
                /\ PoolStep
                /\ attempts' \in [DOMAIN attempts' -> Conns] /\ DOMAIN attempts' \subseteq AttemptIds
           /\ ReleaseFetch(c) => used' \in Int
           /\ ReleaseAdmission(c) => grant' \in [Conns -> GrantTypes]
<1>1. sessions[c] \in SessionType
  BY DEF StateTypes
<1>2. ASSUME CancelAttempt(c)
      PROVE  /\ PoolStep
             /\ attempts' \in [DOMAIN attempts' -> Conns] /\ DOMAIN attempts' \subseteq AttemptIds
  <2>1. CASE sessions[c].attempt = 0
    BY <1>2, <2>1 DEF CancelAttempt, PoolStep, StateTypes
  <2>2. CASE sessions[c].attempt # 0
    <3>1. sessions[c].attempt \in AttemptIds
      BY <1>1, <2>2, LoginAssumption DEF SessionType, AttemptIds, LoginAssumption
    <3>2. PoolStep
      BY <1>2, <2>2, <3>1 DEF CancelAttempt, PoolStep
    <3> QED BY <1>2, <2>2, <3>2 DEF CancelAttempt, Without, StateTypes
  <2> QED BY <2>1, <2>2
<1>3. ReleaseFetch(c) => used' \in Int
  BY DEF ReleaseFetch, StateTypes
<1>4. ReleaseAdmission(c) => grant' \in [Conns -> GrantTypes]
  BY DEF ReleaseAdmission, StateTypes, GrantTypes
<1> QED BY <1>2, <1>3, <1>4

(* The handlers of a frame keep the types of the state. *)
LEMMA ScheduleTypes ==
    ASSUME StateTypes, NEW c \in Conns, NEW kind \in {"Close", "Decline"}, Schedule(c, kind)
    PROVE  StateTypes' /\ PoolStep
<1>1. sessions[c] \in SessionType
  BY DEF StateTypes
<1>2. sessions' \in [Conns -> SessionType]
  BY <1>1, SessionUpdates, SessionSet DEF Schedule
<1> QED BY <1>2, ReleaseTypes DEF Schedule, ReleaseAll, StateTypes

LEMMA ClosedTypes ==
    ASSUME StateTypes, NEW c \in Conns, ApplyClosed(c)
    PROVE  StateTypes' /\ PoolStep
<1>1. sessions[c] \in SessionType
  BY DEF StateTypes
<1>2. sessions' \in [Conns -> SessionType]
  BY <1>1, SessionUpdates, SessionSet DEF ApplyClosed
<1> QED BY <1>2, ReleaseTypes DEF ApplyClosed, ReleaseAll, StateTypes

LEMMA OpenedTypes ==
    ASSUME StateTypes, NEW c \in Conns, ApplyOpened(c)
    PROVE  StateTypes' /\ PoolStep
<1>1. sessions[c] \in SessionType
  BY DEF StateTypes
<1>2. sessions' \in [Conns -> SessionType]
  BY <1>1, SessionUpdates DEF ApplyOpened, StateTypes
<1> QED BY <1>2 DEF ApplyOpened, StateTypes, PoolStep

LEMMA ReserveTypes ==
    ASSUME StateTypes, NEW c \in Conns, Reserve(c)
    PROVE  StateTypes' /\ PoolStep
<1>1. sessions[c] \in SessionType
  BY DEF StateTypes
<1>2. sessions' \in [Conns -> SessionType]
  BY <1>1, SessionUpdates, SessionSet DEF Reserve
<1>3. grant' \in [Conns -> GrantTypes]
  BY DEF Reserve, StateTypes, GrantTypes
<1>4. used' \in Int
  BY DEF Reserve, StateTypes
<1> QED BY <1>2, <1>3, <1>4 DEF Reserve, StateTypes, PoolStep

LEMMA OutcomeTypes ==
    ASSUME StateTypes, NEW c \in Conns, NEW s \in SessionType,
           FetchFailed(c, s) \/ FetchSucceeded(c, s) \/ NotEligible(c, s) \/ Forget(c, s)
    PROVE  /\ sessions' \in [Conns -> SessionType]
           /\ used' \in Int /\ grant' \in [Conns -> GrantTypes]
<1>5. sessions' \in [Conns -> SessionType]
  <2>1. ASSUME NEW t \in SessionType, sessions' = [sessions EXCEPT ![c] = t]
        PROVE  sessions' \in [Conns -> SessionType]
    BY <2>1, SessionSet
  <2>2. CASE FetchFailed(c, s)
    BY <2>1, <2>2, SessionUpdates DEF FetchFailed
  <2>3. CASE FetchSucceeded(c, s)
    BY <2>1, <2>3, SessionUpdates DEF FetchSucceeded
  <2>4. CASE NotEligible(c, s)
    BY <2>1, <2>4, SessionUpdates DEF NotEligible
  <2>5. CASE Forget(c, s)
    BY <2>1, <2>5 DEF Forget
  <2> QED BY <2>2, <2>3, <2>4, <2>5
<1>6. used' \in Int
  BY DEF FetchFailed, FetchSucceeded, NotEligible, Forget, ReleaseFetch, StateTypes
<1>7. grant' \in [Conns -> GrantTypes]
  BY DEF FetchFailed, FetchSucceeded, NotEligible, Forget, ReleaseAdmission, StateTypes,
         GrantTypes
<1> QED BY <1>5, <1>6, <1>7

LEMMA CompletionTypes ==
    ASSUME StateTypes, NEW id \in AttemptIds, ApplyCompletion(id), UNCHANGED <<nextAttempt, health>>
    PROVE  StateTypes'
<1>1. attempts' \in [DOMAIN attempts' -> Conns] /\ DOMAIN attempts' \subseteq AttemptIds
  BY DEF ApplyCompletion, Without, StateTypes
<1>2. CASE UNCHANGED <<sessions, used, grant>>
  BY <1>1, <1>2 DEF StateTypes
<1>3. CASE id \in DOMAIN attempts /\ ~UNCHANGED <<sessions, used, grant>>
  <2> DEFINE c == attempts[id]
             s == [sessions[c] EXCEPT !.attempt = 0]
  <2>1. c \in Conns
    BY <1>3 DEF StateTypes
  <2>2. s \in SessionType
    BY <2>1, SessionUpdates DEF StateTypes
  <2>3. FetchFailed(c, s) \/ FetchSucceeded(c, s) \/ NotEligible(c, s) \/ Forget(c, s)
    BY <1>3 DEF ApplyCompletion
  <2> HIDE DEF c, s
  <2>4. /\ sessions' \in [Conns -> SessionType]
        /\ used' \in Int /\ grant' \in [Conns -> GrantTypes]
    BY <2>1, <2>2, <2>3, OutcomeTypes
  <2> QED BY <1>1, <2>4 DEF StateTypes
<1> QED BY <1>2, <1>3 DEF ApplyCompletion

LEMMA TimeoutTypes ==
    ASSUME StateTypes, NEW c \in Conns, TimeoutFetch(c)
    PROVE  StateTypes' /\ PoolStep
<1> DEFINE s == [sessions[c] EXCEPT !.attempt = 0]
<1>1. s \in SessionType
  BY SessionUpdates DEF StateTypes
<1>2. FetchFailed(c, s) /\ CancelAttempt(c) /\ UNCHANGED <<nextAttempt, health>>
  BY DEF TimeoutFetch
<1> HIDE DEF s
<1>3. /\ sessions' \in [Conns -> SessionType]
      /\ used' \in Int /\ grant' \in [Conns -> GrantTypes]
  BY <1>1, <1>2, OutcomeTypes
<1> QED BY <1>2, <1>3, ReleaseTypes DEF StateTypes

LEMMA SubmitTypes ==
    ASSUME StateTypes, NEW c \in Conns, SubmitFetch(c)
    PROVE  StateTypes' /\ PoolStep
<1>1. nextAttempt \in AttemptIds /\ nextAttempt' \in 1..(MaxAttempts + 1)
  BY LoginAssumption DEF SubmitFetch, StateTypes, AttemptIds, LoginAssumption
<1>2. [sessions[c] EXCEPT !.attempt = nextAttempt] \in SessionType
  BY <1>1 DEF StateTypes, SessionType, AttemptIds
<1>3. sessions' \in [Conns -> SessionType]
  BY <1>2, SessionSet DEF SubmitFetch
<1>4. attempts' \in [DOMAIN attempts' -> Conns] /\ DOMAIN attempts' \subseteq AttemptIds
  BY <1>1 DEF SubmitFetch, StateTypes
<1>5. PoolStep
  BY <1>1 DEF SubmitFetch, PoolStep
<1> QED BY <1>1, <1>3, <1>4, <1>5 DEF SubmitFetch, StateTypes

(* The steps of the flush. *)
LEMMA FlushTypes ==
    ASSUME StateTypes, NEW c \in Conns,
           \/ FlushEnd(c) \/ FlushAccept(c) \/ FlushAcceptLost(c) \/ FlushHandoff(c)
           \/ FlushNoRealm(c) \/ FlushStopped(c) \/ FlushFull(c) \/ Sweep(c)
    PROVE  StateTypes' /\ PoolStep
<1>1. sessions[c] \in SessionType
  BY DEF StateTypes
<1>2. ASSUME NEW t \in SessionType, sessions' = [sessions EXCEPT ![c] = t]
      PROVE  sessions' \in [Conns -> SessionType]
  BY <1>2, SessionSet
<1>3. CASE FlushEnd(c)
  <2>1. sessions' \in [Conns -> SessionType]
    <3> DEFINE g == FlushKind # "Close" /\ sessions[c].grace
    <3>1. g \in BOOLEAN
      BY <1>1 DEF SessionType
    <3> HIDE DEF g
    <3>2. [sessions[c] EXCEPT !.closing = TRUE, !.intent = "None", !.grace = g] \in SessionType
      BY <1>1, <3>1, SessionUpdates
    <3> QED BY <1>2, <1>3, <3>2 DEF FlushEnd, g
  <2> QED BY <1>3, <2>1 DEF FlushEnd, StateTypes, PoolStep
<1>4. CASE FlushAccept(c)
  <2>1. sessions' \in [Conns -> SessionType]
    BY <1>1, <1>2, <1>4, SessionUpdates DEF FlushAccept
  <2>2. grant' \in [Conns -> GrantTypes]
    BY <1>4 DEF FlushAccept, StateTypes, GrantTypes
  <2> QED BY <1>4, <2>1, <2>2 DEF FlushAccept, StateTypes, PoolStep
<1>5. CASE FlushAcceptLost(c)
  <2>1. sessions' \in [Conns -> SessionType]
    BY <1>1, <1>2, <1>5, SessionUpdates DEF FlushAcceptLost
  <2>2. grant' \in [Conns -> GrantTypes]
    BY <1>5 DEF FlushAcceptLost, StateTypes, GrantTypes
  <2>3. used' \in Int
    BY <1>5, ReleaseTypes DEF FlushAcceptLost
  <2> QED BY <1>5, <2>1, <2>2, <2>3 DEF FlushAcceptLost, StateTypes, PoolStep
<1>6. CASE FlushHandoff(c)
  <2>1. sessions' \in [Conns -> SessionType]
    BY <1>1, <1>2, <1>6, SessionUpdates DEF FlushHandoff
  <2> QED BY <1>6, <2>1 DEF FlushHandoff, StateTypes, PoolStep
<1>7. CASE FlushNoRealm(c)
  BY <1>7, ScheduleTypes DEF FlushNoRealm
<1>8. CASE FlushStopped(c)
  <2>1. sessions' = [sessions EXCEPT ![c] = [sessions[c] EXCEPT !.held = FALSE]]
    BY <1>8 DEF FlushStopped
  <2>2. sessions' \in [Conns -> SessionType]
    BY <1>1, <1>2, <2>1, SessionUpdates
  <2>3. grant' \in [Conns -> GrantTypes]
    BY <1>8, ReleaseTypes DEF FlushStopped
  <2> QED BY <1>8, <2>2, <2>3 DEF FlushStopped, StateTypes, PoolStep
<1>9. CASE FlushFull(c)
  BY <1>9 DEF FlushFull, state, StateTypes, PoolStep
<1>10. CASE Sweep(c)
  <2>1. sessions' \in [Conns -> SessionType]
    BY <1>1, <1>2, <1>10, SessionUpdates DEF Sweep
  <2> QED BY <1>10, <2>1, ReleaseTypes DEF Sweep, StateTypes
<1> QED BY <1>3, <1>4, <1>5, <1>6, <1>7, <1>8, <1>9, <1>10

LEMMA EdgeSame == ASSUME EdgeTypes, UNCHANGED edge PROVE EdgeTypes'
BY DEF EdgeTypes, edge

LEMMA StateSame == ASSUME StateTypes, UNCHANGED state PROVE StateTypes'
BY DEF StateTypes, state

LEMMA PoolSame == UNCHANGED fetchPool => PoolStep
BY DEF PoolStep

LEMMA EnqueueTypes ==
    ASSUME EdgeTypes, NEW c \in Conns, NEW k, k \in CmdKinds, Enqueue(k, c)
    PROVE  EdgeTypes'
BY ServiceTypes

(* The types hold at the start, *)
LEMMA TypesStart == Init => TypeInv
<1> SUFFICES ASSUME Init PROVE TypeInv
  OBVIOUS
<1>1. EdgeTypes
  BY DEF Init, EdgeInit, EdgeTypes, Stage4
<1>2. PoolTypes
  <2>1. <<>> \in Seq(AttemptIds)
    OBVIOUS
  <2>2. queue = <<>> /\ working = {} /\ done = <<>> /\ cancelled = {} /\ inFlight = 0
        /\ stopped = FALSE
    BY DEF Init, Pool!Init
  <2>3. queue \in Seq(AttemptIds) /\ done \in Seq(AttemptIds)
    BY <2>1, <2>2
  <2>4. working \subseteq AttemptIds /\ cancelled \subseteq AttemptIds
    BY <2>2
  <2>5. inFlight \in Int
    BY <2>2
  <2>6. stopped \in BOOLEAN
    BY <2>2
  <2> QED BY <2>3, <2>4, <2>5, <2>6 DEF PoolTypes
<1>3. StateTypes
  <2>1. sessions \in [Conns -> SessionType]
    <3>1. NoSession \in SessionType
      BY LoginAssumption DEF LoginAssumption, NoSession, SessionType, Stages
    <3> QED BY <3>1 DEF Init
  <2>2. attempts \in [DOMAIN attempts -> Conns] /\ DOMAIN attempts \subseteq AttemptIds
    BY DEF Init
  <2> QED BY <2>1, <2>2, LoginAssumption DEF Init, StateTypes, GrantTypes, LoginAssumption
<1>4. FrameTypes
  BY DEF Init, FrameTypes, Phases
<1> QED BY <1>1, <1>2, <1>3, <1>4 DEF TypeInv

(* are kept by every step of a frame, *)
LEMMA FrameStepTypes ==
    ASSUME TypeInv, Frame
    PROVE  EdgeTypes' /\ StateTypes' /\ FrameTypes' /\ PoolStep
<1>1. CASE BeginFrame
  <2> DEFINE n == IF Len(inbound) < MaxEvents THEN Len(inbound) ELSE MaxEvents
  <2>1. inbound \in Seq(Events) /\ n \in 0..Len(inbound)
    BY LoginAssumption DEF LoginAssumption, TypeInv, EdgeTypes
  <2>2. EdgeTypes'
    BY <1>1, <2>1, ServiceTypes DEF BeginFrame, TypeInv
  <2>3. SubSeq(inbound, 1, n) \in Seq(Events)
    BY <2>1, SeqSub
  <2>4. FrameTypes'
    BY <1>1, <2>3 DEF BeginFrame, TypeInv, FrameTypes, Phases
  <2> QED BY <1>1, <2>2, <2>4, StateSame, PoolSame DEF BeginFrame, TypeInv
<1>2. CASE PreapplyLifecycle
  <2>1. Head(events) \in Events /\ events' \in Seq(Events)
    BY <1>2, SeqTail DEF PreapplyLifecycle, NextEvent, TypeInv, FrameTypes
  <2>2. Head(events).conn \in Conns
    BY <2>1 DEF Events
  <2>3. StateTypes' /\ PoolStep
    BY <1>2, <2>2, OpenedTypes, ClosedTypes, StateSame, PoolSame DEF PreapplyLifecycle, TypeInv
  <2>4. FrameTypes'
    BY <1>2, <2>1 DEF PreapplyLifecycle, NextEvent, TypeInv, FrameTypes
  <2> QED BY <1>2, <2>3, <2>4, EdgeSame DEF PreapplyLifecycle, TypeInv
<1>3. CASE ProcessMessages
  <2>1. Head(events) \in Events /\ events' \in Seq(Events)
    BY <1>3, SeqTail DEF ProcessMessages, NextEvent, TypeInv, FrameTypes
  <2>2. Head(events).conn \in Conns
    BY <2>1 DEF Events
  <2>3. StateTypes' /\ PoolStep
    BY <1>3, <2>2, ScheduleTypes, ReserveTypes, StateSame, PoolSame
       DEF ProcessMessages, HandleMessage, TypeInv
  <2>4. FrameTypes'
    BY <1>3, <2>1 DEF ProcessMessages, NextEvent, TypeInv, FrameTypes
  <2> QED BY <1>3, <2>3, <2>4, EdgeSame DEF ProcessMessages, TypeInv
<1>4. CASE ExpiryDone
  <2>1. FrameTypes'
    BY <1>4 DEF ExpiryDone, TypeInv, PoolTypes, FrameTypes, Phases
  <2>2. PoolStep
    <3>1. Len(done) \in Nat
      BY DEF TypeInv, PoolTypes
    <3> QED BY <1>4, <3>1 DEF ExpiryDone, PoolStep
  <2> QED BY <1>4, <2>1, <2>2, EdgeSame, StateSame DEF ExpiryDone, TypeInv
<1>5. CASE DrainCompletion
  <2>1. Head(comps) \in AttemptIds /\ comps' \in Seq(AttemptIds)
    BY <1>5, SeqTail DEF DrainCompletion, TypeInv, FrameTypes
  <2>2. StateTypes'
    BY <1>5, <2>1, CompletionTypes DEF DrainCompletion, TypeInv
  <2>3. FrameTypes'
    BY <1>5, <2>1 DEF DrainCompletion, TypeInv, FrameTypes
  <2> QED BY <1>5, <2>2, <2>3, EdgeSame, PoolSame DEF DrainCompletion, TypeInv
<1>6. CASE LifecycleDone
  <2>1. FrameTypes'
    BY <1>6 DEF LifecycleDone, TypeInv, FrameTypes, Phases
  <2> QED BY <1>6, <2>1, EdgeSame, StateSame, PoolSame DEF LifecycleDone, TypeInv
<1>7. CASE MessagesDone \/ CompletionsDone \/ TimeoutsDone
  <2>1. FrameTypes'
    BY <1>7 DEF MessagesDone, CompletionsDone, TimeoutsDone, TypeInv, FrameTypes, Phases
  <2> QED BY <1>7, <2>1, EdgeSame, StateSame, PoolSame
          DEF MessagesDone, CompletionsDone, TimeoutsDone, TypeInv
<1>8. CASE SubmitDone \/ FlushDone
  <2>1. FrameTypes'
    BY <1>8 DEF SubmitDone, FlushDone, NextFlush, Open, TypeInv, FrameTypes, Phases, FlushPhases
  <2> QED BY <1>8, <2>1, EdgeSame, StateSame, PoolSame DEF SubmitDone, FlushDone, TypeInv
<1>9. CASE SweepDone
  <2>1. FrameTypes'
    BY <1>9 DEF SweepDone, TypeInv, FrameTypes, Phases
  <2> QED BY <1>9, <2>1, ServiceTypes, StateSame, PoolSame DEF SweepDone, TypeInv
<1>10. ASSUME NEW c \in Conns,
              \/ FlushEnd(c) \/ FlushAccept(c) \/ FlushAcceptLost(c) \/ FlushHandoff(c)
              \/ FlushNoRealm(c) \/ FlushStopped(c) \/ FlushFull(c) \/ Sweep(c)
       PROVE  EdgeTypes' /\ StateTypes' /\ FrameTypes' /\ PoolStep
  <2>1. StateTypes' /\ PoolStep
    BY <1>10, FlushTypes DEF TypeInv
  <2>2. FrameTypes'
    BY <1>10 DEF FlushEnd, FlushAccept, FlushAcceptLost, FlushHandoff, FlushNoRealm,
                 FlushStopped, FlushFull, Sweep, Visited, TypeInv, FrameTypes, Phases, Open
  <2>3. EdgeTypes'
    <3>1. CASE FlushEnd(c)
      BY <3>1, EnqueueTypes DEF FlushEnd, CmdKinds, TypeInv
    <3>2. CASE FlushAccept(c) \/ FlushAcceptLost(c)
      BY <3>2, EnqueueTypes DEF FlushAccept, FlushAcceptLost, CmdKinds, TypeInv
    <3>3. CASE FlushHandoff(c)
      BY <3>3, EnqueueTypes DEF FlushHandoff, CmdKinds, TypeInv
    <3>4. CASE FlushNoRealm(c) \/ FlushStopped(c) \/ FlushFull(c) \/ Sweep(c)
      BY <3>4, EdgeSame DEF FlushNoRealm, FlushStopped, FlushFull, Sweep, TypeInv
    <3> QED BY <1>10, <3>1, <3>2, <3>3, <3>4
  <2> QED BY <2>1, <2>2, <2>3
<1> QED BY <1>1, <1>2, <1>3, <1>4, <1>5, <1>6, <1>7, <1>8, <1>9, <1>10 DEF Frame

(* and by every step. *)
LEMMA TypesKept == ASSUME TypeInv, [Next]_vars PROVE TypeInv'
<1>1. CASE Frame
  BY <1>1, FrameStepTypes, PoolStepTypes DEF TypeInv
<1>2. ASSUME NEW c \in Conns, ExpireHandoff(c) PROVE TypeInv'
  <2>1. StateTypes' /\ PoolTypes'
    BY <1>2, ScheduleTypes, PoolStepTypes DEF ExpireHandoff, TypeInv
  <2> QED BY <1>2, <2>1, EdgeSame DEF ExpireHandoff, TypeInv, FrameTypes, frame
<1>3. ASSUME NEW c \in Conns, TimeoutFetch(c) PROVE TypeInv'
  <2>1. StateTypes' /\ PoolTypes'
    BY <1>3, TimeoutTypes, PoolStepTypes DEF TypeInv
  <2> QED BY <1>3, <2>1, EdgeSame DEF TimeoutFetch, TypeInv, FrameTypes, frame
<1>4. ASSUME NEW c \in Conns, SubmitFetch(c) PROVE TypeInv'
  <2>1. StateTypes' /\ PoolTypes'
    BY <1>4, SubmitTypes, PoolStepTypes DEF TypeInv
  <2> QED BY <1>4, <2>1, EdgeSame DEF SubmitFetch, TypeInv, FrameTypes, frame
<1>5. CASE Shutdown
  <2>1. EdgeTypes' /\ PoolTypes'
    BY <1>5, EdgeSame, PoolSame, PoolStepTypes DEF Shutdown, TypeInv
  <2> QED BY <1>5, <2>1 DEF Shutdown, Open, TypeInv, StateTypes, FrameTypes, Phases
<1>6. CASE StopPool
  <2>1. PoolTypes'
    BY <1>6, PoolStepTypes DEF StopPool, PoolStep, TypeInv
  <2> QED BY <1>6, <2>1, EdgeSame, StateSame DEF StopPool, TypeInv, FrameTypes, frame
<1>7. CASE Io \/ IoFailure
  <2>1. EdgeTypes' /\ PoolTypes'
    BY <1>7, IoTypes, PoolSame, PoolStepTypes DEF Io, IoFailure, TypeInv
  <2> QED BY <1>7, <2>1, StateSame DEF Io, IoFailure, TypeInv, FrameTypes, frame
<1>8. CASE Worker
  <2>1. PoolTypes'
    BY <1>8, PoolStepTypes DEF Worker, PoolStep, TypeInv
  <2> QED BY <1>8, <2>1, EdgeSame, StateSame DEF Worker, TypeInv, FrameTypes, frame
<1>9. CASE UNCHANGED vars
  <2>1. UNCHANGED <<edge, state, frame, fetchPool>>
    BY <1>9 DEF vars
  <2> QED BY <2>1, EdgeSame, StateSame, PoolSame, PoolStepTypes DEF TypeInv, FrameTypes, frame
<1> QED BY <1>1, <1>2, <1>3, <1>4, <1>5, <1>6, <1>7, <1>8, <1>9
        DEF Next, Deadline, Submission

-----------------------------------------------------------------------------
(* Connections and handles.                                                *)

(* Openings in sequences that are appended to, split or shortened. *)
LEMMA OpensAppend ==
    ASSUME NEW s \in Seq(Events), NEW e \in Events, NEW c
    PROVE  /\ Opening(Append(s, e), c) <=> Opening(s, c) \/ (e.kind = "Opened" /\ e.conn = c)
           /\ Once(s, c) /\ ~(Opening(s, c) /\ e.kind = "Opened" /\ e.conn = c)
                => Once(Append(s, e), c)
<1> DEFINE t == Append(s, e)
<1>1. /\ Len(t) = Len(s) + 1 /\ t[Len(s) + 1] = e /\ Len(s) \in Nat
      /\ \A i \in 1..Len(s) : t[i] = s[i]
  OBVIOUS
<1> HIDE DEF t
<1>2. \A i : i \in Opens(t, c) <=>
        i \in Opens(s, c) \/ (i = Len(s) + 1 /\ e.kind = "Opened" /\ e.conn = c)
  BY <1>1 DEF Opens
<1> QED BY <1>2 DEF Opening, Once, t

(* Opened events of a tail, *)
LEMMA OpensTail ==
    ASSUME NEW s \in Seq(Events), s # <<>>, NEW c
    PROVE  /\ Opening(Tail(s), c) => Opening(s, c)
           /\ Head(s).kind = "Opened" /\ Head(s).conn = c => Opening(s, c)
           /\ Once(s, c) => /\ Once(Tail(s), c)
                            /\ ~(Opening(Tail(s), c) /\ Head(s).kind = "Opened" /\ Head(s).conn = c)
<1> DEFINE t == Tail(s)
<1>1. /\ Len(s) \in Nat \ {0} /\ Len(t) = Len(s) - 1 /\ Head(s) = s[1]
      /\ \A i \in 1..Len(t) : t[i] = s[i + 1]
  OBVIOUS
<1> HIDE DEF t
<1>2. \A i \in Opens(t, c) : i \in Nat \ {0} /\ i + 1 \in Opens(s, c)
  BY <1>1 DEF Opens
<1>3. Head(s).kind = "Opened" /\ Head(s).conn = c => 1 \in Opens(s, c)
  BY <1>1 DEF Opens
<1>4. Opening(t, c) => Opening(s, c)
  BY <1>2 DEF Opening
<1>5. ASSUME Once(s, c)
      PROVE  Once(t, c) /\ ~(Opening(t, c) /\ Head(s).kind = "Opened" /\ Head(s).conn = c)
  <2>1. Once(t, c)
    BY <1>2, <1>5 DEF Once
  <2>2. ASSUME Opening(t, c), Head(s).kind = "Opened", Head(s).conn = c PROVE FALSE
    <3>1. PICK i \in Opens(t, c) : TRUE
      BY <2>2 DEF Opening
    <3>2. i + 1 = 1
      BY <1>2, <1>3, <1>5, <2>2, <3>1 DEF Once
    <3> QED BY <1>2, <3>1, <3>2
  <2> QED BY <2>1, <2>2
<1> QED BY <1>3, <1>4, <1>5 DEF Opening, t

LEMMA OpensSplit ==
    ASSUME NEW s \in Seq(Events), NEW n \in 0..Len(s), NEW c
    PROVE  LET a == SubSeq(s, 1, n)
               b == SubSeq(s, n + 1, Len(s)) IN
           /\ Opening(a, c) \/ Opening(b, c) => Opening(s, c)
           /\ Once(s, c) => Once(a, c) /\ Once(b, c) /\ ~(Opening(a, c) /\ Opening(b, c))
<1> DEFINE a == SubSeq(s, 1, n)
           b == SubSeq(s, n + 1, Len(s))
<1>1. Len(a) = n /\ \A i \in 1..n : a[i] = s[i]
  BY SeqSub
<1>2. Len(b) = Len(s) - n /\ \A i \in 1..Len(s) - n : b[i] = s[n + i]
  BY SeqSub
<1>3. Len(s) \in Nat
  OBVIOUS
<1> HIDE DEF a, b
<1>4. \A i \in Opens(a, c) : i \in 1..n /\ i \in Opens(s, c)
  BY <1>1, <1>3 DEF Opens
<1>5. \A i \in Opens(b, c) : i \in Nat \ {0} /\ n + i \in Opens(s, c)
  BY <1>2, <1>3 DEF Opens
<1>6. Opening(a, c) \/ Opening(b, c) => Opening(s, c)
  BY <1>4, <1>5 DEF Opening
<1>7. ASSUME Once(s, c)
      PROVE  Once(a, c) /\ Once(b, c) /\ ~(Opening(a, c) /\ Opening(b, c))
  <2>1. Once(a, c)
    BY <1>4, <1>7 DEF Once
  <2>2. Once(b, c)
    BY <1>5, <1>7 DEF Once
  <2>3. ASSUME Opening(a, c), Opening(b, c) PROVE FALSE
    <3>1. PICK i \in Opens(a, c), j \in Opens(b, c) : TRUE
      BY <2>3 DEF Opening
    <3>2. i = n + j
      BY <1>4, <1>5, <1>7, <3>1 DEF Once
    <3> QED BY <1>4, <1>5, <3>1, <3>2
  <2> QED BY <2>1, <2>2, <2>3
<1> QED BY <1>6, <1>7 DEF a, b

(* and of an empty sequence. *)
LEMMA OpensEmpty == \A c : ~Opening(<<>>, c) /\ Once(<<>>, c)
BY DEF Opening, Once, Opens

(* Every connection is opened once. *)
OpensInv == \A c \in Conns : OpenedOnce(table[c], batch, inbound, Waiting, c)

(* Publishing an event that opens nothing. *)
LEMMA PublishOpens ==
    ASSUME EdgeTypes, NEW e \in Events, NEW tbl \in [Conns -> Stage4], Publish(e, tbl)
    PROVE  \A c \in Conns :
             /\ Opening(inbound', c) => Opening(inbound, c) \/ (e.kind = "Opened" /\ e.conn = c)
             /\ Once(inbound, c) /\ ~(Opening(inbound, c) /\ e.kind = "Opened" /\ e.conn = c)
                  => Once(inbound', c)
             /\ table'[c] = "new" => tbl[c] = "new"
<1> TAKE c \in Conns
<1>1. inbound' = inbound \/ inbound' = Append(inbound, e)
  BY DEF Publish, Push
<1>2. table'[c] = "new" => tbl[c] = "new"
  BY DEF Publish
<1>3. CASE inbound' = inbound
  BY <1>2, <1>3
<1>4. CASE inbound' = Append(inbound, e)
  <2>1. inbound \in Seq(Events)
    BY DEF EdgeTypes
  <2>2. /\ Opening(Append(inbound, e), c) <=> Opening(inbound, c) \/ (e.kind = "Opened" /\ e.conn = c)
        /\ Once(inbound, c) /\ ~(Opening(inbound, c) /\ e.kind = "Opened" /\ e.conn = c)
             => Once(Append(inbound, e), c)
    BY <2>1, OpensAppend
  <2> QED BY <1>2, <1>4, <2>2
<1> QED BY <1>1, <1>3, <1>4

(* Closing opens nothing. *)
LEMMA CloseOpens ==
    ASSUME EdgeTypes, NEW d \in Conns, FinishClose(d)
    PROVE  \A c \in Conns :
             /\ Opening(inbound', c) => Opening(inbound, c)
             /\ Once(inbound, c) => Once(inbound', c)
             /\ table'[c] = "new" => table[c] = "new"
<1> DEFINE e == Event("Closed", d, table[d] = "established")
           t == [table EXCEPT ![d] = "gone"]
<1>1. e \in Events /\ e.kind = "Closed"
  BY EventType DEF EventKinds, Event
<1>2. t \in [Conns -> Stage4] /\ \A c \in Conns : t[c] = "new" => table[c] = "new"
  BY DEF EdgeTypes, Stage4
<1>3. Publish(e, t)
  BY DEF FinishClose
<1> HIDE DEF e, t
<1> QED BY <1>1, <1>2, <1>3, PublishOpens

(* A step of the I/O loop opens a connection at most once. *)
LEMMA IoOpens ==
    ASSUME EdgeTypes, OpensInv, IoCycle \/ IoFails, UNCHANGED Waiting
    PROVE  \A c \in Conns :
             /\ OpenedOnce(table'[c], batch', inbound', Waiting', c)
             /\ Fresh(table'[c], batch', inbound', Waiting', c)
                  => Fresh(table[c], batch, inbound, Waiting, c)
<1> USE DEF OpensInv, OpenedOnce, Fresh
<1> TAKE c \in Conns
<1>1. CASE UNCHANGED <<table, batch, inbound>>
  BY <1>1
<1>2. CASE IoFails
  BY <1>2, OpensEmpty DEF IoFails
<1>3. CASE ProcessCommand
  <2> DEFINE d == Head(todo).conn
  <2>1. d \in Conns /\ UNCHANGED batch
    <3>1. Head(todo) \in Commands
      BY <1>3, SeqTail DEF ProcessCommand, EdgeTypes
    <3> QED BY <1>3, <3>1 DEF ProcessCommand, Commands
  <2>2. CASE NoEvent
    BY <2>1, <2>2, <1>1 DEF NoEvent
  <2>3. CASE FinishClose(d)
    BY <2>1, <2>3, CloseOpens
  <2>4. CASE Publish(Event("Established", d, TRUE), [table EXCEPT ![d] = "established"])
    <3> DEFINE e == Event("Established", d, TRUE)
               t == [table EXCEPT ![d] = "established"]
    <3>1. e \in Events /\ e.kind = "Established"
      BY <2>1, EventType DEF EventKinds, Event
    <3>2. t \in [Conns -> Stage4] /\ (t[c] = "new" => table[c] = "new")
      BY <2>1 DEF EdgeTypes, Stage4
    <3>3. Publish(e, t)
      BY <2>4
    <3> HIDE DEF e, t
    <3> QED BY <2>1, <3>1, <3>2, <3>3, PublishOpens
  <2> HIDE DEF d
  <2> QED BY <1>3, <2>2, <2>3, <2>4
          DEF ProcessCommand, ProcessSend, ProcessAccept, ProcessClose, d
<1>4. CASE Poll
  <2>1. PICK d \in Conns :
          PollOpened(d) \/ PollMessage(d) \/ PollClosed(d) \/ PollMoved(d) \/ PollLost(d)
    BY <1>4 DEF Poll
  <2>2. ASSUME NEW k \in EventKinds, NEW b \in BOOLEAN, Collect(Event(k, d, b))
        PROVE  /\ Opening(batch', c) => Opening(batch, c) \/ (k = "Opened" /\ d = c)
               /\ Once(batch, c) /\ ~(Opening(batch, c) /\ k = "Opened" /\ d = c)
                    => Once(batch', c)
    <3>1. Event(k, d, b) \in Events /\ Event(k, d, b).kind = k /\ Event(k, d, b).conn = d
      BY EventType DEF Event
    <3> QED BY <2>2, <3>1, OpensAppend DEF Collect, EdgeTypes
  <2>3. CASE PollOpened(d)
    <3>1. /\ Opening(batch', c) => Opening(batch, c) \/ d = c
          /\ Once(batch, c) /\ ~(Opening(batch, c) /\ d = c) => Once(batch', c)
      BY <2>2, <2>3 DEF PollOpened, EventKinds
    <3>2. /\ table[d] = "new" /\ UNCHANGED inbound
          /\ table'[c] = "new" => table[c] = "new" /\ c # d
      BY <2>3 DEF PollOpened, EdgeTypes
    <3> QED BY <3>1, <3>2
  <2>4. CASE PollMessage(d)
    <3>1. /\ Opening(batch', c) => Opening(batch, c)
          /\ Once(batch, c) => Once(batch', c)
      BY <2>2, <2>4 DEF PollMessage, EventKinds
    <3> QED BY <2>4, <3>1 DEF PollMessage
  <2>5. CASE PollMoved(d)
    <3>1. /\ Opening(batch', c) => Opening(batch, c)
          /\ Once(batch, c) => Once(batch', c)
      BY <2>2, <2>5 DEF PollMoved, EventKinds
    <3> QED BY <2>5, <3>1 DEF PollMoved
  <2>6. CASE PollClosed(d)
    <3>1. /\ Opening(batch', c) => Opening(batch, c)
          /\ Once(batch, c) => Once(batch', c)
      BY <2>2, <2>6 DEF PollClosed, EventKinds
    <3>2. UNCHANGED inbound /\ (table'[c] = "new" => table[c] = "new")
      BY <2>6 DEF PollClosed, EdgeTypes
    <3> QED BY <3>1, <3>2
  <2>7. CASE PollLost(d)
    <3>1. FinishClose(d) /\ UNCHANGED batch
      BY <2>7 DEF PollLost
    <3> QED BY <3>1, CloseOpens
  <2> QED BY <2>1, <2>3, <2>4, <2>5, <2>6, <2>7
<1>5. CASE PublishNext
  <2> DEFINE e == Head(batch)
  <2>1. e \in Events /\ batch \in Seq(Events) /\ batch # <<>> /\ batch' = Tail(batch)
    BY <1>5, SeqTail DEF PublishNext, EdgeTypes
  <2>2. /\ Opening(inbound', c) => Opening(inbound, c) \/ (e.kind = "Opened" /\ e.conn = c)
        /\ Once(inbound, c) /\ ~(Opening(inbound, c) /\ e.kind = "Opened" /\ e.conn = c)
             => Once(inbound', c)
        /\ table'[c] = "new" => table[c] = "new"
    BY <1>5, <2>1, PublishOpens DEF PublishNext, EdgeTypes
  <2>3. /\ Opening(batch', c) => Opening(batch, c)
        /\ e.kind = "Opened" /\ e.conn = c => Opening(batch, c)
        /\ Once(batch, c) => /\ Once(batch', c)
                             /\ ~(Opening(batch', c) /\ e.kind = "Opened" /\ e.conn = c)
    BY <2>1, OpensTail
  <2> HIDE DEF e
  <2> QED BY <2>2, <2>3
<1> QED BY <1>1, <1>2, <1>3, <1>4, <1>5
        DEF IoCycle, DrainCommands, CommandsDone, PollDone, CycleDone

Settled == {"committed", "unknown", "released"}

(* What a handler may do to the sessions and grants: every session it changes still fits its grant. *)
HandleStep(d) ==
    /\ Handle(sessions'[d], grant'[d], health')
    /\ grant[d] \in Settled => grant'[d] = grant[d]
    /\ sessions[d].open \/ (~sessions'[d].open /\ grant'[d] = grant[d])
    /\ sessions'[d].held => sessions[d].held \/ health' = "Healthy"

(* Every session fits its grant. *)
Handles == \A c \in Conns : Handle(sessions[c], grant[c], health)

(* Only session c and its grant change, to s and g. *)
LEMMA OneChanges ==
    ASSUME StateTypes, Handles, NEW c \in Conns, NEW s \in SessionType, NEW g \in GrantTypes,
           sessions' = [sessions EXCEPT ![c] = s], grant' = [grant EXCEPT ![c] = g],
           health' = health \/ health' # "Healthy",
           Handle(s, g, health'),
           grant[c] \in Settled => g = grant[c],
           sessions[c].open \/ (~s.open /\ g = grant[c]),
           s.held => sessions[c].held \/ health' = "Healthy"
    PROVE  \A d \in Conns : HandleStep(d)
<1> TAKE d \in Conns
<1>1. CASE d = c
  BY <1>1 DEF HandleStep, StateTypes
<1>2. CASE d # c
  <2>1. sessions'[d] = sessions[d] /\ grant'[d] = grant[d]
    BY <1>2 DEF StateTypes
  <2>2. Handle(sessions[d], grant[d], health)
    BY DEF Handles
  <2>3. Handle(sessions[d], grant[d], health')
    BY <2>2 DEF Handle
  <2>4. sessions[d].open \/ ~sessions[d].open
    OBVIOUS
  <2> QED BY <2>1, <2>3, <2>4 DEF HandleStep
<1> QED BY <1>1, <1>2

(* A step that changes neither. *)
LEMMA NothingChanges ==
    ASSUME Handles, UNCHANGED <<sessions, grant>>, health' = health \/ health' # "Healthy"
    PROVE  \A d \in Conns : HandleStep(d)
BY DEF Handles, Handle, HandleStep

(* The grant that ReleaseAdmission leaves. *)
Left(c) == IF sessions[c].held THEN "released" ELSE grant[c]

(* Erasing a session releases its handle. *)
LEMMA LeftGrant ==
    ASSUME StateTypes, Handles, NEW c \in Conns
    PROVE  /\ ReleaseAdmission(c) => grant' = [grant EXCEPT ![c] = Left(c)]
           /\ grant' = grant => grant' = [grant EXCEPT ![c] = grant[c]]
           /\ Left(c) \in GrantTypes /\ Left(c) # "held" /\ grant[c] \in GrantTypes
           /\ grant[c] \in Settled => Left(c) = grant[c]
           /\ ~sessions[c].held => Left(c) = grant[c]
BY DEF ReleaseAdmission, StateTypes, Handles, Handle, Left, GrantTypes, Settled

(* A scheduled close or decline releases the handle. *)
LEMMA ScheduleStep ==
    ASSUME StateTypes, Handles, NEW c \in Conns, NEW kind \in {"Close", "Decline"},
           sessions[c].open, Schedule(c, kind)
    PROVE  \A d \in Conns : HandleStep(d)
<1> DEFINE s == [sessions[c] EXCEPT !.attempt = 0, !.reserved = FALSE, !.held = FALSE,
                                    !.closing = TRUE, !.intent = kind]
<1>1. s \in SessionType
  BY SessionUpdates DEF StateTypes
<1>2. s.open /\ ~s.held /\ s.closing /\ s.intent = kind /\ s.attempt = 0 /\ ~s.reserved
  BY DEF StateTypes, SessionType
<1>3. sessions' = [sessions EXCEPT ![c] = s] /\ ReleaseAdmission(c) /\ health' = health
  BY DEF Schedule, ReleaseAll
<1> HIDE DEF s
<1>4. Handle(s, Left(c), health')
  BY <1>2, LeftGrant DEF Handle
<1> QED BY <1>1, <1>2, <1>3, <1>4, LeftGrant, OneChanges

(* A closed connection. *)
LEMMA ClosedStep ==
    ASSUME StateTypes, Handles, NEW c \in Conns, ApplyClosed(c)
    PROVE  \A d \in Conns : HandleStep(d)
<1>1. NoSession \in SessionType
  BY LoginAssumption DEF LoginAssumption, NoSession, SessionType, Stages
<1>2. sessions' = [sessions EXCEPT ![c] = NoSession] /\ ReleaseAdmission(c) /\ health' = health
  BY DEF ApplyClosed, ReleaseAll
<1>3. Handle(NoSession, Left(c), health')
  BY LeftGrant DEF Handle, NoSession
<1>4. sessions[c].open \/ (~NoSession.open /\ Left(c) = grant[c])
  BY LeftGrant DEF NoSession, Handles, Handle
<1>5. ~NoSession.held
  BY DEF NoSession
<1> QED BY <1>1, <1>2, <1>3, <1>4, <1>5, LeftGrant, OneChanges

(* A reservation of the budget. *)
LEMMA ReserveStep ==
    ASSUME StateTypes, Handles, NEW c \in Conns, health = "Healthy", Reserve(c),
           sessions[c].open, ~sessions[c].closing, sessions[c].intent = "None",
           sessions[c].stage = "Pending"
    PROVE  \A d \in Conns : HandleStep(d)
<1> DEFINE s == [sessions[c] EXCEPT !.held = TRUE, !.reserved = TRUE, !.intent = "Accept"]
<1>1. s \in SessionType
  BY SessionUpdates DEF StateTypes
<1>2. /\ s.open /\ s.held /\ ~s.closing /\ s.intent = "Accept" /\ s.stage = "Pending"
      /\ s.attempt = sessions[c].attempt
  BY DEF StateTypes, SessionType
<1>3. /\ sessions' = [sessions EXCEPT ![c] = s] /\ grant' = [grant EXCEPT ![c] = "held"]
      /\ health' = health
  BY DEF Reserve
<1>4. grant[c] = "none" /\ sessions[c].attempt = 0
  BY DEF Handles, Handle
<1> HIDE DEF s
<1>5. Handle(s, "held", health')
  BY <1>2, <1>4 DEF Handle
<1>6. "held" \in GrantTypes /\ grant[c] \notin Settled
  BY <1>4 DEF GrantTypes, Settled
<1> QED BY <1>1, <1>2, <1>3, <1>5, <1>6, OneChanges

(* What becomes of a session whose fetch ended. *)
LEMMA OutcomeStep ==
    ASSUME StateTypes, Handles, NEW c \in Conns, health' = health,
           sessions[c].attempt # 0,
           LET s == [sessions[c] EXCEPT !.attempt = 0] IN
             \/ FetchFailed(c, s) \/ FetchSucceeded(c, s) \/ NotEligible(c, s)
             \/ Forget(c, s)
    PROVE  \A d \in Conns : HandleStep(d)
<1> DEFINE s == [sessions[c] EXCEPT !.attempt = 0]
<1>1. /\ s \in SessionType /\ s.attempt = 0 /\ s.open = sessions[c].open
      /\ s.closing = sessions[c].closing /\ s.intent = sessions[c].intent
      /\ s.stage = sessions[c].stage /\ s.held = sessions[c].held
      /\ s.reserved = sessions[c].reserved
  <2>1. sessions[c] \in SessionType
    BY DEF StateTypes
  <2>2. s \in SessionType
    BY <2>1, SessionUpdates
  <2> QED BY <2>1, <2>2 DEF SessionType
<1>2. s.open /\ ~s.held /\ s.stage # "Pending" /\ s.intent # "Accept"
  BY <1>1 DEF Handles, Handle
<1>3. FetchFailed(c, s) \/ FetchSucceeded(c, s) \/ NotEligible(c, s) \/ Forget(c, s)
  OBVIOUS
<1>4. ~sessions[c].held /\ sessions[c].open
  BY <1>1, <1>2
<1> HIDE DEF s
<1>5. ASSUME NEW t \in SessionType, sessions' = [sessions EXCEPT ![c] = t],
             t.open, ~t.held, t.stage # "Pending", t.intent # "Accept", t.attempt = 0,
             ReleaseAdmission(c) \/ grant' = grant
      PROVE  \A d \in Conns : HandleStep(d)
  <2>1. grant' = [grant EXCEPT ![c] = grant[c]] /\ grant[c] \in GrantTypes /\ grant[c] # "held"
    BY <1>4, <1>5, LeftGrant DEF Handles, Handle
  <2>2. Handle(t, grant[c], health')
    BY <1>5, <2>1 DEF Handle
  <2> QED BY <1>4, <1>5, <2>1, <2>2, OneChanges
<1>6. CASE FetchFailed(c, s)
  <2>1. CASE s.failures + 1 <= RetryMax
    <3> DEFINE t == [s EXCEPT !.failures = s.failures + 1]
    <3>1. t \in SessionType
      BY <1>1, SessionUpdates
    <3>2. t.open /\ ~t.held /\ t.stage # "Pending" /\ t.intent # "Accept" /\ t.attempt = 0
      BY <1>1, <1>2 DEF SessionType
    <3>3. sessions' = [sessions EXCEPT ![c] = t] /\ grant' = grant
      BY <1>6, <2>1 DEF FetchFailed
    <3> HIDE DEF t
    <3> QED BY <1>5, <3>1, <3>2, <3>3
  <2>2. CASE ~(s.failures + 1 <= RetryMax)
    <3> DEFINE t == [s EXCEPT !.failures = s.failures + 1, !.reserved = FALSE, !.held = FALSE,
                              !.closing = TRUE, !.intent = "Decline"]
    <3>1. t \in SessionType
      BY <1>1, SessionUpdates
    <3>2. t.open /\ ~t.held /\ t.stage # "Pending" /\ t.intent # "Accept" /\ t.attempt = 0
      BY <1>1, <1>2 DEF SessionType
    <3>3. sessions' = [sessions EXCEPT ![c] = t] /\ ReleaseAdmission(c)
      BY <1>6, <2>2 DEF FetchFailed
    <3> HIDE DEF t
    <3> QED BY <1>5, <3>1, <3>2, <3>3
  <2> QED BY <2>1, <2>2
<1>7. CASE FetchSucceeded(c, s)
  <2> DEFINE t == [s EXCEPT !.reserved = FALSE, !.intent = "Handoff"]
  <2>1. t \in SessionType
    BY <1>1, SessionUpdates
  <2>2. t.open /\ ~t.held /\ t.stage # "Pending" /\ t.intent # "Accept" /\ t.attempt = 0
    BY <1>1, <1>2 DEF SessionType
  <2>3. sessions' = [sessions EXCEPT ![c] = t] /\ grant' = grant
    BY <1>7 DEF FetchSucceeded
  <2> HIDE DEF t
  <2> QED BY <1>5, <2>1, <2>2, <2>3
<1>8. CASE NotEligible(c, s)
  <2> DEFINE t == [s EXCEPT !.reserved = FALSE, !.held = FALSE, !.closing = TRUE,
                            !.intent = "Decline"]
  <2>1. t \in SessionType
    BY <1>1, SessionUpdates
  <2>2. t.open /\ ~t.held /\ t.stage # "Pending" /\ t.intent # "Accept" /\ t.attempt = 0
    BY <1>1, <1>2 DEF SessionType
  <2>3. sessions' = [sessions EXCEPT ![c] = t] /\ ReleaseAdmission(c)
    BY <1>8 DEF NotEligible
  <2> HIDE DEF t
  <2> QED BY <1>5, <2>1, <2>2, <2>3
<1>9. CASE Forget(c, s)
  BY <1>1, <1>2, <1>5, <1>9 DEF Forget
<1> QED BY <1>3, <1>6, <1>7, <1>8, <1>9

(* An attempt submitted to the pool. *)
LEMMA SubmitStep ==
    ASSUME StateTypes, Handles, NEW c \in Conns, SubmitFetch(c)
    PROVE  \A d \in Conns : HandleStep(d)
<1> DEFINE s == [sessions[c] EXCEPT !.attempt = nextAttempt]
<1>1. nextAttempt \in AttemptIds
  BY LoginAssumption DEF SubmitFetch, StateTypes, AttemptIds, LoginAssumption
<1>2. sessions[c] \in SessionType /\ sessions[c].open /\ sessions[c].stage = "Fetching"
  BY DEF SubmitFetch, Submittable, StateTypes
<1>3. s \in SessionType
  BY <1>1, <1>2 DEF SessionType, AttemptIds
<1>4. /\ s.open = sessions[c].open /\ s.closing = sessions[c].closing
      /\ s.intent = sessions[c].intent /\ s.stage = sessions[c].stage
      /\ s.held = sessions[c].held /\ s.reserved = sessions[c].reserved
  BY <1>2 DEF SessionType
<1>5. sessions' = [sessions EXCEPT ![c] = s] /\ UNCHANGED <<grant, health>>
  BY DEF SubmitFetch
<1>6. Handle(sessions[c], grant[c], health) /\ grant[c] \in GrantTypes
  BY DEF Handles, StateTypes
<1> HIDE DEF s
<1>7. Handle(s, grant[c], health')
  BY <1>2, <1>4, <1>5, <1>6 DEF Handle
<1>8. grant' = [grant EXCEPT ![c] = grant[c]]
  BY <1>5, LeftGrant
<1> QED BY <1>2, <1>3, <1>4, <1>5, <1>6, <1>7, <1>8, OneChanges

(* An intent flushed: commit, or decline or close. *)
LEMMA FlushStep ==
    ASSUME StateTypes, Handles, NEW c \in Conns, health = "Healthy",
           \/ FlushEnd(c) \/ FlushAccept(c) \/ FlushAcceptLost(c) \/ FlushHandoff(c)
           \/ FlushNoRealm(c) \/ FlushStopped(c) \/ FlushFull(c)
    PROVE  \A d \in Conns : HandleStep(d)
<1>1. sessions[c] \in SessionType /\ Handle(sessions[c], grant[c], health) /\ grant[c] \in GrantTypes
  BY DEF StateTypes, Handles
<1>2. Flushing(c) /\ sessions[c].open /\ sessions[c].intent = FlushKind
  BY DEF FlushEnd, FlushAccept, FlushAcceptLost, FlushHandoff, FlushNoRealm, FlushStopped,
         FlushFull, Flushing, ToFlush
<1>3. FlushKind # "None"
  BY <1>2 DEF Flushing, FlushPhases, FlushKind
<1>4. CASE FlushEnd(c)
  <2> DEFINE g == FlushKind # "Close" /\ sessions[c].grace
             s == [sessions[c] EXCEPT !.closing = TRUE, !.intent = "None", !.grace = g]
  <2>1. g \in BOOLEAN
    BY <1>1 DEF SessionType
  <2>2. sessions' = [sessions EXCEPT ![c] = s] /\ UNCHANGED <<grant, health>>
    BY <1>4 DEF FlushEnd
  <2> HIDE DEF g
  <2>3. s \in SessionType
    BY <1>1, <2>1, SessionUpdates
  <2>4. /\ s.open = sessions[c].open /\ s.closing /\ s.intent = "None"
        /\ s.stage = sessions[c].stage /\ s.held = sessions[c].held /\ s.attempt = sessions[c].attempt
    BY <1>1 DEF SessionType
  <2> HIDE DEF s
  <2>5. ~sessions[c].held
    BY <1>1, <1>2, <1>4 DEF FlushEnd, Handle
  <2>6. Handle(s, grant[c], health')
    BY <1>1, <1>2, <2>2, <2>4, <2>5 DEF Handle
  <2>7. grant' = [grant EXCEPT ![c] = grant[c]]
    BY <2>2, LeftGrant
  <2> QED BY <1>1, <1>2, <2>2, <2>3, <2>4, <2>5, <2>6, <2>7, OneChanges
<1>5. CASE FlushAccept(c)
  <2> DEFINE s == [sessions[c] EXCEPT !.held = FALSE, !.stage = "Fetching", !.intent = "None"]
  <2>1. s \in SessionType
    BY <1>1, SessionUpdates
  <2>2. /\ s.open = sessions[c].open /\ ~s.held /\ s.intent = "None" /\ s.stage = "Fetching"
    BY <1>1 DEF SessionType
  <2>3. /\ sessions' = [sessions EXCEPT ![c] = s] /\ grant' = [grant EXCEPT ![c] = "committed"]
        /\ health' = health
    BY <1>5 DEF FlushAccept
  <2> HIDE DEF s
  <2>4. grant[c] = "held"
    BY <1>1, <1>2, <1>5 DEF FlushAccept, Handle
  <2>5. Handle(s, "committed", health')
    BY <1>1, <1>2, <2>2 DEF Handle
  <2>6. "committed" \in GrantTypes /\ grant[c] \notin Settled
    BY <2>4 DEF GrantTypes, Settled
  <2> QED BY <1>2, <2>1, <2>2, <2>3, <2>5, <2>6, OneChanges
<1>6. CASE FlushAcceptLost(c)
  <2> DEFINE s == [sessions[c] EXCEPT !.held = FALSE, !.reserved = FALSE, !.closing = TRUE,
                                      !.intent = "Close"]
  <2>1. s \in SessionType
    BY <1>1, SessionUpdates
  <2>2. /\ s.open = sessions[c].open /\ ~s.held /\ s.intent = "Close" /\ s.closing
        /\ s.stage = sessions[c].stage /\ s.attempt = sessions[c].attempt
    BY <1>1 DEF SessionType
  <2>3. /\ sessions' = [sessions EXCEPT ![c] = s] /\ grant' = [grant EXCEPT ![c] = "unknown"]
        /\ health' = health
    BY <1>6 DEF FlushAcceptLost
  <2> HIDE DEF s
  <2>4. grant[c] = "held"
    BY <1>1, <1>2, <1>6 DEF FlushAcceptLost, Handle
  <2>5. Handle(s, "unknown", health')
    BY <1>1, <1>2, <2>2 DEF Handle
  <2>6. "unknown" \in GrantTypes /\ grant[c] \notin Settled
    BY <2>4 DEF GrantTypes, Settled
  <2> QED BY <1>2, <2>1, <2>2, <2>3, <2>5, <2>6, OneChanges
<1>7. CASE FlushHandoff(c)
  <2> DEFINE s == [sessions[c] EXCEPT !.stage = "HandedOff", !.grace = TRUE, !.intent = "None"]
  <2>1. s \in SessionType
    BY <1>1, SessionUpdates
  <2>2. /\ s.open = sessions[c].open /\ s.closing = sessions[c].closing /\ s.intent = "None"
        /\ s.stage = "HandedOff" /\ s.held = sessions[c].held /\ s.attempt = sessions[c].attempt
        /\ s.reserved = sessions[c].reserved
    BY <1>1 DEF SessionType
  <2>3. sessions' = [sessions EXCEPT ![c] = s] /\ UNCHANGED <<grant, health>>
    BY <1>7 DEF FlushHandoff
  <2> HIDE DEF s
  <2>4. ~sessions[c].held
    BY <1>1, <1>2, <1>7 DEF FlushHandoff, Handle
  <2>5. Handle(s, grant[c], health')
    BY <1>1, <1>2, <2>2, <2>4 DEF Handle
  <2>6. grant' = [grant EXCEPT ![c] = grant[c]]
    BY <2>3, LeftGrant
  <2> QED BY <1>1, <1>2, <2>1, <2>2, <2>3, <2>4, <2>5, <2>6, OneChanges
<1>8. CASE FlushNoRealm(c)
  BY <1>2, <1>8, ScheduleStep DEF FlushNoRealm
<1>9. CASE FlushStopped(c)
  <2> DEFINE s == [sessions[c] EXCEPT !.held = FALSE]
  <2>1. s \in SessionType
    BY <1>1, SessionUpdates
  <2>2. /\ s.open = sessions[c].open /\ s.closing = sessions[c].closing /\ ~s.held
        /\ s.intent = sessions[c].intent
        /\ s.stage = sessions[c].stage /\ s.attempt = sessions[c].attempt
        /\ s.reserved = sessions[c].reserved
    BY <1>1 DEF SessionType
  <2>3. /\ sessions' = [sessions EXCEPT ![c] = s] /\ ReleaseAdmission(c)
        /\ health' = "Unhealthy"
    BY <1>9 DEF FlushStopped
  <2> HIDE DEF s
  <2>4. Handle(s, Left(c), health')
    BY <1>1, <1>2, <1>3, <2>2, <2>3, LeftGrant DEF Handle
  <2> QED BY <1>2, <2>1, <2>2, <2>3, <2>4, LeftGrant, OneChanges
<1>10. CASE FlushFull(c)
  BY <1>10, NothingChanges DEF FlushFull, state
<1> QED BY <1>4, <1>5, <1>6, <1>7, <1>8, <1>9, <1>10

(* The sweep of a stopped pipeline. *)
LEMMA SweepStep ==
    ASSUME StateTypes, Handles, NEW c \in Conns, health # "Healthy", Sweep(c)
    PROVE  \A d \in Conns : HandleStep(d) /\ (sessions'[d].held => d # c)
<1> DEFINE s == [sessions[c] EXCEPT !.attempt = 0, !.held = FALSE]
<1>1. sessions[c] \in SessionType /\ Handle(sessions[c], grant[c], health) /\ grant[c] \in GrantTypes
  BY DEF StateTypes, Handles
<1>2. s \in SessionType
  BY <1>1, SessionUpdates
<1>3. /\ s.open = sessions[c].open /\ s.closing = sessions[c].closing /\ ~s.held
      /\ s.intent = sessions[c].intent
      /\ s.stage = sessions[c].stage /\ s.attempt = 0
      /\ s.reserved = sessions[c].reserved
  BY <1>1 DEF SessionType
<1>4. sessions' = [sessions EXCEPT ![c] = s] /\ ReleaseAdmission(c) /\ health' = health
  BY DEF Sweep
<1> HIDE DEF s
<1>5. Handle(s, Left(c), health')
  BY <1>1, <1>3, <1>4, LeftGrant DEF Handle
<1>6. sessions[c].open \/ (~s.open /\ Left(c) = grant[c])
  BY <1>1, <1>3, LeftGrant DEF Handle
<1>7. \A d \in Conns : HandleStep(d)
  BY <1>2, <1>3, <1>4, <1>5, <1>6, LeftGrant, OneChanges
<1>8. ~sessions'[c].held
  BY <1>3, <1>4 DEF StateTypes
<1> QED BY <1>7, <1>8

(* The handle invariant holds at the start. *)
LEMMA HandleStart == Init => HandleInv
<1> SUFFICES ASSUME Init PROVE HandleInv
  OBVIOUS
<1>1. \A c \in Conns : ~Opening(batch, c) /\ ~Opening(inbound, c) /\ ~Opening(Waiting, c)
                       /\ Once(batch, c) /\ Once(inbound, c) /\ Once(Waiting, c)
  BY OpensEmpty DEF Init, EdgeInit, Waiting
<1>2. \A c \in Conns : Handle(sessions[c], grant[c], health) /\ ~sessions[c].open
                       /\ grant[c] = "none"
  BY DEF Init, Handle, NoSession
<1> QED BY <1>1, <1>2 DEF Init, HandleInv, OpenedOnce

(* Where a frame may be when the pipeline does not work any more, and who  *)
(* still holds a reservation then.                                         *)
Ending ==
    /\ phase = "sweep" => health # "Healthy"
    /\ health # "Healthy" => phase \in {"idle", "sweep"}
    /\ phase = "sweep" => \A c \in Conns : sessions[c].held => c \in left
    /\ health # "Healthy" /\ phase = "idle" => \A c \in Conns : ~sessions[c].held

(* No connection is opened again. *)
OpensStep ==
    \A c \in Conns :
      /\ OpenedOnce(table'[c], batch', inbound', Waiting', c)
      /\ Fresh(table'[c], batch', inbound', Waiting', c)
           => Fresh(table[c], batch, inbound, Waiting, c)

(* The invariant from its parts. *)
LEMMA InvFrom ==
    ASSUME HandleInv, OpensStep, \A c \in Conns : HandleStep(c), Ending'
    PROVE  /\ HandleInv'
           /\ \A c \in Conns : grant[c] \in Settled => grant'[c] = grant[c]
<1>1. \A c \in Conns : Fresh(table'[c], batch', inbound', Waiting', c) =>
         ~sessions'[c].open /\ grant'[c] = "none"
  BY DEF HandleInv, OpensStep, HandleStep
<1>2. \A c \in Conns : Handle(sessions'[c], grant'[c], health')
  BY DEF HandleStep
<1>3. \A c \in Conns : grant[c] \in Settled => grant'[c] = grant[c]
  BY DEF HandleStep
<1> QED BY <1>1, <1>2, <1>3 DEF HandleInv, OpensStep, Ending

(* A step that moves no event. *)
LEMMA OpensSame ==
    ASSUME HandleInv, UNCHANGED edge \/ UNCHANGED <<table, batch, inbound>>, UNCHANGED Waiting
    PROVE  OpensStep
BY DEF HandleInv, OpensStep, edge

(* A stop opens nothing. *)
LEMMA StopOpens ==
    (StopRuntime \/ \E c \in Conns, k \in CmdKinds : Enqueue(k, c))
       => UNCHANGED <<table, batch, inbound>>
BY DEF StopRuntime, Enqueue

(* A lifecycle event is visited. *)
LEMMA PreapplyStep ==
    ASSUME TypeInv, HandleInv, PreapplyLifecycle
    PROVE  /\ HandleInv'
           /\ \A c \in Conns : grant[c] \in Settled => grant'[c] = grant[c]
<1> DEFINE e == Head(events)
<1>1. e \in Events /\ events \in Seq(Events) /\ events # <<>> /\ events' = Tail(events)
  BY SeqTail DEF PreapplyLifecycle, NextEvent, TypeInv, FrameTypes
<1>2. e.conn \in Conns
  BY <1>1 DEF Events
<1>3. /\ UNCHANGED <<table, batch, inbound>> /\ phase = "lifecycle" /\ phase' = "lifecycle"
      /\ Waiting = events /\ Waiting' = events'
  BY DEF PreapplyLifecycle, NextEvent, Waiting, edge
<1>4. \A c \in Conns :
        /\ Opening(Waiting', c) => Opening(Waiting, c)
        /\ e.kind = "Opened" /\ e.conn = c => Opening(Waiting, c)
        /\ Once(Waiting, c) => /\ Once(Waiting', c)
                               /\ ~(Opening(Waiting', c) /\ e.kind = "Opened" /\ e.conn = c)
  BY <1>1, <1>3, OpensTail
<1>5. OpensStep
  BY <1>3, <1>4 DEF HandleInv, OpenedOnce, Fresh, OpensStep
<1>6. health = "Healthy"
  BY <1>3 DEF HandleInv
<1>7. StateTypes /\ Handles
  BY DEF TypeInv, HandleInv, Handles
<1> HIDE DEF e
<1>8. CASE ApplyClosed(e.conn)
  <2>1. \A c \in Conns : HandleStep(c)
    BY <1>2, <1>7, <1>8, ClosedStep
  <2>2. Ending'
    BY <1>3, <1>6, <1>8 DEF Ending, ApplyClosed
  <2> QED BY <1>5, <2>1, <2>2, InvFrom
<1>9. CASE UNCHANGED <<state, fetchPool>>
  <2>1. \A c \in Conns : HandleStep(c)
    BY <1>7, <1>9, NothingChanges DEF state
  <2>2. Ending'
    BY <1>3, <1>6, <1>9 DEF Ending, state
  <2> QED BY <1>5, <2>1, <2>2, InvFrom
<1>10. CASE e.kind = "Opened" /\ ApplyOpened(e.conn)
  <2>1. grant' = grant /\ health' = "Healthy"
    BY <1>6, <1>10 DEF ApplyOpened
  <2>2. /\ Fresh(table[e.conn], batch, inbound, Waiting, e.conn)
        /\ ~Fresh(table'[e.conn], batch', inbound', Waiting', e.conn)
    <3>1. Opening(Waiting, e.conn) /\ ~Opening(Waiting', e.conn)
      BY <1>2, <1>4, <1>10 DEF HandleInv, OpenedOnce
    <3> QED BY <1>2, <1>3, <3>1 DEF HandleInv, OpenedOnce, Fresh
  <2>3. grant[e.conn] = "none"
    BY <1>2, <2>2 DEF HandleInv
  <2>4. \A c \in Conns : c # e.conn => sessions'[c] = sessions[c]
    BY <1>2, <1>10 DEF ApplyOpened, TypeInv, StateTypes
  <2>5. sessions'[e.conn] = sessions[e.conn] \/ sessions'[e.conn] = NewSession
    BY <1>2, <1>10 DEF ApplyOpened, TypeInv, StateTypes
  <2>6. Handle(NewSession, "none", "Healthy")
    BY DEF Handle, NewSession, NoSession
  <2>7. \A c \in Conns : Handle(sessions'[c], grant'[c], health')
    BY <1>2, <1>6, <1>7, <2>1, <2>3, <2>4, <2>5, <2>6 DEF Handles
  <2>8. \A c \in Conns : Fresh(table'[c], batch', inbound', Waiting', c) =>
           ~sessions'[c].open /\ grant'[c] = "none"
    BY <1>5, <2>1, <2>2, <2>4 DEF OpensStep, HandleInv
  <2> QED BY <1>3, <1>5, <2>1, <2>7, <2>8 DEF HandleInv, OpensStep
<1> QED BY <1>8, <1>9, <1>10 DEF PreapplyLifecycle, e

(* The steps of a frame keep the handle invariant, *)
LEMMA HandleFrame ==
    ASSUME TypeInv, HandleInv, Frame
    PROVE  /\ HandleInv'
           /\ \A c \in Conns : grant[c] \in Settled => grant'[c] = grant[c]
<1>1. StateTypes /\ Handles /\ EdgeTypes /\ FrameTypes
  BY DEF TypeInv, HandleInv, Handles
<1>2. CASE BeginFrame
  <2> DEFINE n == IF Len(inbound) < MaxEvents THEN Len(inbound) ELSE MaxEvents
             a == SubSeq(inbound, 1, n)
             b == SubSeq(inbound, n + 1, Len(inbound))
  <2>1. inbound \in Seq(Events) /\ n \in 0..Len(inbound)
    BY LoginAssumption DEF LoginAssumption, TypeInv, EdgeTypes
  <2>2. \A c \in Conns :
          /\ Opening(a, c) \/ Opening(b, c) => Opening(inbound, c)
          /\ Once(inbound, c) => Once(a, c) /\ Once(b, c) /\ ~(Opening(a, c) /\ Opening(b, c))
    BY <2>1, OpensSplit
  <2>3. /\ Waiting = <<>> /\ Waiting' = a /\ inbound' = b /\ UNCHANGED <<table, batch>>
        /\ health' = "Healthy" /\ phase' = "lifecycle"
    BY <1>2 DEF BeginFrame, TakeEvents, Waiting, state
  <2> HIDE DEF a, b
  <2>4. OpensStep
    BY <2>2, <2>3, OpensEmpty DEF HandleInv, OpenedOnce, Fresh, OpensStep
  <2>5. \A c \in Conns : HandleStep(c)
    BY <1>1, <1>2, NothingChanges DEF BeginFrame, state
  <2>6. Ending'
    BY <2>3 DEF Ending
  <2> QED BY <2>4, <2>5, <2>6, InvFrom
<1>3. CASE PreapplyLifecycle
  BY <1>3, PreapplyStep
<1>4. CASE LifecycleDone
  <2>1. events = <<>> /\ Waiting = <<>> /\ Waiting' = <<>>
    BY <1>4 DEF LifecycleDone, Waiting
  <2>2. OpensStep
    BY <1>4, <2>1, OpensSame DEF LifecycleDone
  <2>3. \A c \in Conns : HandleStep(c)
    BY <1>1, <1>4, NothingChanges DEF LifecycleDone, state
  <2>4. Ending'
    BY <1>4 DEF LifecycleDone, state, Ending, HandleInv
  <2> QED BY <2>2, <2>3, <2>4, InvFrom
<1>5. CASE ProcessMessages
  <2> DEFINE e == Head(events)
  <2>1. e.conn \in Conns
    <3>1. e \in Events
      BY <1>1, <1>5, SeqTail DEF ProcessMessages, FrameTypes
    <3> QED BY <3>1 DEF Events
  <2>2. /\ UNCHANGED edge /\ phase = "messages" /\ phase' = "messages"
    BY <1>5 DEF ProcessMessages, NextEvent
  <2>3. OpensStep
    BY <2>2, OpensSame DEF Waiting
  <2>4. health = "Healthy"
    BY <2>2 DEF HandleInv
  <2>5. /\ \/ UNCHANGED <<state, fetchPool>>
           \/ /\ sessions[e.conn].open /\ ~sessions[e.conn].closing
              /\ sessions[e.conn].intent = "None"
              /\ \/ \E kind \in {"Close", "Decline"} : Schedule(e.conn, kind)
                 \/ sessions[e.conn].stage = "Pending" /\ Reserve(e.conn)
    BY <1>5 DEF ProcessMessages, HandleMessage, Ignored
  <2> HIDE DEF e
  <2>6. \A c \in Conns : HandleStep(c)
    BY <1>1, <2>1, <2>4, <2>5, ScheduleStep, ReserveStep, NothingChanges DEF state
  <2>7. health' = health
    BY <2>5 DEF Schedule, Reserve, state
  <2>8. Ending'
    BY <2>2, <2>4, <2>7 DEF Ending
  <2> QED BY <2>3, <2>6, <2>8, InvFrom
<1>6. CASE MessagesDone \/ ExpiryDone \/ CompletionsDone \/ TimeoutsDone \/ SubmitDone \/ FlushDone
  <2>1. UNCHANGED edge /\ UNCHANGED state /\ phase \notin {"lifecycle", "idle", "sweep"}
    BY <1>6 DEF MessagesDone, ExpiryDone, CompletionsDone, TimeoutsDone, SubmitDone, FlushDone,
                FlushPhases
  <2>2. phase' \notin {"lifecycle", "sweep"}
    BY <1>6 DEF MessagesDone, ExpiryDone, CompletionsDone, TimeoutsDone, SubmitDone, FlushDone,
                FlushPhases, NextFlush
  <2>3. OpensStep
    BY <2>1, <2>2, OpensSame DEF Waiting
  <2>4. \A c \in Conns : HandleStep(c)
    BY <1>1, <2>1, NothingChanges DEF state
  <2>5. Ending'
    BY <2>1, <2>2 DEF Ending, HandleInv, state
  <2> QED BY <2>3, <2>4, <2>5, InvFrom
<1>7. CASE DrainCompletion
  <2> DEFINE id == Head(comps)
  <2>1. id \in AttemptIds
    BY <1>1, <1>7, SeqTail DEF DrainCompletion, FrameTypes
  <2>2. /\ UNCHANGED edge /\ phase = "completions" /\ phase' = "completions" /\ health' = health
        /\ ApplyCompletion(id)
    BY <1>7 DEF DrainCompletion
  <2>3. OpensStep
    BY <2>2, OpensSame DEF Waiting
  <2>4. health = "Healthy"
    BY <2>2 DEF HandleInv
  <2> HIDE DEF id
  <2>5. \A c \in Conns : HandleStep(c)
    <3>1. CASE id \notin DOMAIN attempts \/ sessions[attempts[id]].attempt # id
      BY <1>1, <2>2, <3>1, NothingChanges DEF ApplyCompletion
    <3>2. CASE id \in DOMAIN attempts /\ sessions[attempts[id]].attempt = id
      <4>1. attempts[id] \in Conns /\ sessions[attempts[id]].attempt # 0
        BY <1>1, <2>1, <3>2 DEF StateTypes, AttemptIds
      <4>2. LET s == [sessions[attempts[id]] EXCEPT !.attempt = 0] IN
              \/ FetchFailed(attempts[id], s) \/ FetchSucceeded(attempts[id], s)
              \/ NotEligible(attempts[id], s) \/ Forget(attempts[id], s)
        BY <2>2, <3>2 DEF ApplyCompletion
      <4> QED BY <1>1, <2>2, <4>1, <4>2, OutcomeStep
    <3> QED BY <3>1, <3>2
  <2>6. Ending'
    BY <2>2, <2>4 DEF Ending
  <2> QED BY <2>3, <2>5, <2>6, InvFrom
<1>8. CASE SweepDone
  <2>1. /\ phase = "sweep" /\ left = {} /\ phase' = "idle" /\ UNCHANGED state
        /\ UNCHANGED <<table, batch, inbound>>
    BY <1>8, StopOpens DEF SweepDone
  <2>2. OpensStep
    BY <2>1, OpensSame DEF Waiting
  <2>3. \A c \in Conns : HandleStep(c)
    BY <1>1, <2>1, NothingChanges DEF state
  <2>4. Ending'
    BY <2>1 DEF Ending, HandleInv, state
  <2> QED BY <2>2, <2>3, <2>4, InvFrom
<1>9. ASSUME NEW c \in Conns,
             \/ FlushEnd(c) \/ FlushAccept(c) \/ FlushAcceptLost(c) \/ FlushHandoff(c)
             \/ FlushNoRealm(c) \/ FlushStopped(c) \/ FlushFull(c)
      PROVE  /\ HandleInv'
             /\ \A d \in Conns : grant[d] \in Settled => grant'[d] = grant[d]
  <2>1. phase \in FlushPhases
    BY <1>9 DEF FlushEnd, FlushAccept, FlushAcceptLost, FlushHandoff, FlushNoRealm,
                FlushStopped, FlushFull, Flushing
  <2>2. health = "Healthy"
    BY <2>1 DEF HandleInv, FlushPhases
  <2>3. UNCHANGED <<table, batch, inbound>>
    BY <1>9 DEF FlushEnd, FlushAccept, FlushAcceptLost, FlushHandoff, FlushNoRealm,
                FlushStopped, FlushFull, Enqueue, edge
  <2>4. (phase' = phase /\ health' = health) \/ (FlushStopped(c) /\ phase' = "sweep")
    BY <1>9 DEF FlushEnd, FlushAccept, FlushAcceptLost, FlushHandoff, FlushNoRealm,
                FlushStopped, FlushFull, Visited, Schedule, state
  <2>5. OpensStep
    BY <2>1, <2>3, <2>4, OpensSame DEF Waiting, FlushPhases
  <2>6. \A d \in Conns : HandleStep(d)
    BY <1>1, <1>9, <2>2, FlushStep
  <2>7. Ending'
    <3>1. CASE phase' = phase /\ health' = health
      BY <2>1, <2>2, <3>1 DEF Ending, FlushPhases
    <3>2. CASE FlushStopped(c)
      <4>1. health' = "Unhealthy" /\ phase' = "sweep" /\ left' = Open
        BY <3>2 DEF FlushStopped
      <4>2. \A d \in Conns : sessions'[d].held => sessions[d].held
        BY <2>6, <4>1 DEF HandleStep
      <4>3. \A d \in Conns : sessions[d].held => d \in Open
        BY <1>1 DEF Handles, Handle, Open
      <4> QED BY <4>1, <4>2, <4>3 DEF Ending
    <3> QED BY <2>4, <3>1, <3>2
  <2> QED BY <2>5, <2>6, <2>7, InvFrom
<1>10. ASSUME NEW c \in Conns, Sweep(c)
       PROVE  /\ HandleInv'
              /\ \A d \in Conns : grant[d] \in Settled => grant'[d] = grant[d]
  <2>1. /\ phase = "sweep" /\ phase' = "sweep" /\ health # "Healthy" /\ health' = health
        /\ left' = left \ {c} /\ UNCHANGED edge
    BY <1>10 DEF Sweep, HandleInv
  <2>2. OpensStep
    BY <2>1, OpensSame DEF Waiting
  <2>3. \A d \in Conns : HandleStep(d) /\ (sessions'[d].held => d # c)
    BY <1>1, <1>10, <2>1, SweepStep
  <2>4. Ending'
    BY <2>1, <2>3 DEF Ending, HandleInv, HandleStep
  <2> QED BY <2>2, <2>3, <2>4, InvFrom
<1> QED BY <1>2, <1>3, <1>4, <1>5, <1>6, <1>7, <1>8, <1>9, <1>10 DEF Frame

(* and so does every step. *)
LEMMA HandleKept ==
    ASSUME TypeInv, HandleInv, [Next]_vars
    PROVE  /\ HandleInv'
           /\ \A c \in Conns : grant[c] \in Settled => grant'[c] = grant[c]
<1>1. StateTypes /\ Handles /\ EdgeTypes /\ FrameTypes
  BY DEF TypeInv, HandleInv, Handles
<1>2. CASE Frame
  BY <1>2, HandleFrame
<1>3. ASSUME NEW c \in Conns, ExpireHandoff(c) \/ TimeoutFetch(c) \/ SubmitFetch(c)
      PROVE  /\ HandleInv'
             /\ \A d \in Conns : grant[d] \in Settled => grant'[d] = grant[d]
  <2>1. /\ phase \in {"expiry", "timeouts", "submit"} /\ phase' = phase /\ UNCHANGED edge
        /\ health' = health
    BY <1>3 DEF ExpireHandoff, TimeoutFetch, SubmitFetch, Schedule, frame
  <2>2. OpensStep
    BY <2>1, OpensSame DEF Waiting
  <2>3. Ending'
    BY <2>1 DEF Ending, HandleInv
  <2>4. \A d \in Conns : HandleStep(d)
    <3>1. CASE ExpireHandoff(c)
      BY <1>1, <3>1, ScheduleStep DEF ExpireHandoff
    <3>2. CASE TimeoutFetch(c)
      <4>1. sessions[c].attempt # 0 /\ health' = health
            /\ FetchFailed(c, [sessions[c] EXCEPT !.attempt = 0])
        BY <3>2 DEF TimeoutFetch
      <4> QED BY <1>1, <4>1, OutcomeStep
    <3>3. CASE SubmitFetch(c)
      BY <1>1, <3>3, SubmitStep
    <3> QED BY <1>3, <3>1, <3>2, <3>3
  <2> QED BY <2>2, <2>3, <2>4, InvFrom
<1>4. CASE Shutdown
  <2>1. OpensStep
    BY <1>4, OpensSame DEF Shutdown, Waiting
  <2>2. \A d \in Conns : HandleStep(d)
    BY <1>1, <1>4, NothingChanges DEF Shutdown
  <2>3. Ending'
    BY <1>1, <1>4 DEF Shutdown, Ending, Handles, Handle, Open
  <2> QED BY <2>1, <2>2, <2>3, InvFrom
<1>5. CASE UNCHANGED <<edge, state, frame>>
  <2>1. OpensStep
    BY <1>5, OpensSame DEF Waiting, frame
  <2>2. \A d \in Conns : HandleStep(d)
    BY <1>1, <1>5, NothingChanges DEF state
  <2>3. Ending'
    BY <1>5 DEF state, frame, Ending, HandleInv
  <2> QED BY <2>1, <2>2, <2>3, InvFrom
<1>6. CASE Io \/ IoFailure
  <2>1. UNCHANGED <<state, frame>> /\ (IoCycle \/ IoFails)
    BY <1>6 DEF Io, IoFailure
  <2>2. OpensInv /\ UNCHANGED Waiting
    BY <2>1 DEF HandleInv, OpensInv, Waiting, frame
  <2>3. OpensStep
    BY <1>1, <2>1, <2>2, IoOpens DEF OpensStep
  <2>4. \A d \in Conns : HandleStep(d)
    BY <1>1, <2>1, NothingChanges DEF state
  <2>5. Ending'
    BY <2>1 DEF state, frame, Ending, HandleInv
  <2> QED BY <2>3, <2>4, <2>5, InvFrom
<1>7. StopPool \/ Worker \/ UNCHANGED vars => UNCHANGED <<edge, state, frame>>
  BY DEF StopPool, Worker, vars
<1> QED BY <1>2, <1>3, <1>4, <1>5, <1>6, <1>7 DEF Next, Deadline, Submission

-----------------------------------------------------------------------------
(* The budget.                                                             *)

(* A step that changes one session changes the budget by that session alone. *)
LEMMA OneBudget ==
    ASSUME StateTypes, BudgetInv, NEW c \in Conns, NEW s \in SessionType,
           sessions' = [sessions EXCEPT ![c] = s], Uses(s),
           \/ s.reserved = sessions[c].reserved /\ used' = used
           \/ ~s.reserved /\ ReleaseFetch(c)
           \/ s.reserved /\ ~sessions[c].reserved /\ used < FetchCapacity /\ used' = used + 1
    PROVE  BudgetInv'
<1>1. \A d \in Conns : Uses(sessions'[d])
  BY DEF BudgetInv, StateTypes
<1>2. \A d \in Conns : sessions'[d].reserved <=> IF d = c THEN s.reserved ELSE sessions[d].reserved
  BY DEF StateTypes, SessionType
<1>3. /\ IsFiniteSet(Reserving) /\ used = Cardinality(Reserving) /\ used <= FetchCapacity
      /\ used \in Int /\ FetchCapacity \in Nat
  BY LoginAssumption DEF LoginAssumption, BudgetInv, StateTypes
<1>4. sessions[c].reserved \in BOOLEAN /\ s.reserved \in BOOLEAN
  BY DEF StateTypes, SessionType
<1>5. CASE s.reserved = sessions[c].reserved
  <2>1. Reserving' = Reserving
    BY <1>2, <1>5 DEF Reserving
  <2>2. used' = used
    BY <1>4, <1>5 DEF ReleaseFetch
  <2> QED BY <1>1, <1>3, <2>1, <2>2 DEF BudgetInv
<1>6. CASE ~s.reserved /\ sessions[c].reserved
  <2>1. Reserving' = Reserving \ {c} /\ c \in Reserving
    BY <1>2, <1>6 DEF Reserving
  <2>2. used' = used - 1
    BY <1>6 DEF ReleaseFetch
  <2>3. IsFiniteSet(Reserving') /\ Cardinality(Reserving') = Cardinality(Reserving) - 1
    BY <1>3, <2>1, FS_RemoveElement
  <2> QED BY <1>1, <1>3, <2>2, <2>3 DEF BudgetInv
<1>7. CASE s.reserved /\ ~sessions[c].reserved
  <2>1. Reserving' = Reserving \cup {c} /\ c \notin Reserving
    BY <1>2, <1>7 DEF Reserving
  <2>2. used' = used + 1 /\ used < FetchCapacity
    BY <1>7
  <2>3. IsFiniteSet(Reserving') /\ Cardinality(Reserving') = Cardinality(Reserving) + 1
    BY <1>3, <2>1, FS_AddElement
  <2> QED BY <1>1, <1>3, <2>2, <2>3 DEF BudgetInv
<1> QED BY <1>4, <1>5, <1>6, <1>7

(* A step that leaves both. *)
LEMMA BudgetSame ==
    ASSUME BudgetInv, UNCHANGED <<sessions, used>>
    PROVE  BudgetInv'
BY DEF BudgetInv, Reserving

(* The budget comes out at the start, *)
LEMMA BudgetStart == Init => BudgetInv
<1> SUFFICES ASSUME Init PROVE BudgetInv
  OBVIOUS
<1>1. Reserving = {}
  BY DEF Init, Reserving, NoSession
<1>2. \A c \in Conns : Uses(sessions[c])
  BY DEF Init, Uses, NoSession
<1>3. used = 0
  BY DEF Init
<1> QED BY <1>1, <1>2, <1>3, FS_EmptySet, LoginAssumption DEF BudgetInv, LoginAssumption

(* after a schedule, *)
LEMMA BudgetSchedule ==
    ASSUME StateTypes, BudgetInv, NEW c \in Conns, NEW kind \in {"Close", "Decline"},
           Schedule(c, kind)
    PROVE  BudgetInv'
<1> DEFINE s == [sessions[c] EXCEPT !.attempt = 0, !.reserved = FALSE, !.held = FALSE,
                                    !.closing = TRUE, !.intent = kind]
<1>1. s \in SessionType
  BY SessionUpdates DEF StateTypes
<1>2. s.closing /\ ~s.reserved
  BY DEF StateTypes, SessionType
<1>3. sessions' = [sessions EXCEPT ![c] = s] /\ ReleaseFetch(c)
  BY DEF Schedule, ReleaseAll
<1> HIDE DEF s
<1>4. Uses(s)
  BY <1>2 DEF Uses
<1> QED BY <1>1, <1>2, <1>3, <1>4, OneBudget

(* after the outcome of a fetch, *)
LEMMA BudgetOutcome ==
    ASSUME StateTypes, BudgetInv, NEW c \in Conns,
           LET s == [sessions[c] EXCEPT !.attempt = 0] IN
             \/ FetchFailed(c, s) \/ FetchSucceeded(c, s) \/ NotEligible(c, s)
             \/ Forget(c, s)
    PROVE  BudgetInv'
<1> DEFINE s == [sessions[c] EXCEPT !.attempt = 0]
<1>1. /\ s \in SessionType /\ s.attempt = 0 /\ s.open = sessions[c].open
      /\ s.closing = sessions[c].closing /\ s.intent = sessions[c].intent
      /\ s.stage = sessions[c].stage
      /\ s.reserved = sessions[c].reserved
  <2>1. sessions[c] \in SessionType
    BY DEF StateTypes
  <2>2. s \in SessionType
    BY <2>1, SessionUpdates
  <2> QED BY <2>1, <2>2 DEF SessionType
<1>2. Uses(s)
  BY <1>1 DEF Uses, BudgetInv
<1>3. FetchFailed(c, s) \/ FetchSucceeded(c, s) \/ NotEligible(c, s) \/ Forget(c, s)
  OBVIOUS
<1> HIDE DEF s
<1>4. CASE FetchFailed(c, s)
  <2>1. CASE s.failures + 1 <= RetryMax
    <3> DEFINE t == [s EXCEPT !.failures = s.failures + 1]
    <3>1. t \in SessionType
      BY <1>1, SessionUpdates
    <3>2. /\ t.open = s.open /\ t.closing = s.closing /\ t.intent = s.intent
          /\ t.stage = s.stage /\ t.reserved = s.reserved
      BY <1>1 DEF SessionType
    <3>3. sessions' = [sessions EXCEPT ![c] = t] /\ used' = used
      BY <1>4, <2>1 DEF FetchFailed
    <3> HIDE DEF t
    <3>4. Uses(t)
      BY <1>2, <3>2 DEF Uses
    <3> QED BY <1>1, <3>1, <3>2, <3>3, <3>4, OneBudget
  <2>2. CASE ~(s.failures + 1 <= RetryMax)
    <3> DEFINE t == [s EXCEPT !.failures = s.failures + 1, !.reserved = FALSE, !.held = FALSE,
                              !.closing = TRUE, !.intent = "Decline"]
    <3>1. t \in SessionType
      BY <1>1, SessionUpdates
    <3>2. t.closing /\ ~t.reserved
      BY <1>1 DEF SessionType
    <3>3. sessions' = [sessions EXCEPT ![c] = t] /\ ReleaseFetch(c)
      BY <1>4, <2>2 DEF FetchFailed
    <3> HIDE DEF t
    <3>4. Uses(t)
      BY <3>2 DEF Uses
    <3> QED BY <3>1, <3>2, <3>3, <3>4, OneBudget
  <2> QED BY <2>1, <2>2
<1>5. CASE FetchSucceeded(c, s)
  <2> DEFINE t == [s EXCEPT !.reserved = FALSE, !.intent = "Handoff"]
  <2>1. t \in SessionType
    BY <1>1, SessionUpdates
  <2>2. ~t.reserved /\ t.intent = "Handoff"
    BY <1>1 DEF SessionType
  <2>3. sessions' = [sessions EXCEPT ![c] = t] /\ ReleaseFetch(c)
    BY <1>5 DEF FetchSucceeded
  <2> HIDE DEF t
  <2>4. Uses(t)
    BY <2>2 DEF Uses
  <2> QED BY <2>1, <2>2, <2>3, <2>4, OneBudget
<1>6. CASE NotEligible(c, s)
  <2> DEFINE t == [s EXCEPT !.reserved = FALSE, !.held = FALSE, !.closing = TRUE,
                            !.intent = "Decline"]
  <2>1. t \in SessionType
    BY <1>1, SessionUpdates
  <2>2. ~t.reserved /\ t.closing
    BY <1>1 DEF SessionType
  <2>3. sessions' = [sessions EXCEPT ![c] = t] /\ ReleaseFetch(c)
    BY <1>6 DEF NotEligible
  <2> HIDE DEF t
  <2>4. Uses(t)
    BY <2>2 DEF Uses
  <2> QED BY <2>1, <2>2, <2>3, <2>4, OneBudget
<1>7. CASE Forget(c, s)
  <2>1. sessions' = [sessions EXCEPT ![c] = s] /\ used' = used
    BY <1>7 DEF Forget
  <2> QED BY <1>1, <1>2, <2>1, OneBudget
<1> QED BY <1>3, <1>4, <1>5, <1>6, <1>7

(* after a flush, *)
LEMMA BudgetFlush ==
    ASSUME StateTypes, BudgetInv, NEW c \in Conns,
           \/ FlushEnd(c) \/ FlushAccept(c) \/ FlushAcceptLost(c) \/ FlushHandoff(c)
           \/ FlushNoRealm(c) \/ FlushStopped(c) \/ FlushFull(c) \/ Sweep(c)
    PROVE  BudgetInv'
<1>1. sessions[c] \in SessionType /\ Uses(sessions[c])
  BY DEF StateTypes, BudgetInv
<1>2. CASE FlushEnd(c)
  <2> DEFINE g == FlushKind # "Close" /\ sessions[c].grace
             s == [sessions[c] EXCEPT !.closing = TRUE, !.intent = "None", !.grace = g]
  <2>1. g \in BOOLEAN
    BY <1>1 DEF SessionType
  <2>2. sessions' = [sessions EXCEPT ![c] = s] /\ used' = used
    BY <1>2 DEF FlushEnd
  <2>3. ~sessions[c].reserved
    BY <1>1, <1>2 DEF FlushEnd, Flushing, ToFlush, Uses
  <2> HIDE DEF g
  <2>4. s \in SessionType
    BY <1>1, <2>1, SessionUpdates
  <2>5. s.intent = "None" /\ s.reserved = sessions[c].reserved
    BY <1>1 DEF SessionType
  <2> HIDE DEF s
  <2>6. Uses(s)
    BY <2>3, <2>5 DEF Uses
  <2> QED BY <2>2, <2>4, <2>5, <2>6, OneBudget
<1>3. CASE FlushAccept(c)
  <2> DEFINE s == [sessions[c] EXCEPT !.held = FALSE, !.stage = "Fetching", !.intent = "None"]
  <2>1. s \in SessionType
    BY <1>1, SessionUpdates
  <2>2. /\ s.open = sessions[c].open /\ s.closing = sessions[c].closing
        /\ s.intent = "None" /\ s.stage = "Fetching" /\ s.reserved = sessions[c].reserved
    BY <1>1 DEF SessionType
  <2>3. sessions' = [sessions EXCEPT ![c] = s] /\ used' = used
    BY <1>3 DEF FlushAccept
  <2> HIDE DEF s
  <2>4. Uses(s)
    BY <1>1, <2>2 DEF Uses
  <2> QED BY <2>1, <2>2, <2>3, <2>4, OneBudget
<1>4. CASE FlushAcceptLost(c)
  <2> DEFINE s == [sessions[c] EXCEPT !.held = FALSE, !.reserved = FALSE, !.closing = TRUE,
                                      !.intent = "Close"]
  <2>1. s \in SessionType
    BY <1>1, SessionUpdates
  <2>2. s.closing /\ ~s.reserved
    BY <1>1 DEF SessionType
  <2>3. sessions' = [sessions EXCEPT ![c] = s] /\ ReleaseFetch(c)
    BY <1>4 DEF FlushAcceptLost
  <2> HIDE DEF s
  <2>4. Uses(s)
    BY <2>2 DEF Uses
  <2> QED BY <2>1, <2>2, <2>3, <2>4, OneBudget
<1>5. CASE FlushHandoff(c)
  <2> DEFINE s == [sessions[c] EXCEPT !.stage = "HandedOff", !.grace = TRUE, !.intent = "None"]
  <2>1. s \in SessionType
    BY <1>1, SessionUpdates
  <2>2. s.intent = "None" /\ s.reserved = sessions[c].reserved
    BY <1>1 DEF SessionType
  <2>3. sessions' = [sessions EXCEPT ![c] = s] /\ used' = used
    BY <1>5 DEF FlushHandoff
  <2>4. ~sessions[c].reserved
    BY <1>1, <1>5 DEF FlushHandoff, Flushing, ToFlush, Uses
  <2> HIDE DEF s
  <2>5. Uses(s)
    BY <2>2, <2>4 DEF Uses
  <2> QED BY <2>1, <2>2, <2>3, <2>5, OneBudget
<1>6. CASE FlushNoRealm(c)
  BY <1>6, BudgetSchedule DEF FlushNoRealm
<1>7. CASE FlushStopped(c)
  <2> DEFINE s == [sessions[c] EXCEPT !.held = FALSE]
  <2>1. s \in SessionType
    BY <1>1, SessionUpdates
  <2>2. /\ s.open = sessions[c].open /\ s.closing = sessions[c].closing
        /\ s.intent = sessions[c].intent /\ s.stage = sessions[c].stage
        /\ s.reserved = sessions[c].reserved
    BY <1>1 DEF SessionType
  <2>3. sessions' = [sessions EXCEPT ![c] = s] /\ used' = used
    BY <1>7 DEF FlushStopped
  <2> HIDE DEF s
  <2>4. Uses(s)
    BY <1>1, <2>2 DEF Uses
  <2> QED BY <2>1, <2>2, <2>3, <2>4, OneBudget
<1>8. CASE FlushFull(c)
  BY <1>8, BudgetSame DEF FlushFull, state
<1>9. CASE Sweep(c)
  <2> DEFINE s == [sessions[c] EXCEPT !.attempt = 0, !.held = FALSE]
  <2>1. s \in SessionType
    BY <1>1, SessionUpdates
  <2>2. /\ s.open = sessions[c].open /\ s.closing = sessions[c].closing
        /\ s.intent = sessions[c].intent /\ s.stage = sessions[c].stage
        /\ s.reserved = sessions[c].reserved
    BY <1>1 DEF SessionType
  <2>3. sessions' = [sessions EXCEPT ![c] = s] /\ used' = used
    BY <1>9 DEF Sweep
  <2> HIDE DEF s
  <2>4. Uses(s)
    BY <1>1, <2>2 DEF Uses
  <2> QED BY <2>1, <2>2, <2>3, <2>4, OneBudget
<1> QED BY <1>2, <1>3, <1>4, <1>5, <1>6, <1>7, <1>8, <1>9

(* and after every step. *)
LEMMA BudgetKept ==
    ASSUME TypeInv, BudgetInv, [Next]_vars
    PROVE  BudgetInv'
<1>1. StateTypes /\ FrameTypes
  BY DEF TypeInv
<1>2. CASE UNCHANGED <<sessions, used>>
  BY <1>2, BudgetSame
<1>3. CASE PreapplyLifecycle
  <2> DEFINE c == Head(events).conn
  <2>1. c \in Conns
    <3>1. Head(events) \in Events
      BY <1>1, <1>3, SeqTail DEF PreapplyLifecycle, FrameTypes
    <3> QED BY <3>1 DEF Events
  <2>2. ApplyOpened(c) \/ ApplyClosed(c) \/ UNCHANGED <<sessions, used>>
    BY <1>3 DEF PreapplyLifecycle, state
  <2> HIDE DEF c
  <2>3. CASE ApplyOpened(c)
    <3>1. CASE c \notin Open /\ Cardinality(Open) < MaxSessions
      <4>1. sessions' = [sessions EXCEPT ![c] = NewSession] /\ used' = used
        BY <2>3, <3>1 DEF ApplyOpened
      <4>2. NewSession \in SessionType
        BY <1>1, <2>1, SessionUpdates DEF StateTypes
      <4>3. Uses(NewSession) /\ NewSession.reserved = FALSE
        BY DEF Uses, NewSession, NoSession
      <4>4. ~sessions[c].reserved
        BY <2>1, <3>1 DEF BudgetInv, Uses, Open
      <4>5. NewSession.reserved = sessions[c].reserved
        BY <1>1, <2>1, <4>3, <4>4 DEF StateTypes, SessionType
      <4> QED BY <1>1, <2>1, <4>1, <4>2, <4>3, <4>5, OneBudget
    <3>2. CASE ~(c \notin Open /\ Cardinality(Open) < MaxSessions)
      BY <1>2, <2>3, <3>2 DEF ApplyOpened
    <3> QED BY <3>1, <3>2
  <2>4. CASE ApplyClosed(c)
    <3>1. sessions' = [sessions EXCEPT ![c] = NoSession] /\ ReleaseFetch(c)
      BY <2>4 DEF ApplyClosed, ReleaseAll
    <3>2. NoSession \in SessionType
      BY <1>1, <2>1, SessionUpdates DEF StateTypes
    <3>3. Uses(NoSession) /\ ~NoSession.reserved
      BY DEF Uses, NoSession
    <3> QED BY <1>1, <2>1, <3>1, <3>2, <3>3, OneBudget
  <2> QED BY <1>2, <2>2, <2>3, <2>4
<1>4. CASE ProcessMessages
  <2> DEFINE c == Head(events).conn
  <2>1. c \in Conns
    <3>1. Head(events) \in Events
      BY <1>1, <1>4, SeqTail DEF ProcessMessages, FrameTypes
    <3> QED BY <3>1 DEF Events
  <2>2. \/ UNCHANGED <<sessions, used>>
        \/ \E kind \in {"Close", "Decline"} : Schedule(c, kind)
        \/ /\ sessions[c].open /\ ~sessions[c].closing /\ sessions[c].intent = "None"
           /\ sessions[c].stage = "Pending" /\ used < FetchCapacity /\ Reserve(c)
    BY <1>4 DEF ProcessMessages, HandleMessage, Ignored, state
  <2> HIDE DEF c
  <2>3. CASE /\ sessions[c].open /\ ~sessions[c].closing /\ sessions[c].intent = "None"
             /\ sessions[c].stage = "Pending" /\ used < FetchCapacity /\ Reserve(c)
    <3> DEFINE s == [sessions[c] EXCEPT !.held = TRUE, !.reserved = TRUE, !.intent = "Accept"]
    <3>1. sessions[c] \in SessionType /\ s \in SessionType
      BY <1>1, <2>1, SessionUpdates DEF StateTypes
    <3>2. /\ s.open /\ ~s.closing /\ s.intent = "Accept" /\ s.reserved
      BY <2>3, <3>1 DEF SessionType
    <3>3. sessions' = [sessions EXCEPT ![c] = s] /\ used' = used + 1 /\ used < FetchCapacity
      BY <2>3 DEF Reserve
    <3> HIDE DEF s
    <3>4. Uses(s)
      BY <3>2 DEF Uses
    <3>5. ~sessions[c].reserved
      BY <2>1, <2>3 DEF BudgetInv, Uses
    <3> QED BY <1>1, <2>1, <3>1, <3>2, <3>3, <3>4, <3>5, OneBudget
  <2> QED BY <1>1, <1>2, <2>1, <2>2, <2>3, BudgetSchedule
<1>5. CASE DrainCompletion
  <2> DEFINE id == Head(comps)
  <2>1. id \in AttemptIds
    BY <1>1, <1>5, SeqTail DEF DrainCompletion, FrameTypes
  <2>2. ApplyCompletion(id)
    BY <1>5 DEF DrainCompletion
  <2> HIDE DEF id
  <2>3. CASE id \in DOMAIN attempts /\ sessions[attempts[id]].attempt = id
    <3>1. attempts[id] \in Conns
      BY <1>1, <2>3 DEF StateTypes
    <3>2. LET s == [sessions[attempts[id]] EXCEPT !.attempt = 0] IN
            \/ FetchFailed(attempts[id], s) \/ FetchSucceeded(attempts[id], s)
            \/ NotEligible(attempts[id], s) \/ Forget(attempts[id], s)
      BY <2>2, <2>3 DEF ApplyCompletion
    <3> QED BY <1>1, <3>1, <3>2, BudgetOutcome
  <2>4. CASE id \notin DOMAIN attempts \/ sessions[attempts[id]].attempt # id
    BY <1>2, <2>2, <2>4 DEF ApplyCompletion
  <2> QED BY <2>3, <2>4
<1>6. ASSUME NEW c \in Conns,
             \/ FlushEnd(c) \/ FlushAccept(c) \/ FlushAcceptLost(c) \/ FlushHandoff(c)
             \/ FlushNoRealm(c) \/ FlushStopped(c) \/ FlushFull(c) \/ Sweep(c)
      PROVE  BudgetInv'
  BY <1>1, <1>6, BudgetFlush
<1>7. ASSUME NEW c \in Conns, ExpireHandoff(c) PROVE BudgetInv'
  BY <1>1, <1>7, BudgetSchedule DEF ExpireHandoff
<1>8. ASSUME NEW c \in Conns, TimeoutFetch(c) PROVE BudgetInv'
  <2>1. FetchFailed(c, [sessions[c] EXCEPT !.attempt = 0])
    BY <1>8 DEF TimeoutFetch
  <2> QED BY <1>1, <2>1, BudgetOutcome
<1>9. ASSUME NEW c \in Conns, SubmitFetch(c) PROVE BudgetInv'
  <2> DEFINE s == [sessions[c] EXCEPT !.attempt = nextAttempt]
  <2>1. sessions[c] \in SessionType /\ nextAttempt \in AttemptIds
    BY <1>1, <1>9, LoginAssumption DEF SubmitFetch, StateTypes, AttemptIds, LoginAssumption
  <2>2. s \in SessionType
    BY <2>1 DEF SessionType, AttemptIds
  <2>3. /\ s.open = sessions[c].open /\ s.closing = sessions[c].closing
        /\ s.intent = sessions[c].intent /\ s.stage = sessions[c].stage
        /\ s.reserved = sessions[c].reserved
    BY <2>1 DEF SessionType
  <2>4. sessions' = [sessions EXCEPT ![c] = s] /\ used' = used
    BY <1>9 DEF SubmitFetch
  <2> HIDE DEF s
  <2>5. Uses(s)
    BY <2>3 DEF Uses, BudgetInv
  <2> QED BY <1>1, <2>2, <2>3, <2>4, <2>5, OneBudget
<1>10. BeginFrame \/ LifecycleDone \/ MessagesDone \/ ExpiryDone \/ CompletionsDone \/ TimeoutsDone
         \/ SubmitDone \/ FlushDone \/ SweepDone \/ Shutdown \/ StopPool \/ Io \/ IoFailure \/ Worker
         \/ UNCHANGED vars
       => UNCHANGED <<sessions, used>>
  BY DEF BeginFrame, LifecycleDone, MessagesDone, ExpiryDone, CompletionsDone, TimeoutsDone,
         SubmitDone, FlushDone, SweepDone, Shutdown, StopPool, Io, IoFailure, Worker, vars, state
<1> QED BY <1>2, <1>3, <1>4, <1>5, <1>6, <1>7, <1>8, <1>9, <1>10
        DEF Next, Frame, Deadline, Submission

-----------------------------------------------------------------------------
(* The pool and the attempts.                                              *)

(* Elements of a sequence with one more, *)
LEMMA ElemsAppend ==
    ASSUME NEW S, NEW s \in Seq(S), NEW e \in S
    PROVE  /\ Pool!Elems(Append(s, e)) = Pool!Elems(s) \cup {e}
           /\ Injective(s) /\ e \notin Pool!Elems(s) => Injective(Append(s, e))
           /\ Len(Append(s, e)) = Len(s) + 1
<1> DEFINE t == Append(s, e)
<1>1. /\ Len(t) = Len(s) + 1 /\ t[Len(s) + 1] = e /\ Len(s) \in Nat
      /\ \A i \in 1..Len(s) : t[i] = s[i]
  OBVIOUS
<1> HIDE DEF t
<1>2. Pool!Elems(t) = Pool!Elems(s) \cup {e}
  BY <1>1 DEF Pool!Elems
<1>3. Injective(s) /\ e \notin Pool!Elems(s) => Injective(t)
  BY <1>1 DEF Injective, Pool!Elems
<1> QED BY <1>1, <1>2, <1>3 DEF t

(* of its tail, *)
LEMMA ElemsTail ==
    ASSUME NEW S, NEW s \in Seq(S), s # <<>>
    PROVE  /\ Pool!Elems(s) = Pool!Elems(Tail(s)) \cup {Head(s)}
           /\ Injective(s) => Injective(Tail(s)) /\ Head(s) \notin Pool!Elems(Tail(s))
           /\ Len(Tail(s)) = Len(s) - 1
<1> DEFINE t == Tail(s)
<1>1. /\ Len(s) \in Nat \ {0} /\ Len(t) = Len(s) - 1 /\ Head(s) = s[1]
      /\ \A i \in 1..Len(t) : t[i] = s[i + 1]
  OBVIOUS
<1> HIDE DEF t
<1>2. Pool!Elems(t) \cup {Head(s)} \subseteq Pool!Elems(s)
  <2>1. \A i \in 1..Len(t) : i + 1 \in 1..Len(s)
    BY <1>1
  <2> QED BY <1>1, <2>1 DEF Pool!Elems
<1>3. Pool!Elems(s) \subseteq Pool!Elems(t) \cup {Head(s)}
  <2> SUFFICES ASSUME NEW i \in 1..Len(s) PROVE s[i] \in Pool!Elems(t) \cup {Head(s)}
    BY DEF Pool!Elems
  <2>1. CASE i = 1
    BY <1>1, <2>1
  <2>2. CASE i # 1
    <3>1. i - 1 \in 1..Len(t) /\ t[i - 1] = s[i]
      BY <1>1, <2>2
    <3> QED BY <3>1 DEF Pool!Elems
  <2> QED BY <2>1, <2>2
<1>4. ASSUME Injective(s) PROVE Injective(t) /\ Head(s) \notin Pool!Elems(t)
  <2>1. \A i \in 1..Len(t) : i + 1 \in 1..Len(s) /\ i + 1 # 1 /\ t[i] = s[i + 1]
    BY <1>1
  <2>2. 1 \in 1..Len(s)
    BY <1>1
  <2>3. Injective(t)
    <3> SUFFICES ASSUME NEW i \in 1..Len(t), NEW j \in 1..Len(t), t[i] = t[j] PROVE i = j
      BY DEF Injective
    <3>1. i + 1 = j + 1
      BY <1>4, <2>1 DEF Injective
    <3> QED BY <3>1
  <2>4. Head(s) \notin Pool!Elems(t)
    BY <1>1, <1>4, <2>1, <2>2 DEF Injective, Pool!Elems
  <2> QED BY <2>3, <2>4
<1> QED BY <1>1, <1>2, <1>3, <1>4 DEF t

(* with one erased, *)
LEMMA ElemsErase ==
    ASSUME NEW S, NEW s \in Seq(S), NEW i \in 1..Len(s), Injective(s)
    PROVE  /\ Pool!Elems(Pool!Erase(s, i)) = Pool!Elems(s) \ {s[i]}
           /\ Injective(Pool!Erase(s, i))
           /\ Len(Pool!Erase(s, i)) = Len(s) - 1
<1> DEFINE t == Pool!Erase(s, i)
<1>1. /\ Len(t) = Len(s) - 1 /\ Len(s) \in Nat
      /\ \A j \in 1..Len(s) - 1 : t[j] = IF j < i THEN s[j] ELSE s[j + 1]
  <2>1. Len(s) \in Nat
    OBVIOUS
  <2>2. /\ Len(Pool!Erase(s, i)) = Len(s) - 1
        /\ \A j \in 1..Len(s) - 1 : Pool!Erase(s, i)[j] = IF j < i THEN s[j] ELSE s[j + 1]
    BY EraseType
  <2> QED BY <2>1, <2>2
<1> HIDE DEF t
<1> DEFINE at(j) == IF j < i THEN j ELSE j + 1
<1>2. \A j \in 1..Len(t) : at(j) \in 1..Len(s) /\ at(j) # i /\ t[j] = s[at(j)]
  BY <1>1
<1>3. \A j, k \in 1..Len(t) : at(j) = at(k) => j = k
  BY <1>1
<1>4. \A k \in 1..Len(s) : k # i => \E j \in 1..Len(t) : at(j) = k
  <2> SUFFICES ASSUME NEW k \in 1..Len(s), k # i PROVE \E j \in 1..Len(t) : at(j) = k
    OBVIOUS
  <2>1. CASE k < i
    <3>1. k \in 1..Len(t) /\ at(k) = k
      BY <1>1, <2>1
    <3> QED BY <3>1
  <2>2. CASE k > i
    <3>1. k - 1 \in 1..Len(t) /\ at(k - 1) = k
      BY <1>1, <2>2
    <3> QED BY <3>1
  <2> QED BY <2>1, <2>2
<1> HIDE DEF at
<1>5. Injective(t)
  BY <1>2, <1>3 DEF Injective
<1>6. \A j \in 1..Len(t) : t[j] \in Pool!Elems(s) \ {s[i]}
  BY <1>2 DEF Injective, Pool!Elems
<1>7. \A k \in 1..Len(s) : s[k] # s[i] => s[k] \in Pool!Elems(t)
  <2> SUFFICES ASSUME NEW k \in 1..Len(s), s[k] # s[i] PROVE s[k] \in Pool!Elems(t)
    OBVIOUS
  <2>1. PICK j \in 1..Len(t) : at(j) = k
    BY <1>4
  <2>2. t[j] = s[k]
    BY <1>2, <2>1
  <2> QED BY <2>2 DEF Pool!Elems
<1>8. Pool!Elems(t) = Pool!Elems(s) \ {s[i]}
  <2>1. Pool!Elems(t) \subseteq Pool!Elems(s) \ {s[i]}
    BY <1>6 DEF Pool!Elems
  <2>2. Pool!Elems(s) \ {s[i]} \subseteq Pool!Elems(t)
    BY <1>7 DEF Pool!Elems
  <2> QED BY <2>1, <2>2
<1> QED BY <1>1, <1>5, <1>8 DEF t

(* of a sequence of attempts, *)
LEMMA ElemsType ==
    ASSUME NEW S, NEW s \in Seq(S)
    PROVE  Pool!Elems(s) \subseteq S
BY DEF Pool!Elems

(* and of the empty one. *)
LEMMA ElemsEmpty == Pool!Elems(<<>>) = {} /\ Injective(<<>>) /\ Len(<<>>) = 0
BY DEF Pool!Elems, Injective

(* What PoolInv says in numbers. *)
LEMMA PoolFacts ==
    ASSUME TypeInv, PoolInv
    PROVE  /\ Len(queue) \in Nat /\ Len(done) \in Nat /\ Cardinality(working) \in Nat
           /\ inFlight \in Int /\ FetchCapacity \in Nat /\ nextAttempt \in Nat
           /\ IsFiniteSet(working)
           /\ queue \in Seq(AttemptIds) /\ done \in Seq(AttemptIds) /\ comps \in Seq(AttemptIds)
<1>1. IsFiniteSet(working)
  BY DEF PoolInv, PoolOk
<1>2. Cardinality(working) \in Nat
  BY <1>1, FS_CardinalityType
<1> QED BY <1>1, <1>2, LoginAssumption
        DEF LoginAssumption, TypeInv, PoolTypes, StateTypes, FrameTypes

(* try_submit *)
LEMMA AcceptPool ==
    ASSUME TypeInv, PoolInv, nextAttempt \in AttemptIds, Pool!Accept(nextAttempt),
           nextAttempt' = nextAttempt + 1, comps' = comps
    PROVE  PoolInv' /\ Expected' = Expected \cup {nextAttempt} /\ nextAttempt \notin Expected
<1>1. /\ queue' = Append(queue, nextAttempt) /\ inFlight' = inFlight + 1
      /\ inFlight < FetchCapacity /\ UNCHANGED <<working, done, cancelled>>
  BY DEF Pool!Accept
<1>2. nextAttempt \notin Pool!Elems(queue) \cup working \cup Pool!Elems(done) \cup Pool!Elems(comps)
  BY PoolFacts DEF PoolInv, PoolOk
<1>3. /\ Pool!Elems(queue') = Pool!Elems(queue) \cup {nextAttempt}
      /\ Injective(queue') /\ Len(queue') = Len(queue) + 1
  BY <1>1, <1>2, PoolFacts, ElemsAppend DEF PoolInv, PoolOk
<1>4. inFlight' = Len(queue') + Cardinality(working) + Len(done) /\ inFlight' <= FetchCapacity
  BY <1>1, <1>3, PoolFacts DEF PoolInv, PoolOk
<1>5. \A id \in Pool!Elems(queue') \cup working \cup Pool!Elems(done) \cup Pool!Elems(comps) :
         id < nextAttempt'
  <2>1. \A id \in AttemptIds : id \in Int
    BY DEF AttemptIds
  <2>2. \A id \in Pool!Elems(queue) \cup working \cup Pool!Elems(done) \cup Pool!Elems(comps) :
           id \in AttemptIds /\ id < nextAttempt
    <3>1. /\ Pool!Elems(queue) \subseteq AttemptIds /\ Pool!Elems(done) \subseteq AttemptIds
          /\ Pool!Elems(comps) \subseteq AttemptIds
      BY PoolFacts, ElemsType
    <3>2. working \subseteq AttemptIds
      BY DEF TypeInv, PoolTypes
    <3> QED BY <3>1, <3>2 DEF PoolInv, PoolOk
  <2> QED BY <1>3, <2>1, <2>2, PoolFacts
<1>6. PoolInv'
  BY <1>1, <1>2, <1>3, <1>4, <1>5 DEF PoolInv, PoolOk
<1>7. Expected' = Expected \cup {nextAttempt}
  BY <1>1, <1>3 DEF Expected
<1> QED BY <1>2, <1>6, <1>7 DEF Expected

(* drain, of all there is *)
LEMMA DrainPool ==
    ASSUME TypeInv, PoolInv, comps = <<>>, comps' = done, nextAttempt' = nextAttempt,
           Pool!TakeResults(Len(done)) \/ (done = <<>> /\ UNCHANGED fetchPool)
    PROVE  PoolInv' /\ Expected' = Expected \ Pool!Elems(comps')
<1>1. /\ done' = <<>> /\ inFlight' = inFlight - Len(done) /\ UNCHANGED <<queue, working, cancelled>>
  <2>1. CASE Pool!TakeResults(Len(done))
    <3>1. SubSeq(done, Len(done) + 1, Len(done)) = <<>>
      BY PoolFacts
    <3> QED BY <2>1, <3>1 DEF Pool!TakeResults
  <2>2. CASE done = <<>> /\ UNCHANGED fetchPool
    BY <2>2, PoolFacts DEF fetchPool
  <2> QED BY <2>1, <2>2
<1>2. Pool!Elems(done') = {} /\ Injective(done') /\ Len(done') = 0
  BY <1>1, ElemsEmpty
<1>3. inFlight' = Len(queue) + Cardinality(working) + Len(done') /\ inFlight' <= FetchCapacity
  BY <1>1, <1>2, PoolFacts DEF PoolInv, PoolOk
<1>4. PoolInv'
  BY <1>1, <1>2, <1>3 DEF PoolInv, PoolOk
<1>5. Expected' = Expected \ Pool!Elems(comps')
  BY <1>1, <1>2 DEF Expected, PoolInv, PoolOk
<1> QED BY <1>4, <1>5

(* cancel: whatever the worker did meanwhile, the result is not expected. *)
LEMMA DiscardPool ==
    ASSUME TypeInv, PoolInv, NEW id \in AttemptIds, Pool!Discard(id),
           UNCHANGED <<nextAttempt, comps>>
    PROVE  PoolInv' /\ Expected' = Expected \ {id}
<1>1. CASE /\ \E i \in 1..Len(queue) : queue[i] = id /\ queue' = Pool!Erase(queue, i)
           /\ inFlight' = inFlight - 1
           /\ UNCHANGED <<working, done, cancelled>>
  <2>1. PICK i \in 1..Len(queue) : queue[i] = id /\ queue' = Pool!Erase(queue, i)
    BY <1>1
  <2>2. /\ Pool!Elems(queue') = Pool!Elems(queue) \ {id} /\ Injective(queue')
        /\ Len(queue') = Len(queue) - 1
    BY <2>1, PoolFacts, ElemsErase DEF PoolInv, PoolOk
  <2>3. id \in Pool!Elems(queue)
    BY <2>1 DEF Pool!Elems
  <2>4. inFlight' = Len(queue') + Cardinality(working) + Len(done) /\ inFlight' <= FetchCapacity
    BY <1>1, <2>2, PoolFacts DEF PoolInv, PoolOk
  <2>5. PoolInv'
    BY <1>1, <2>2, <2>4 DEF PoolInv, PoolOk
  <2>6. Expected' = Expected \ {id}
    BY <1>1, <2>2, <2>3 DEF Expected, PoolInv, PoolOk
  <2> QED BY <2>5, <2>6
<1>2. CASE /\ \E i \in 1..Len(done) : done[i] = id /\ done' = Pool!Erase(done, i)
           /\ inFlight' = inFlight - 1
           /\ UNCHANGED <<queue, working, cancelled>>
  <2>1. PICK i \in 1..Len(done) : done[i] = id /\ done' = Pool!Erase(done, i)
    BY <1>2
  <2>2. /\ Pool!Elems(done') = Pool!Elems(done) \ {id} /\ Injective(done')
        /\ Len(done') = Len(done) - 1
    BY <2>1, PoolFacts, ElemsErase DEF PoolInv, PoolOk
  <2>3. id \in Pool!Elems(done)
    BY <2>1 DEF Pool!Elems
  <2>4. inFlight' = Len(queue) + Cardinality(working) + Len(done') /\ inFlight' <= FetchCapacity
    BY <1>2, <2>2, PoolFacts DEF PoolInv, PoolOk
  <2>5. PoolInv'
    BY <1>2, <2>2, <2>4 DEF PoolInv, PoolOk
  <2>6. Expected' = Expected \ {id}
    BY <1>2, <2>2, <2>3 DEF Expected, PoolInv, PoolOk
  <2> QED BY <2>5, <2>6
<1>3. CASE /\ ~Pool!Holds(queue, id) /\ ~Pool!Holds(done, id)
           /\ cancelled' = IF id \in working THEN cancelled \cup {id} ELSE cancelled
           /\ UNCHANGED <<queue, working, done, inFlight>>
  <2>1. id \notin Pool!Elems(queue) /\ id \notin Pool!Elems(done)
    BY <1>3 DEF Pool!Holds, Pool!Elems
  <2>2. PoolInv'
    BY <1>3 DEF PoolInv, PoolOk
  <2>3. Expected' = Expected \ {id}
    BY <1>3, <2>1 DEF Expected
  <2> QED BY <2>2, <2>3
<1> QED BY <1>1, <1>2, <1>3 DEF Pool!Discard

(* The workers. *)
LEMMA WorkerPool ==
    ASSUME TypeInv, PoolInv, Pool!Take \/ \E id \in AttemptIds : Pool!Finish(id),
           UNCHANGED <<nextAttempt, comps>>
    PROVE  PoolInv' /\ Expected' = Expected
<1>1. CASE Pool!Take
  <2> DEFINE id == Head(queue)
  <2>1. /\ queue # <<>> /\ queue' = Tail(queue) /\ working' = working \cup {id}
        /\ UNCHANGED <<done, cancelled, inFlight>>
    BY <1>1 DEF Pool!Take
  <2>2. /\ Pool!Elems(queue) = Pool!Elems(queue') \cup {id}
        /\ Injective(queue') /\ id \notin Pool!Elems(queue') /\ Len(queue') = Len(queue) - 1
    BY <2>1, PoolFacts, ElemsTail DEF PoolInv, PoolOk
  <2> HIDE DEF id
  <2>3. id \notin working /\ id \notin cancelled /\ id \notin Pool!Elems(done)
        /\ id \notin Pool!Elems(comps)
    BY <2>2 DEF PoolInv, PoolOk
  <2>4. IsFiniteSet(working') /\ Cardinality(working') = Cardinality(working) + 1
    BY <2>1, <2>3, PoolFacts, FS_AddElement
  <2>5. inFlight' = Len(queue') + Cardinality(working') + Len(done) /\ inFlight' <= FetchCapacity
    BY <2>1, <2>2, <2>4, PoolFacts DEF PoolInv, PoolOk
  <2>6. PoolInv'
    BY <2>1, <2>2, <2>3, <2>4, <2>5 DEF PoolInv, PoolOk
  <2>7. Expected' = Expected
    BY <2>1, <2>2, <2>3 DEF Expected
  <2> QED BY <2>6, <2>7
<1>2. ASSUME NEW id \in AttemptIds, Pool!Finish(id) PROVE PoolInv' /\ Expected' = Expected
  <2>1. id \in working /\ working' = working \ {id} /\ queue' = queue
    BY <1>2 DEF Pool!Finish
  <2>2. IsFiniteSet(working') /\ Cardinality(working') = Cardinality(working) - 1
    BY <2>1, PoolFacts, FS_RemoveElement
  <2>3. id \notin Pool!Elems(queue) /\ id \notin Pool!Elems(done) /\ id \notin Pool!Elems(comps)
    BY <2>1 DEF PoolInv, PoolOk
  <2>4. CASE id \in cancelled /\ cancelled' = cancelled \ {id} /\ inFlight' = inFlight - 1
             /\ done' = done
    <3>1. inFlight' = Len(queue) + Cardinality(working') + Len(done) /\ inFlight' <= FetchCapacity
      BY <2>2, <2>4, PoolFacts DEF PoolInv, PoolOk
    <3>2. PoolInv'
      BY <2>1, <2>2, <2>4, <3>1 DEF PoolInv, PoolOk
    <3>3. Expected' = Expected
      BY <2>1, <2>4 DEF Expected
    <3> QED BY <3>2, <3>3
  <2>5. CASE id \notin cancelled /\ done' = Append(done, id) /\ UNCHANGED <<cancelled, inFlight>>
    <3>1. /\ Pool!Elems(done') = Pool!Elems(done) \cup {id} /\ Injective(done')
          /\ Len(done') = Len(done) + 1
      BY <2>3, <2>5, PoolFacts, ElemsAppend DEF PoolInv, PoolOk
    <3>2. inFlight' = Len(queue) + Cardinality(working') + Len(done') /\ inFlight' <= FetchCapacity
      BY <2>2, <2>5, <3>1, PoolFacts DEF PoolInv, PoolOk
    <3>3. PoolInv'
      BY <2>1, <2>2, <2>3, <2>5, <3>1, <3>2 DEF PoolInv, PoolOk
    <3>4. Expected' = Expected
      BY <2>1, <2>3, <2>5, <3>1 DEF Expected
    <3> QED BY <3>3, <3>4
  <2> QED BY <1>2, <2>4, <2>5 DEF Pool!Finish
<1> QED BY <1>1, <1>2

(* Stopping the pool, *)
LEMMA StopPoolKept ==
    ASSUME TypeInv, PoolInv, Pool!Stop, UNCHANGED <<nextAttempt, comps>>
    PROVE  PoolInv'
<1>1. /\ queue' = <<>> /\ inFlight' = inFlight - Len(queue) /\ UNCHANGED <<working, done, cancelled>>
  BY DEF Pool!Stop
<1>2. Pool!Elems(queue') = {} /\ Injective(queue') /\ Len(queue') = 0
  BY <1>1, ElemsEmpty
<1>3. inFlight' = Len(queue') + Cardinality(working) + Len(done) /\ inFlight' <= FetchCapacity
  BY <1>1, <1>2, PoolFacts DEF PoolInv, PoolOk
<1> QED BY <1>1, <1>2, <1>3 DEF PoolInv, PoolOk

(* leaving it, *)
LEMMA SamePool ==
    ASSUME PoolInv, UNCHANGED fetchPool, UNCHANGED <<nextAttempt, comps>>
    PROVE  PoolInv' /\ Expected' = Expected
BY DEF PoolInv, fetchPool, Expected

(* and cancelling in it keep its invariant. *)
LEMMA CancelPool ==
    ASSUME TypeInv, PoolInv, NEW c \in Conns, CancelAttempt(c), UNCHANGED <<nextAttempt, comps>>
    PROVE  PoolInv'
<1>1. CASE sessions[c].attempt = 0
  BY <1>1, SamePool DEF CancelAttempt
<1>2. CASE sessions[c].attempt # 0
  <2>1. sessions[c].attempt \in AttemptIds
    BY <1>2, LoginAssumption DEF TypeInv, StateTypes, SessionType, AttemptIds, LoginAssumption
  <2> QED BY <1>2, <2>1, DiscardPool DEF CancelAttempt
<1> QED BY <1>1, <1>2

(* The active attempt of a session is cancelled. *)
LEMMA CancelAgrees ==
    ASSUME TypeInv, PoolInv, Agree, comps = <<>>, UNCHANGED <<nextAttempt, comps>>,
           NEW c \in Conns, NEW s, s.attempt = 0,
           sessions' = [sessions EXCEPT ![c] = s], CancelAttempt(c)
    PROVE  PoolInv' /\ Agree'
<1>1. Pool!Elems(comps) = {} /\ Pool!Elems(comps') = {}
  BY ElemsEmpty
<1>2. \A d \in Conns : sessions'[d] = IF d = c THEN s ELSE sessions[d]
  BY DEF TypeInv, StateTypes
<1>3. CASE sessions[c].attempt = 0
  <2>1. attempts' = attempts /\ UNCHANGED fetchPool
    BY <1>3 DEF CancelAttempt
  <2>2. PoolInv' /\ Expected' = Expected
    BY <2>1, SamePool
  <2>3. \A d \in Conns : sessions'[d].attempt = sessions[d].attempt
    BY <1>2, <1>3
  <2>4. Matched(sessions', attempts')
    BY <2>1, <2>3 DEF Agree, Matched, TypeInv, StateTypes
  <2> QED BY <1>1, <2>1, <2>2, <2>4 DEF Agree
<1>4. CASE sessions[c].attempt # 0
  <2> DEFINE id == sessions[c].attempt
  <2>1. id \in AttemptIds
    BY <1>4, LoginAssumption DEF TypeInv, StateTypes, SessionType, AttemptIds, LoginAssumption
  <2>2. /\ attempts' = [i \in DOMAIN attempts \ {id} |-> attempts[i]]
        /\ Pool!Discard(id)
    BY <1>4 DEF CancelAttempt, Without
  <2>3. PoolInv' /\ Expected' = Expected \ {id}
    BY <2>1, <2>2, DiscardPool
  <2>4. id \in DOMAIN attempts /\ attempts[id] = c
    BY <1>4 DEF Agree, Matched
  <2> HIDE DEF id
  <2>5. \A d \in Conns : sessions'[d].attempt # 0 =>
           /\ d # c /\ sessions'[d].attempt = sessions[d].attempt
           /\ sessions[d].attempt \in DOMAIN attempts /\ attempts[sessions[d].attempt] = d
    BY <1>2 DEF Agree, Matched
  <2>6. \A i \in DOMAIN attempts' :
           /\ i \in DOMAIN attempts /\ i # id /\ attempts'[i] = attempts[i]
           /\ attempts[i] \in Conns /\ sessions[attempts[i]].attempt = i
    BY <2>2 DEF Agree, Matched, TypeInv, StateTypes
  <2>7. Matched(sessions', attempts')
    <3>1. \A d \in Conns : sessions'[d].attempt # 0 =>
             sessions'[d].attempt \in DOMAIN attempts' /\ attempts'[sessions'[d].attempt] = d
      BY <2>2, <2>4, <2>5
    <3>2. \A i \in DOMAIN attempts' : sessions'[attempts'[i]].attempt = i
      BY <1>2, <2>6 DEF id
    <3> QED BY <3>1, <3>2 DEF Matched
  <2> QED BY <1>1, <2>2, <2>3, <2>7 DEF Agree
<1> QED BY <1>3, <1>4

(* A session changes, but not its attempt. *)
LEMMA KeptAgrees ==
    ASSUME TypeInv, PoolInv, Agree, NEW c \in Conns, NEW s, s.attempt = sessions[c].attempt,
           sessions' = [sessions EXCEPT ![c] = s],
           UNCHANGED <<attempts, nextAttempt, comps>>, UNCHANGED fetchPool
    PROVE  Agree'
<1>1. \A d \in Conns : sessions'[d].attempt = sessions[d].attempt
  BY DEF TypeInv, StateTypes
<1>2. Matched(sessions', attempts')
  BY <1>1 DEF Agree, Matched, TypeInv, StateTypes
<1> QED BY <1>2, SamePool DEF Agree

(* What the end of a fetch leaves has no attempt. *)
LEMMA OutcomeSession ==
    ASSUME TypeInv, NEW c \in Conns,
           LET s == [sessions[c] EXCEPT !.attempt = 0] IN
             \/ FetchFailed(c, s) \/ FetchSucceeded(c, s) \/ NotEligible(c, s)
             \/ Forget(c, s)
    PROVE  \E t : t.attempt = 0 /\ sessions' = [sessions EXCEPT ![c] = t]
<1> DEFINE s == [sessions[c] EXCEPT !.attempt = 0]
<1>1. s \in SessionType /\ s.attempt = 0
  <2>1. sessions[c] \in SessionType
    BY DEF TypeInv, StateTypes
  <2>2. s \in SessionType
    BY <2>1, SessionUpdates
  <2> QED BY <2>1, <2>2 DEF SessionType
<1>2. FetchFailed(c, s) \/ FetchSucceeded(c, s) \/ NotEligible(c, s) \/ Forget(c, s)
  OBVIOUS
<1> HIDE DEF s
<1>3. CASE FetchFailed(c, s)
  <2>1. [s EXCEPT !.failures = s.failures + 1].attempt = 0
    BY <1>1 DEF SessionType
  <2>2. [s EXCEPT !.failures = s.failures + 1, !.reserved = FALSE, !.held = FALSE,
                  !.closing = TRUE, !.intent = "Decline"].attempt = 0
    BY <1>1 DEF SessionType
  <2> QED BY <1>3, <2>1, <2>2 DEF FetchFailed
<1>4. CASE FetchSucceeded(c, s)
  <2>1. [s EXCEPT !.reserved = FALSE, !.intent = "Handoff"].attempt = 0
    BY <1>1 DEF SessionType
  <2> QED BY <1>4, <2>1 DEF FetchSucceeded
<1>5. CASE NotEligible(c, s)
  <2>1. [s EXCEPT !.reserved = FALSE, !.held = FALSE, !.closing = TRUE, !.intent = "Decline"].attempt = 0
    BY <1>1 DEF SessionType
  <2> QED BY <1>5, <2>1 DEF NotEligible
<1>6. CASE Forget(c, s)
  BY <1>1, <1>6 DEF Forget
<1> QED BY <1>2, <1>3, <1>4, <1>5, <1>6

(* A completion is consumed: its attempt is forgotten. *)
LEMMA CompletionAgrees ==
    ASSUME TypeInv, PoolInv, Agree, comps # <<>>, ApplyCompletion(Head(comps)),
           comps' = Tail(comps), UNCHANGED nextAttempt, UNCHANGED fetchPool
    PROVE  PoolInv' /\ Agree'
<1> DEFINE id == Head(comps)
<1>1. Pool!Elems(comps) = Pool!Elems(comps') \cup {id}
  BY PoolFacts, ElemsTail
<1>2. PoolInv'
  BY <1>1 DEF PoolInv, PoolOk, fetchPool
<1>3. Expected' = Expected
  BY DEF Expected, fetchPool
<1>4. id \notin Expected
  BY <1>1 DEF PoolInv, PoolOk, Expected
<1>5. id \in AttemptIds
  BY PoolFacts, SeqTail
<1>6. attempts' = [i \in DOMAIN attempts \ {id} |-> attempts[i]]
  BY DEF ApplyCompletion, Without
<1>7. DOMAIN attempts' \subseteq Expected' \cup Pool!Elems(comps') /\ Expected' \subseteq DOMAIN attempts'
  BY <1>1, <1>3, <1>4, <1>6 DEF Agree
<1>8. Matched(sessions', attempts')
  <2>1. CASE id \notin DOMAIN attempts
    <3>1. attempts' = attempts
      BY <1>6, <2>1 DEF TypeInv, StateTypes
    <3>2. sessions' = sessions
      BY <2>1 DEF ApplyCompletion
    <3> QED BY <3>1, <3>2 DEF Agree
  <2>2. CASE id \in DOMAIN attempts
    <3> DEFINE c == attempts[id]
    <3>1. c \in Conns /\ sessions[c].attempt = id
      BY <2>2 DEF Agree, Matched, TypeInv, StateTypes
    <3>2. LET s == [sessions[c] EXCEPT !.attempt = 0] IN
            \/ FetchFailed(c, s) \/ FetchSucceeded(c, s) \/ NotEligible(c, s) \/ Forget(c, s)
      BY <2>2, <3>1 DEF ApplyCompletion
    <3> HIDE DEF c
    <3>3. PICK t : t.attempt = 0 /\ sessions' = [sessions EXCEPT ![c] = t]
      BY <3>1, <3>2, OutcomeSession
    <3>4. \A d \in Conns : sessions'[d] = IF d = c THEN t ELSE sessions[d]
      BY <3>3 DEF TypeInv, StateTypes
    <3>5. \A d \in Conns : sessions'[d].attempt # 0 =>
             sessions'[d].attempt \in DOMAIN attempts' /\ attempts'[sessions'[d].attempt] = d
      <4>1. \A d \in Conns : sessions'[d].attempt # 0 =>
               /\ d # c /\ sessions'[d].attempt = sessions[d].attempt
               /\ sessions[d].attempt \in DOMAIN attempts /\ attempts[sessions[d].attempt] = d
        BY <3>3, <3>4 DEF Agree, Matched
      <4>2. attempts[id] = c
        BY DEF c
      <4> QED BY <1>6, <4>1, <4>2
    <3>6. \A i \in DOMAIN attempts' :
             /\ i # id /\ attempts'[i] = attempts[i]
             /\ attempts[i] \in Conns /\ sessions[attempts[i]].attempt = i
      BY <1>6 DEF Agree, Matched, TypeInv, StateTypes
    <3>7. \A i \in DOMAIN attempts' : sessions'[attempts'[i]].attempt = i
      BY <3>1, <3>4, <3>6
    <3> QED BY <3>5, <3>7 DEF Matched
  <2> QED BY <2>1, <2>2
<1> QED BY <1>2, <1>7, <1>8 DEF Agree

(* An attempt is submitted. *)
LEMMA SubmitAgrees ==
    ASSUME TypeInv, PoolInv, Agree, NEW c \in Conns, SubmitFetch(c), UNCHANGED comps
    PROVE  PoolInv' /\ Agree'
<1> DEFINE id == nextAttempt
<1>1. id \in AttemptIds /\ sessions[c].attempt = 0
  BY LoginAssumption DEF SubmitFetch, Submittable, TypeInv, StateTypes, AttemptIds, LoginAssumption
<1>2. /\ nextAttempt' = id + 1 /\ Pool!Accept(id)
      /\ sessions' = [sessions EXCEPT ![c] = [sessions[c] EXCEPT !.attempt = id]]
      /\ attempts' = [i \in DOMAIN attempts \cup {id} |-> IF i = id THEN c ELSE attempts[i]]
  BY DEF SubmitFetch
<1>3. PoolInv' /\ Expected' = Expected \cup {id} /\ id \notin Expected
  BY <1>1, <1>2, AcceptPool
<1>4. id \notin DOMAIN attempts
  <2>1. id \notin Pool!Elems(comps)
    BY PoolFacts DEF PoolInv, PoolOk
  <2> QED BY <1>3, <2>1 DEF Agree
<1> HIDE DEF id
<1>5. \A d \in Conns : sessions'[d].attempt = IF d = c THEN id ELSE sessions[d].attempt
  <2>1. sessions[c] \in SessionType
    BY DEF TypeInv, StateTypes
  <2>2. [sessions[c] EXCEPT !.attempt = id].attempt = id
    BY <2>1 DEF SessionType
  <2> QED BY <1>2, <2>2 DEF TypeInv, StateTypes
<1>6. \A d \in Conns : sessions'[d].attempt # 0 =>
         sessions'[d].attempt \in DOMAIN attempts' /\ attempts'[sessions'[d].attempt] = d
  BY <1>2, <1>4, <1>5 DEF Agree, Matched
<1>7. \A i \in DOMAIN attempts' : sessions'[attempts'[i]].attempt = i
  <2> SUFFICES ASSUME NEW i \in DOMAIN attempts' PROVE sessions'[attempts'[i]].attempt = i
    OBVIOUS
  <2>1. CASE i = id
    BY <1>2, <1>5, <2>1
  <2>2. CASE i # id
    <3>1. i \in DOMAIN attempts /\ attempts'[i] = attempts[i]
      BY <1>2, <2>2
    <3>2. attempts[i] \in Conns /\ sessions[attempts[i]].attempt = i
      BY <3>1 DEF Agree, Matched, TypeInv, StateTypes
    <3>3. attempts[i] # c
      <4>1. i # 0
        BY <3>1 DEF TypeInv, StateTypes, AttemptIds
      <4> QED BY <1>1, <3>2, <4>1
    <3> QED BY <1>5, <3>1, <3>2, <3>3
  <2> QED BY <2>1, <2>2
<1>8. DOMAIN attempts' = DOMAIN attempts \cup {id}
  BY <1>2
<1> QED BY <1>3, <1>6, <1>7, <1>8 DEF Agree, Matched

(* The accounts come out at the start, *)
LEMMA AccountStart == Init => AccountInv
<1> SUFFICES ASSUME Init PROVE AccountInv
  OBVIOUS
<1>1. /\ queue = <<>> /\ working = {} /\ done = <<>> /\ cancelled = {} /\ inFlight = 0
  BY DEF Init, Pool!Init
<1>2. /\ comps = <<>> /\ nextAttempt = 1 /\ DOMAIN attempts = {}
      /\ \A c \in Conns : sessions[c].attempt = 0
  BY DEF Init, NoSession
<1>3. FetchCapacity \in Nat /\ Cardinality({}) = 0 /\ IsFiniteSet({})
  BY LoginAssumption, FS_EmptySet DEF LoginAssumption
<1>4. PoolInv
  BY <1>1, <1>2, <1>3, ElemsEmpty DEF PoolInv, PoolOk
<1>5. Expected = {}
  BY <1>1, ElemsEmpty DEF Expected
<1>6. Agree
  BY <1>2, <1>5, ElemsEmpty DEF Agree, Matched
<1> QED BY <1>2, <1>4, <1>6 DEF AccountInv

(* Nothing of sessions, attempts or pool changes. *)
LEMMA AccountSame ==
    ASSUME AccountInv, UNCHANGED <<sessions, attempts, nextAttempt, comps>>, UNCHANGED fetchPool,
           phase' = "completions" \/ comps = <<>>, health' = health \/ health' # "Healthy"
    PROVE  AccountInv'
<1>1. PoolInv' /\ Expected' = Expected
  BY SamePool DEF AccountInv
<1>2. health' = "Healthy" => Agree'
  BY <1>1 DEF AccountInv, Agree
<1> QED BY <1>1, <1>2 DEF AccountInv

(* after a schedule, *)
LEMMA AccountSchedule ==
    ASSUME TypeInv, AccountInv, NEW c \in Conns, NEW kind \in {"Close", "Decline"},
           Schedule(c, kind), phase # "completions", phase' # "completions", comps' = comps
    PROVE  AccountInv'
<1> DEFINE s == [sessions[c] EXCEPT !.attempt = 0, !.reserved = FALSE, !.held = FALSE,
                                    !.closing = TRUE, !.intent = kind]
<1>1. s.attempt = 0
  BY DEF TypeInv, StateTypes, SessionType
<1>2. /\ sessions' = [sessions EXCEPT ![c] = s] /\ CancelAttempt(c)
      /\ UNCHANGED <<nextAttempt, health>>
  BY DEF Schedule, ReleaseAll
<1>3. comps = <<>>
  BY DEF AccountInv
<1> HIDE DEF s
<1>4. PoolInv'
  BY <1>2, CancelPool DEF AccountInv
<1>5. health' = "Healthy" => Agree'
  BY <1>1, <1>2, <1>3, CancelAgrees DEF AccountInv
<1> QED BY <1>3, <1>4, <1>5 DEF AccountInv

(* A session changes, but not its attempt. *)
LEMMA AccountOther ==
    ASSUME TypeInv, AccountInv, NEW c \in Conns, NEW s, s.attempt = sessions[c].attempt,
           sessions' = [sessions EXCEPT ![c] = s],
           UNCHANGED <<attempts, nextAttempt, comps>>, UNCHANGED fetchPool,
           phase # "completions", health' = health \/ health' # "Healthy"
    PROVE  AccountInv'
<1>1. comps = <<>> /\ PoolInv
  BY DEF AccountInv
<1>2. PoolInv'
  BY <1>1, SamePool
<1>3. health' = "Healthy" => Agree'
  BY <1>1, KeptAgrees DEF AccountInv
<1> QED BY <1>1, <1>2, <1>3 DEF AccountInv

(* after a flush, *)
LEMMA AccountFlush ==
    ASSUME TypeInv, AccountInv, NEW c \in Conns,
           \/ FlushEnd(c) \/ FlushAccept(c) \/ FlushAcceptLost(c) \/ FlushHandoff(c)
           \/ FlushNoRealm(c) \/ FlushStopped(c) \/ FlushFull(c)
    PROVE  AccountInv'
<1>1. /\ phase \in FlushPhases /\ phase # "completions" /\ phase' # "completions" /\ comps' = comps
  BY DEF FlushEnd, FlushAccept, FlushAcceptLost, FlushHandoff, FlushNoRealm, FlushStopped,
         FlushFull, Flushing, Visited, FlushPhases
<1>2. sessions[c] \in SessionType
  BY DEF TypeInv, StateTypes
<1>3. CASE FlushEnd(c)
  <2> DEFINE g == FlushKind # "Close" /\ sessions[c].grace
  <2>1. sessions' = [sessions EXCEPT ![c] =
                       [sessions[c] EXCEPT !.closing = TRUE, !.intent = "None", !.grace = g]]
        /\ UNCHANGED <<attempts, nextAttempt, health>> /\ UNCHANGED fetchPool
    BY <1>3 DEF FlushEnd
  <2> HIDE DEF g
  <2>2. [sessions[c] EXCEPT !.closing = TRUE, !.intent = "None", !.grace = g].attempt
          = sessions[c].attempt
    BY <1>2 DEF SessionType
  <2> QED BY <1>1, <2>1, <2>2, AccountOther
<1>4. CASE FlushAccept(c)
  <2>1. [sessions[c] EXCEPT !.held = FALSE, !.stage = "Fetching", !.intent = "None"].attempt
          = sessions[c].attempt
    BY <1>2 DEF SessionType
  <2> QED BY <1>1, <1>4, <2>1, AccountOther DEF FlushAccept
<1>5. CASE FlushAcceptLost(c)
  <2>1. [sessions[c] EXCEPT !.held = FALSE, !.reserved = FALSE, !.closing = TRUE,
                            !.intent = "Close"].attempt = sessions[c].attempt
    BY <1>2 DEF SessionType
  <2> QED BY <1>1, <1>5, <2>1, AccountOther DEF FlushAcceptLost
<1>6. CASE FlushHandoff(c)
  <2>1. [sessions[c] EXCEPT !.stage = "HandedOff", !.grace = TRUE, !.intent = "None"].attempt
          = sessions[c].attempt
    BY <1>2 DEF SessionType
  <2> QED BY <1>1, <1>6, <2>1, AccountOther DEF FlushHandoff
<1>7. CASE FlushNoRealm(c)
  BY <1>1, <1>7, AccountSchedule DEF FlushNoRealm
<1>8. CASE FlushStopped(c)
  <2>1. [sessions[c] EXCEPT !.held = FALSE].attempt = sessions[c].attempt
    BY <1>2 DEF SessionType
  <2>2. sessions' = [sessions EXCEPT ![c] = [sessions[c] EXCEPT !.held = FALSE]]
        /\ UNCHANGED <<attempts, nextAttempt>> /\ UNCHANGED fetchPool /\ health' = "Unhealthy"
    BY <1>8 DEF FlushStopped
  <2> QED BY <1>1, <2>1, <2>2, AccountOther
<1>9. CASE FlushFull(c)
  <2>1. comps = <<>>
    BY <1>1 DEF AccountInv
  <2> QED BY <1>1, <1>9, <2>1, AccountSame DEF FlushFull, state
<1> QED BY <1>3, <1>4, <1>5, <1>6, <1>7, <1>8, <1>9

(* and after every step. *)
LEMMA AccountKept ==
    ASSUME TypeInv, HandleInv, AccountInv, [Next]_vars
    PROVE  AccountInv'
<1>1. StateTypes /\ FrameTypes
  BY DEF TypeInv
<1>2. CASE BeginFrame \/ LifecycleDone \/ MessagesDone \/ TimeoutsDone \/ SubmitDone
           \/ FlushDone \/ SweepDone \/ Shutdown
  <2>1. comps = <<>>
    BY <1>2 DEF BeginFrame, LifecycleDone, MessagesDone, TimeoutsDone, SubmitDone,
                FlushDone, SweepDone, Shutdown, FlushPhases, AccountInv
  <2>2. /\ UNCHANGED <<sessions, attempts, nextAttempt, comps>> /\ UNCHANGED fetchPool
        /\ health' = health \/ health' # "Healthy"
    BY <1>2 DEF BeginFrame, LifecycleDone, MessagesDone, TimeoutsDone, SubmitDone,
                FlushDone, SweepDone, Shutdown, state
  <2> QED BY <2>1, <2>2, AccountSame
<1>3. CASE CompletionsDone
  BY <1>3, AccountSame DEF CompletionsDone, state
<1>4. CASE ExpiryDone
  <2>1. comps = <<>> /\ comps' = done /\ phase' = "completions" /\ UNCHANGED state
        /\ (Pool!TakeResults(Len(done)) \/ (done = <<>> /\ UNCHANGED fetchPool))
    BY <1>4 DEF ExpiryDone, AccountInv
  <2>2. UNCHANGED <<sessions, attempts, nextAttempt, health>>
    BY <2>1 DEF state
  <2>3. PoolInv' /\ Expected' = Expected \ Pool!Elems(comps')
    BY <2>1, <2>2, DrainPool DEF AccountInv
  <2>4. Pool!Elems(comps) = {} /\ Pool!Elems(comps') \subseteq Expected
    BY <2>1, ElemsEmpty DEF Expected
  <2>5. health' = "Healthy" => Agree'
    BY <2>2, <2>3, <2>4 DEF AccountInv, Agree
  <2> QED BY <2>1, <2>3, <2>5 DEF AccountInv
<1>5. CASE PreapplyLifecycle
  <2> DEFINE c == Head(events).conn
  <2>1. c \in Conns
    <3>1. Head(events) \in Events
      BY <1>1, <1>5, SeqTail DEF PreapplyLifecycle, FrameTypes
    <3> QED BY <3>1 DEF Events
  <2>2. /\ phase = "lifecycle" /\ phase' = "lifecycle" /\ comps' = comps
        /\ ApplyOpened(c) \/ ApplyClosed(c) \/ UNCHANGED <<state, fetchPool>>
    BY <1>5 DEF PreapplyLifecycle, NextEvent
  <2> HIDE DEF c
  <2>3. comps = <<>>
    BY <2>2 DEF AccountInv
  <2>4. CASE ApplyOpened(c)
    <3>1. UNCHANGED <<attempts, nextAttempt, health>> /\ UNCHANGED fetchPool
      BY <2>4 DEF ApplyOpened
    <3>2. CASE c \notin Open /\ Cardinality(Open) < MaxSessions
      <4>1. sessions' = [sessions EXCEPT ![c] = NewSession]
        BY <2>4, <3>2 DEF ApplyOpened
      <4>2. NewSession.attempt = sessions[c].attempt
        BY <2>1, <3>2 DEF NewSession, NoSession, Open, HandleInv, Handle
      <4> QED BY <2>1, <2>2, <3>1, <4>1, <4>2, AccountOther
    <3>3. CASE ~(c \notin Open /\ Cardinality(Open) < MaxSessions)
      BY <2>2, <2>3, <2>4, <3>1, <3>3, AccountSame DEF ApplyOpened
    <3> QED BY <3>2, <3>3
  <2>5. CASE ApplyClosed(c)
    <3>1. /\ sessions' = [sessions EXCEPT ![c] = NoSession] /\ CancelAttempt(c)
          /\ UNCHANGED <<nextAttempt, health>>
      BY <2>5 DEF ApplyClosed, ReleaseAll
    <3>2. NoSession.attempt = 0
      BY DEF NoSession
    <3>3. PoolInv'
      BY <2>1, <2>2, <3>1, CancelPool DEF AccountInv
    <3>4. health' = "Healthy" => Agree'
      BY <2>1, <2>2, <2>3, <3>1, <3>2, CancelAgrees DEF AccountInv
    <3> QED BY <2>2, <2>3, <3>3, <3>4 DEF AccountInv
  <2>6. CASE UNCHANGED <<state, fetchPool>>
    BY <2>2, <2>3, <2>6, AccountSame DEF state
  <2> QED BY <2>2, <2>4, <2>5, <2>6
<1>6. CASE ProcessMessages
  <2> DEFINE c == Head(events).conn
  <2>1. c \in Conns
    <3>1. Head(events) \in Events
      BY <1>1, <1>6, SeqTail DEF ProcessMessages, FrameTypes
    <3> QED BY <3>1 DEF Events
  <2>2. /\ phase = "messages" /\ phase' = "messages" /\ comps' = comps
        /\ \/ UNCHANGED <<state, fetchPool>>
           \/ \E kind \in {"Close", "Decline"} : Schedule(c, kind)
           \/ Reserve(c)
    BY <1>6 DEF ProcessMessages, NextEvent, HandleMessage
  <2> HIDE DEF c
  <2>3. CASE UNCHANGED <<state, fetchPool>>
    BY <2>2, <2>3, AccountSame DEF state, AccountInv
  <2>4. CASE Reserve(c)
    <3>1. [sessions[c] EXCEPT !.held = TRUE, !.reserved = TRUE, !.intent = "Accept"].attempt
            = sessions[c].attempt
      BY <1>1, <2>1 DEF StateTypes, SessionType
    <3> QED BY <2>1, <2>2, <2>4, <3>1, AccountOther DEF Reserve
  <2> QED BY <2>1, <2>2, <2>3, <2>4, AccountSchedule
<1>7. CASE DrainCompletion
  <2>1. /\ comps # <<>> /\ comps' = Tail(comps) /\ ApplyCompletion(Head(comps))
        /\ phase' = "completions" /\ phase = "completions"
        /\ UNCHANGED <<nextAttempt, health>> /\ UNCHANGED fetchPool
    BY <1>7 DEF DrainCompletion
  <2>2. health = "Healthy"
    BY <2>1 DEF HandleInv
  <2>3. PoolInv' /\ Agree'
    BY <2>1, <2>2, CompletionAgrees DEF AccountInv
  <2> QED BY <2>1, <2>3 DEF AccountInv
<1>8. ASSUME NEW c \in Conns,
             \/ FlushEnd(c) \/ FlushAccept(c) \/ FlushAcceptLost(c) \/ FlushHandoff(c)
             \/ FlushNoRealm(c) \/ FlushStopped(c) \/ FlushFull(c)
      PROVE  AccountInv'
  BY <1>8, AccountFlush
<1>9. ASSUME NEW c \in Conns, Sweep(c) PROVE AccountInv'
  <2>1. /\ phase = "sweep" /\ phase' = "sweep" /\ CancelAttempt(c)
        /\ UNCHANGED <<nextAttempt, health, comps>>
    BY <1>9 DEF Sweep
  <2>2. health' # "Healthy"
    BY <2>1 DEF HandleInv
  <2>3. PoolInv'
    BY <2>1, CancelPool DEF AccountInv
  <2> QED BY <2>1, <2>2, <2>3 DEF AccountInv
<1>10. ASSUME NEW c \in Conns, ExpireHandoff(c) PROVE AccountInv'
  <2>1. /\ phase = "expiry" /\ phase' = "expiry" /\ comps' = comps /\ Schedule(c, "Close")
    BY <1>10 DEF ExpireHandoff, frame
  <2> QED BY <2>1, AccountSchedule
<1>11. ASSUME NEW c \in Conns, TimeoutFetch(c) PROVE AccountInv'
  <2>1. /\ phase = "timeouts" /\ phase' = "timeouts" /\ CancelAttempt(c)
        /\ UNCHANGED <<nextAttempt, health, comps>>
        /\ FetchFailed(c, [sessions[c] EXCEPT !.attempt = 0])
    BY <1>11 DEF TimeoutFetch, frame
  <2>2. comps = <<>> /\ health = "Healthy"
    BY <2>1 DEF AccountInv, HandleInv
  <2>3. PICK t : t.attempt = 0 /\ sessions' = [sessions EXCEPT ![c] = t]
    BY <2>1, OutcomeSession
  <2>4. PoolInv' /\ Agree'
    BY <2>1, <2>2, <2>3, CancelAgrees DEF AccountInv
  <2> QED BY <2>1, <2>2, <2>4 DEF AccountInv
<1>12. ASSUME NEW c \in Conns, SubmitFetch(c) PROVE AccountInv'
  <2>1. /\ phase = "submit" /\ phase' = "submit" /\ UNCHANGED <<health, comps>>
    BY <1>12 DEF SubmitFetch, frame
  <2>2. health = "Healthy" /\ comps = <<>>
    BY <2>1 DEF HandleInv, AccountInv
  <2>3. PoolInv' /\ Agree'
    BY <1>12, <2>1, <2>2, SubmitAgrees DEF AccountInv
  <2> QED BY <2>1, <2>2, <2>3 DEF AccountInv
<1>13. CASE StopPool
  <2>1. /\ health # "Healthy" /\ health' = health /\ phase' = phase /\ comps' = comps
        /\ nextAttempt' = nextAttempt /\ Pool!Stop
    BY <1>13 DEF StopPool, state, frame
  <2>2. PoolInv'
    BY <2>1, StopPoolKept DEF AccountInv
  <2> QED BY <2>1, <2>2 DEF AccountInv
<1>14. CASE Io \/ IoFailure \/ UNCHANGED vars
  <2>1. UNCHANGED <<sessions, attempts, nextAttempt, comps, health, phase>> /\ UNCHANGED fetchPool
    BY <1>14 DEF Io, IoFailure, vars, state, frame
  <2> QED BY <2>1, AccountSame DEF AccountInv
<1>15. CASE Worker
  <2>1. /\ UNCHANGED <<sessions, attempts, nextAttempt, comps, health, phase>>
        /\ Pool!Take \/ \E id \in AttemptIds : Pool!Finish(id)
    BY <1>15 DEF Worker, state, frame
  <2>2. PoolInv' /\ Expected' = Expected
    BY <2>1, WorkerPool DEF AccountInv
  <2>3. health' = "Healthy" => Agree'
    BY <2>1, <2>2 DEF AccountInv, Agree
  <2> QED BY <2>1, <2>2, <2>3 DEF AccountInv
<1> QED BY <1>2, <1>3, <1>4, <1>5, <1>6, <1>7, <1>8, <1>9, <1>10, <1>11, <1>12, <1>13, <1>14, <1>15
        DEF Next, Frame, Deadline, Submission

-----------------------------------------------------------------------------
(* The inductive invariant. *)
IInv == TypeInv /\ HandleInv /\ BudgetInv /\ AccountInv

(* The invariant is inductive. *)
LEMMA Inductive ==
    /\ Init => IInv
    /\ IInv /\ [Next]_vars => IInv'
<1>1. Init => IInv
  BY TypesStart, HandleStart, BudgetStart, AccountStart DEF IInv
<1>2. ASSUME IInv, [Next]_vars PROVE IInv'
  BY <1>2, TypesKept, HandleKept, BudgetKept, AccountKept DEF IInv
<1> QED BY <1>1, <1>2

(* Every handle is settled, also by a pipeline that becomes unhealthy or   *)
(* is destroyed (mark_unhealthy, release_session and the destructor).      *)
THEOREM HandlesAreSettled == Spec => []HandlesSettled
<1>1. IInv => HandlesSettled
  BY DEF IInv, HandleInv, Handle, HandlesSettled
<1> QED BY <1>1, Inductive, PTL DEF Spec

(* No grant that was committed, or whose commit may have been applied, is  *)
(* released, and none that was released is committed (flush_intents,       *)
(* release_admission_reservation).                                         *)
THEOREM CommitIsFinal == Spec => NoReleaseAfterCommit
<1>1. IInv /\ [Next]_vars =>
        [\A c \in Conns : grant[c] \in {"committed", "unknown", "released"} =>
           grant'[c] = grant[c]]_vars
  BY HandleKept DEF IInv, Settled
<1> QED BY <1>1, Inductive, PTL DEF Spec, NoReleaseAfterCommit

(* fetch_used_ is the number of sessions with a reservation, within the    *)
(* capacity, and sessions, attempts_ and the pool agree on every attempt   *)
(* (release_fetch_reservation, cancel_attempt, drain_fetch_completions,    *)
(* BoundedWorkPool).                                                       *)
THEOREM AccountsComeOut == Spec => []Accounting
<1>1. ASSUME IInv PROVE Accounting
  <2>1. FetchBudget
    BY <1>1 DEF IInv, BudgetInv, Uses, Reserving, FetchBudget
  <2>2. Pool!InFlightExact
    <3>1. Pool!Cardinality(working) = Cardinality(working)
      BY DEF Pool!Cardinality, Cardinality
    <3> QED BY <1>1, <3>1 DEF IInv, AccountInv, PoolInv, PoolOk, Pool!InFlightExact
  <2>3. AttemptsMatched
    BY <1>1, <2>2 DEF IInv, AccountInv, Agree, Matched, AttemptsMatched, Open
  <2> QED BY <2>1, <2>3 DEF Accounting
<1> QED BY <1>1, Inductive, PTL DEF Spec

-----------------------------------------------------------------------------
(* The pipeline and the I/O thread.                                        *)

(* The events on their way to the pipeline, and the commands on their way  *)
(* to the connections, in the order they are visited.                      *)
Stream    == (Waiting \o inbound) \o batch
Commanded == todo \o outbound

(* Of what a sequence says of c, something of kind k comes before p. *)
Before(s, p, k, c) == \E q \in 1..(p - 1) : s[q].kind = k /\ s[q].conn = c

(* The sessions when the events before p have been visited, O being open now. *)
View(s, O, p) == {c \in Conns : /\ c \in O \/ Before(s, p, "Opened", c)
                                /\ ~Before(s, p, "Closed", c)}

Live(t) == {c \in Conns : t[c] \in {"pending", "established"}}

(* When all events have been visited the sessions are those of the live    *)
(* connections, and on the way there is room for every one that is opened. *)
StreamOk(s, O, t) ==
    /\ View(s, O, Len(s) + 1) = Live(t) /\ IsFiniteSet(Live(t))
    /\ \A p \in 1..Len(s) : s[p].kind = "Opened" =>
         /\ ~Before(s, p, "Closed", s[p].conn)
         /\ IsFiniteSet(View(s, O, p)) /\ Cardinality(View(s, O, p)) < MaxSessions
    /\ \A p \in 1..Len(s) : s[p].kind \in {"Opened", "Closed"} => t[s[p].conn] # "new"

(* An accept is ahead of what needs an established connection. *)
CommandsOk(q, t, s) ==
    /\ \A p \in 1..Len(q) : t[q[p].conn] # "new"
    /\ \A p \in 1..Len(q) : q[p].kind = "Send" =>
         t[q[p].conn] # "pending" \/ Before(q, p, "Accept", q[p].conn)
    /\ \A c \in Conns : s[c].stage # "Pending" \/ s[c].intent = "Handoff" =>
         t[c] \notin {"new", "pending"} \/ Before(q, Len(q) + 1, "Accept", c)

MatchInv ==
    /\ io \notin {"poll", "publish"} => batch = <<>>
    /\ running => StreamOk(Stream, Open, table)

CommandInv == io # "ended" => CommandsOk(Commanded, table, sessions)

(* An event does not fit into the inbound queue. *)
Drops ==
    /\ ~Room /\ UNCHANGED running
    /\ \/ batch # <<>> /\ batch' = Tail(batch)
       \/ table' # table /\ batch' = batch

(* The end of a connection is published while the event that opens it is   *)
(* still in the batch (finish_close in poll_events).                       *)
Overtakes == \E c \in Conns : Alive(c) /\ ~Alive(c)' /\ Opening(batch, c) /\ batch' = batch

InOrder == [][~Drops /\ ~Overtakes]_vars


-----------------------------------------------------------------------------
(* Sequences.                                                              *)

(* The elements of two joined sequences. *)
LEMMA CatType == ASSUME NEW S, NEW a \in Seq(S), NEW b \in Seq(S)
                 PROVE  /\ a \o b \in Seq(S) /\ Len(a \o b) = Len(a) + Len(b)
                        /\ \A i \in 1..Len(a) : (a \o b)[i] = a[i]
                        /\ \A i \in 1..Len(b) : (a \o b)[Len(a) + i] = b[i]
OBVIOUS

(* Sequences with the same elements are the same. *)
LEMMA SameSeq == ASSUME NEW S, NEW a \in Seq(S), NEW b \in Seq(S), Len(a) = Len(b),
                        \A i \in 1..Len(a) : a[i] = b[i]
                 PROVE  a = b
OBVIOUS

(* The first element of the one becomes the last of the other. *)
LEMMA CatMove == ASSUME NEW S, NEW a \in Seq(S), NEW b \in Seq(S), b # <<>>
                 PROVE  Append(a, Head(b)) \o Tail(b) = a \o b
<1> DEFINE l == Append(a, Head(b)) \o Tail(b)
<1>1. /\ Append(a, Head(b)) \in Seq(S) /\ Tail(b) \in Seq(S)
      /\ Len(Append(a, Head(b))) = Len(a) + 1 /\ Len(Tail(b)) = Len(b) - 1
      /\ Len(a) \in Nat /\ Len(b) \in Nat \ {0}
  OBVIOUS
<1>2. l \in Seq(S) /\ a \o b \in Seq(S) /\ Len(l) = Len(a \o b)
  BY <1>1, CatType
<1>3. ASSUME NEW i \in 1..Len(l) PROVE l[i] = (a \o b)[i]
  <2>1. CASE i <= Len(a)
    BY <1>1, <2>1, CatType
  <2>2. CASE i = Len(a) + 1
    <3>1. l[i] = Append(a, Head(b))[i] /\ Append(a, Head(b))[i] = Head(b)
      BY <1>1, <2>2, CatType
    <3>2. (a \o b)[Len(a) + 1] = b[1]
      BY <1>1, CatType
    <3> QED BY <2>2, <3>1, <3>2
  <2>3. CASE i > Len(a) + 1
    <3> DEFINE j == i - Len(a) - 1
    <3>1. j \in 1..Len(Tail(b)) /\ j + 1 \in 1..Len(b) /\ i = Len(a) + 1 + j
      BY <1>1, <1>2, <2>3, CatType
    <3>2. l[Len(Append(a, Head(b))) + j] = Tail(b)[j] /\ Tail(b)[j] = b[j + 1]
      BY <1>1, <3>1, CatType
    <3>3. (a \o b)[Len(a) + (j + 1)] = b[j + 1]
      BY <3>1, CatType
    <3> HIDE DEF j, l
    <3> QED BY <1>1, <3>1, <3>2, <3>3
  <2> QED BY <1>1, <1>2, <2>1, <2>2, <2>3
<1> HIDE DEF l
<1>4. l = a \o b
  BY <1>2, <1>3, SameSeq
<1> QED BY <1>4 DEF l

(* The head of the first is the head of both. *)
LEMMA CatTail == ASSUME NEW S, NEW a \in Seq(S), NEW b \in Seq(S), a # <<>>
                 PROVE  /\ Tail(a) \o b = Tail(a \o b) /\ Head(a \o b) = Head(a)
                        /\ a \o b # <<>>
<1>1. /\ Tail(a) \in Seq(S) /\ Len(Tail(a)) = Len(a) - 1
      /\ Len(a) \in Nat \ {0} /\ Len(b) \in Nat
  OBVIOUS
<1>2. a \o b \in Seq(S) /\ Len(a \o b) = Len(a) + Len(b) /\ a \o b # <<>>
      /\ (a \o b)[1] = a[1]
  BY <1>1, CatType
<1>3. Head(a \o b) = Head(a)
  BY <1>1, <1>2
<1> DEFINE l == Tail(a) \o b
           r == Tail(a \o b)
<1>4. l \in Seq(S) /\ r \in Seq(S) /\ Len(l) = Len(a) + Len(b) - 1 /\ Len(r) = Len(l)
      /\ \A i \in 1..Len(r) : r[i] = (a \o b)[i + 1]
  BY <1>1, <1>2, CatType
<1>5. ASSUME NEW i \in 1..Len(l) PROVE l[i] = r[i]
  <2>1. r[i] = (a \o b)[i + 1]
    BY <1>4
  <2>2. CASE i <= Len(a) - 1
    <3>1. l[i] = Tail(a)[i] /\ Tail(a)[i] = a[i + 1]
      BY <1>1, <2>2, CatType
    <3>2. (a \o b)[i + 1] = a[i + 1]
      BY <1>1, <2>2, CatType
    <3> QED BY <2>1, <3>1, <3>2
  <2>3. CASE i > Len(a) - 1
    <3> DEFINE j == i - (Len(a) - 1)
    <3>1. j \in 1..Len(b) /\ i = Len(Tail(a)) + j /\ i + 1 = Len(a) + j
      BY <1>1, <1>4, <2>3
    <3>2. l[Len(Tail(a)) + j] = b[j] /\ (a \o b)[Len(a) + j] = b[j]
      BY <1>1, <3>1, CatType
    <3> HIDE DEF j, l, r
    <3> QED BY <2>1, <3>1, <3>2
  <2> QED BY <1>1, <2>2, <2>3
<1> HIDE DEF l, r
<1>6. l = r
  BY <1>4, <1>5, SameSeq
<1> QED BY <1>2, <1>3, <1>6 DEF l, r

(* Cutting and joining. *)
LEMMA CatSplit == ASSUME NEW S, NEW s \in Seq(S), NEW n \in 0..Len(s)
                  PROVE  SubSeq(s, 1, n) \o SubSeq(s, n + 1, Len(s)) = s
<1> DEFINE a == SubSeq(s, 1, n)
           b == SubSeq(s, n + 1, Len(s))
<1>1. /\ a \in Seq(S) /\ b \in Seq(S) /\ Len(a) = n /\ Len(b) = Len(s) - n
      /\ \A i \in 1..n : a[i] = s[i]
      /\ \A i \in 1..(Len(s) - n) : b[i] = s[n + i]
  BY SeqSub
<1> HIDE DEF a, b
<1>2. a \o b \in Seq(S) /\ Len(a \o b) = Len(s)
  BY <1>1, CatType
<1>3. ASSUME NEW i \in 1..Len(s) PROVE (a \o b)[i] = s[i]
  <2>1. CASE i <= n
    BY <1>1, <2>1, CatType
  <2>2. CASE i > n
    <3> DEFINE j == i - n
    <3>1. j \in 1..Len(b) /\ i = Len(a) + j
      BY <1>1, <2>2
    <3>2. (a \o b)[Len(a) + j] = b[j] /\ b[j] = s[n + j]
      BY <1>1, <3>1, CatType
    <3> HIDE DEF j
    <3> QED BY <1>1, <3>1, <3>2
  <2>3. Len(s) \in Nat
    OBVIOUS
  <2>4. i \in Nat /\ n \in Nat
    BY <2>3
  <2>5. i <= n \/ i > n
    BY <2>4
  <2> QED BY <2>1, <2>2, <2>5
<1>4. a \o b = s
  BY <1>2, <1>3, SameSeq
<1> QED BY <1>4 DEF a, b

(* Joining with the empty sequence changes nothing. *)
LEMMA CatNothing == ASSUME NEW S, NEW s \in Seq(S) PROVE <<>> \o s = s /\ s \o <<>> = s
OBVIOUS

(* s2 is s with e inserted at k. *)
Inserted(s, s2, k, e) ==
    /\ k \in 1..(Len(s) + 1) /\ Len(s2) = Len(s) + 1
    /\ s2[k] = e
    /\ \A i \in 1..(k - 1) : s2[i] = s[i]
    /\ \A i \in k..Len(s) : s2[i + 1] = s[i]

(* An element that is appended is inserted at the end, *)
LEMMA AppendInserts == ASSUME NEW S, NEW s \in Seq(S), NEW e \in S
                       PROVE  Inserted(s, Append(s, e), Len(s) + 1, e)
BY DEF Inserted

(* or after the first of two sequences that are joined. *)
LEMMA CatInserts == ASSUME NEW S, NEW a \in Seq(S), NEW b \in Seq(S), NEW e \in S
                    PROVE  Inserted(a \o b, Append(a, e) \o b, Len(a) + 1, e)
<1> DEFINE a2 == Append(a, e)
<1>1. /\ a2 \in Seq(S) /\ Len(a2) = Len(a) + 1 /\ a2[Len(a) + 1] = e
      /\ \A i \in 1..Len(a) : a2[i] = a[i]
      /\ Len(a) \in Nat /\ Len(b) \in Nat
  OBVIOUS
<1> HIDE DEF a2
<1>2. Len(a \o b) = Len(a) + Len(b) /\ Len(a2 \o b) = Len(a) + 1 + Len(b)
  BY <1>1, CatType
<1>3. (a2 \o b)[Len(a) + 1] = e
  BY <1>1, CatType
<1>4. \A i \in 1..Len(a) : (a2 \o b)[i] = (a \o b)[i]
  BY <1>1, CatType
<1>5. ASSUME NEW i \in (Len(a) + 1)..(Len(a) + Len(b)) PROVE (a2 \o b)[i + 1] = (a \o b)[i]
  <2> DEFINE j == i - Len(a)
  <2>1. j \in 1..Len(b) /\ i = Len(a) + j /\ i + 1 = Len(a2) + j
    BY <1>1
  <2>2. (a \o b)[Len(a) + j] = b[j] /\ (a2 \o b)[Len(a2) + j] = b[j]
    BY <1>1, <2>1, CatType
  <2> HIDE DEF j
  <2> QED BY <2>1, <2>2
<1> QED BY <1>1, <1>2, <1>3, <1>4, <1>5 DEF Inserted, a2

(* To append to the second of two is to append to both. *)
LEMMA CatAppends == ASSUME NEW S, NEW a \in Seq(S), NEW b \in Seq(S), NEW e \in S
                    PROVE  a \o Append(b, e) = Append(a \o b, e)
OBVIOUS


-----------------------------------------------------------------------------
(* What an event more, or one less, changes.                               *)

(* What an element of a sequence of events is. *)
LEMMA EventAt == ASSUME NEW s \in Seq(Events), NEW p \in 1..Len(s)
                 PROVE  s[p] \in Events /\ s[p].conn \in Conns
<1>1. s[p] \in Events
  OBVIOUS
<1> QED BY <1>1 DEF Events

(* What is said before a place, when one event more is inserted. *)
LEMMA BeforeInserted ==
    ASSUME NEW s \in Seq(Events), NEW s2 \in Seq(Events), NEW k \in Nat, NEW e,
           Inserted(s, s2, k, e), NEW K, NEW c
    PROVE  /\ \A p \in 1..k : Before(s2, p, K, c) <=> Before(s, p, K, c)
           /\ \A p \in (k + 1)..(Len(s) + 2) :
                Before(s2, p, K, c) <=> Before(s, p - 1, K, c) \/ (e.kind = K /\ e.conn = c)
<1>0. Len(s) \in Nat /\ k \in 1..(Len(s) + 1)
  BY DEF Inserted
<1>1. ASSUME NEW p \in 1..k PROVE Before(s2, p, K, c) <=> Before(s, p, K, c)
  <2>1. \A q \in 1..(p - 1) : q \in 1..(k - 1)
    BY <1>0
  <2>2. \A q \in 1..(p - 1) : s2[q] = s[q]
    BY <2>1 DEF Inserted
  <2> QED BY <2>2 DEF Before
<1>2. ASSUME NEW p \in (k + 1)..(Len(s) + 2)
      PROVE  Before(s2, p, K, c) <=> Before(s, p - 1, K, c) \/ (e.kind = K /\ e.conn = c)
  <2>1. ASSUME Before(s2, p, K, c)
        PROVE  Before(s, p - 1, K, c) \/ (e.kind = K /\ e.conn = c)
    <3>1. PICK q \in 1..(p - 1) : s2[q].kind = K /\ s2[q].conn = c
      BY <2>1 DEF Before
    <3>2. CASE q < k
      <4>1. q \in 1..(k - 1) /\ q \in 1..((p - 1) - 1)
        BY <1>0, <3>2
      <4> QED BY <3>1, <4>1 DEF Before, Inserted
    <3>3. CASE q = k
      BY <3>1, <3>3 DEF Inserted
    <3>4. CASE q > k
      <4>1. q - 1 \in k..Len(s) /\ q - 1 \in 1..((p - 1) - 1) /\ (q - 1) + 1 = q
        BY <1>0, <3>4
      <4>2. s2[(q - 1) + 1] = s[q - 1]
        BY <4>1 DEF Inserted
      <4> QED BY <3>1, <4>1, <4>2 DEF Before
    <3> QED BY <1>0, <3>2, <3>3, <3>4
  <2>2. ASSUME Before(s, p - 1, K, c) PROVE Before(s2, p, K, c)
    <3>1. PICK q \in 1..((p - 1) - 1) : s[q].kind = K /\ s[q].conn = c
      BY <2>2 DEF Before
    <3>2. CASE q < k
      <4>1. q \in 1..(k - 1) /\ q \in 1..(p - 1)
        BY <1>0, <3>2
      <4> QED BY <3>1, <4>1 DEF Before, Inserted
    <3>3. CASE q >= k
      <4>1. q \in k..Len(s) /\ q + 1 \in 1..(p - 1)
        BY <1>0, <3>3
      <4>2. s2[q + 1] = s[q]
        BY <4>1 DEF Inserted
      <4> QED BY <3>1, <4>1, <4>2 DEF Before
    <3> QED BY <1>0, <3>2, <3>3
  <2>3. ASSUME e.kind = K /\ e.conn = c PROVE Before(s2, p, K, c)
    <3>1. k \in 1..(p - 1)
      BY <1>0
    <3> QED BY <2>3, <3>1 DEF Before, Inserted
  <2> QED BY <2>1, <2>2, <2>3
<1> QED BY <1>1, <1>2

(* Where an element of the longer sequence was. *)
LEMMA InsertedAt ==
    ASSUME NEW s \in Seq(Events), NEW s2 \in Seq(Events), NEW k \in Nat, NEW e,
           Inserted(s, s2, k, e), NEW p \in 1..Len(s2)
    PROVE  \/ p \in 1..Len(s) /\ p < k /\ s2[p] = s[p]
           \/ p = k /\ s2[p] = e
           \/ p > k /\ p - 1 \in 1..Len(s) /\ s2[p] = s[p - 1]
<1>0. Len(s) \in Nat /\ k \in 1..(Len(s) + 1) /\ Len(s2) = Len(s) + 1
  BY DEF Inserted
<1>1. CASE p < k
  BY <1>0, <1>1 DEF Inserted
<1>2. CASE p = k
  BY <1>2 DEF Inserted
<1>3. CASE p > k
  <2>1. p - 1 \in k..Len(s) /\ (p - 1) + 1 = p
    BY <1>0, <1>3
  <2>2. s2[(p - 1) + 1] = s[p - 1]
    BY <2>1 DEF Inserted
  <2> QED BY <1>0, <1>3, <2>1, <2>2
<1>4. p \in Nat /\ k \in Nat
  BY <1>0
<1> QED BY <1>1, <1>2, <1>3, <1>4

(* An event that neither opens nor ends. *)
LEMMA StreamOther ==
    ASSUME NEW s \in Seq(Events), NEW s2 \in Seq(Events), NEW k \in Nat, NEW e,
           Inserted(s, s2, k, e), NEW O, NEW t, NEW t2, StreamOk(s, O, t),
           e.kind \notin {"Opened", "Closed"},
           \A c \in Conns : /\ t[c] # "new" => t2[c] # "new"
                            /\ c \in Live(t2) <=> c \in Live(t)
    PROVE  StreamOk(s2, O, t2)
<1>0. Len(s) \in Nat /\ k \in 1..(Len(s) + 1) /\ Len(s2) = Len(s) + 1
  BY DEF Inserted
<1>1. ASSUME NEW p \in 1..k
      PROVE  /\ \A c : Before(s2, p, "Closed", c) <=> Before(s, p, "Closed", c)
             /\ View(s2, O, p) = View(s, O, p)
  <2>1. \A K, c : Before(s2, p, K, c) <=> Before(s, p, K, c)
    BY BeforeInserted
  <2> QED BY <2>1 DEF View
<1>2. ASSUME NEW p \in (k + 1)..(Len(s) + 2)
      PROVE  /\ \A c : Before(s2, p, "Closed", c) <=> Before(s, p - 1, "Closed", c)
             /\ View(s2, O, p) = View(s, O, p - 1)
  <2>1. /\ \A c : Before(s2, p, "Opened", c) <=> Before(s, p - 1, "Opened", c)
        /\ \A c : Before(s2, p, "Closed", c) <=> Before(s, p - 1, "Closed", c)
    BY BeforeInserted
  <2> QED BY <2>1 DEF View
<1>3. ASSUME NEW p \in 1..Len(s2), s2[p].kind = "Opened"
      PROVE  /\ ~Before(s2, p, "Closed", s2[p].conn)
             /\ IsFiniteSet(View(s2, O, p)) /\ Cardinality(View(s2, O, p)) < MaxSessions
  <2>1. CASE p \in 1..Len(s) /\ p < k /\ s2[p] = s[p]
    <3>1. p \in 1..k
      BY <1>0, <2>1
    <3> QED BY <1>1, <1>3, <2>1, <3>1 DEF StreamOk
  <2>2. CASE p > k /\ p - 1 \in 1..Len(s) /\ s2[p] = s[p - 1]
    <3>1. p \in (k + 1)..(Len(s) + 2)
      BY <1>0, <2>2
    <3> QED BY <1>2, <1>3, <2>2, <3>1 DEF StreamOk
  <2> QED BY <1>3, <2>1, <2>2, InsertedAt
<1>4. ASSUME NEW p \in 1..Len(s2), s2[p].kind \in {"Opened", "Closed"}
      PROVE  t2[s2[p].conn] # "new"
  <2>1. s2[p].conn \in Conns
    BY EventAt
  <2>2. PICK q \in 1..Len(s) : s2[p] = s[q]
    BY <1>4, InsertedAt
  <2> QED BY <1>4, <2>1, <2>2 DEF StreamOk
<1>5. View(s2, O, Len(s2) + 1) = View(s, O, Len(s) + 1)
  <2>1. Len(s2) + 1 \in (k + 1)..(Len(s) + 2) /\ (Len(s2) + 1) - 1 = Len(s) + 1
    BY <1>0
  <2> QED BY <1>2, <2>1
<1>6. Live(t2) = Live(t)
  BY DEF Live
<1> QED BY <1>3, <1>4, <1>5, <1>6 DEF StreamOk

(* The end of a live connection, after the event that opens it. *)
LEMMA StreamClosed ==
    ASSUME NEW s \in Seq(Events), NEW s2 \in Seq(Events), NEW k \in Nat, NEW e,
           Inserted(s, s2, k, e), NEW O, NEW t \in [Conns -> Stage4], StreamOk(s, O, t),
           e.kind = "Closed", e.conn \in Live(t),
           \A p \in k..Len(s) : ~(s[p].kind = "Opened" /\ s[p].conn = e.conn)
    PROVE  StreamOk(s2, O, [t EXCEPT ![e.conn] = "gone"])
<1> DEFINE t2 == [t EXCEPT ![e.conn] = "gone"]
<1>0. Len(s) \in Nat /\ k \in 1..(Len(s) + 1) /\ Len(s2) = Len(s) + 1
  BY DEF Inserted
<1>1. ASSUME NEW p \in 1..k
      PROVE  /\ \A c : Before(s2, p, "Closed", c) <=> Before(s, p, "Closed", c)
             /\ View(s2, O, p) = View(s, O, p)
  <2>1. \A K, c : Before(s2, p, K, c) <=> Before(s, p, K, c)
    BY BeforeInserted
  <2> QED BY <2>1 DEF View
<1>2. ASSUME NEW p \in (k + 1)..(Len(s) + 2)
      PROVE  /\ \A c : Before(s2, p, "Closed", c) <=> Before(s, p - 1, "Closed", c) \/ c = e.conn
             /\ View(s2, O, p) = View(s, O, p - 1) \ {e.conn}
  <2>1. \A K, c : Before(s2, p, K, c) <=> Before(s, p - 1, K, c) \/ (e.kind = K /\ e.conn = c)
    BY BeforeInserted
  <2>2. /\ \A c : Before(s2, p, "Opened", c) <=> Before(s, p - 1, "Opened", c)
        /\ \A c : Before(s2, p, "Closed", c) <=> Before(s, p - 1, "Closed", c) \/ c = e.conn
    BY <2>1
  <2> QED BY <2>2 DEF View
<1>3. ASSUME NEW p \in 1..Len(s2), s2[p].kind = "Opened"
      PROVE  /\ ~Before(s2, p, "Closed", s2[p].conn)
             /\ IsFiniteSet(View(s2, O, p)) /\ Cardinality(View(s2, O, p)) < MaxSessions
  <2>1. CASE p \in 1..Len(s) /\ p < k /\ s2[p] = s[p]
    <3>1. p \in 1..k
      BY <1>0, <2>1
    <3> QED BY <1>1, <1>3, <2>1, <3>1 DEF StreamOk
  <2>2. CASE p > k /\ p - 1 \in 1..Len(s) /\ s2[p] = s[p - 1]
    <3>1. p \in (k + 1)..(Len(s) + 2) /\ p - 1 \in k..Len(s)
      BY <1>0, <2>2
    <3>2. s2[p].conn # e.conn
      BY <1>3, <2>2, <3>1
    <3>3. /\ ~Before(s, p - 1, "Closed", s2[p].conn)
          /\ IsFiniteSet(View(s, O, p - 1)) /\ Cardinality(View(s, O, p - 1)) < MaxSessions
      BY <1>3, <2>2 DEF StreamOk
    <3>4. View(s2, O, p) \subseteq View(s, O, p - 1)
      BY <1>2, <3>1
    <3>5. /\ IsFiniteSet(View(s2, O, p))
          /\ Cardinality(View(s2, O, p)) <= Cardinality(View(s, O, p - 1))
          /\ Cardinality(View(s2, O, p)) \in Nat /\ Cardinality(View(s, O, p - 1)) \in Nat
      BY <3>3, <3>4, FS_Subset, FS_CardinalityType
    <3> QED BY <1>2, <3>1, <3>2, <3>3, <3>5, EdgeAssumption DEF EdgeAssumption
  <2> QED BY <1>3, <2>1, <2>2, InsertedAt
<1>4. ASSUME NEW p \in 1..Len(s2), s2[p].kind \in {"Opened", "Closed"}
      PROVE  t2[s2[p].conn] # "new"
  <2>1. s2[p].conn \in Conns
    BY EventAt
  <2>2. s2[p] = e \/ \E q \in 1..Len(s) : s2[p] = s[q]
    BY InsertedAt
  <2> QED BY <1>4, <2>1, <2>2 DEF StreamOk
<1>5. Live(t2) = Live(t) \ {e.conn}
  BY DEF Live
<1>6. View(s2, O, Len(s2) + 1) = Live(t2)
  <2>1. Len(s2) + 1 \in (k + 1)..(Len(s) + 2) /\ (Len(s2) + 1) - 1 = Len(s) + 1
    BY <1>0
  <2> QED BY <1>2, <1>5, <2>1 DEF StreamOk
<1>7. IsFiniteSet(Live(t2))
  BY <1>5, FS_Subset DEF StreamOk
<1> HIDE DEF t2
<1>8. StreamOk(s2, O, t2)
  BY <1>3, <1>4, <1>6, <1>7 DEF StreamOk
<1> QED BY <1>8 DEF t2

(* A connection is opened. *)
LEMMA StreamOpened ==
    ASSUME NEW s \in Seq(Events), NEW e \in Events, NEW O,
           NEW t \in [Conns -> Stage4], StreamOk(s, O, t),
           e.kind = "Opened", t[e.conn] = "new", Cardinality(Live(t)) < MaxSessions
    PROVE  StreamOk(Append(s, e), O, [t EXCEPT ![e.conn] = "pending"])
<1> DEFINE t2 == [t EXCEPT ![e.conn] = "pending"]
           s2 == Append(s, e)
           k  == Len(s) + 1
<1>a. Len(s) \in Nat /\ Len(s2) = Len(s) + 1 /\ s2 \in Seq(Events) /\ k \in Nat
  OBVIOUS
<1>b. Inserted(s, s2, k, e)
  BY AppendInserts
<1>0. Len(s) \in Nat /\ Len(s2) = Len(s) + 1 /\ s2 \in Seq(Events) /\ k \in Nat
      /\ Inserted(s, s2, k, e) /\ e.conn \in Conns
  BY <1>a, <1>b DEF Events
<1> HIDE DEF s2, t2
<1>1. ASSUME NEW p \in 1..k
      PROVE  /\ \A c : Before(s2, p, "Closed", c) <=> Before(s, p, "Closed", c)
             /\ View(s2, O, p) = View(s, O, p)
  <2>1. \A K, c : Before(s2, p, K, c) <=> Before(s, p, K, c)
    BY <1>0, BeforeInserted
  <2> QED BY <2>1 DEF View
<1>2. ~Before(s, k, "Closed", e.conn)
  BY <1>0 DEF Before, StreamOk
<1>3. ASSUME NEW p \in 1..Len(s2), s2[p].kind = "Opened"
      PROVE  /\ ~Before(s2, p, "Closed", s2[p].conn)
             /\ IsFiniteSet(View(s2, O, p)) /\ Cardinality(View(s2, O, p)) < MaxSessions
  <2>1. CASE p \in 1..Len(s) /\ p < k /\ s2[p] = s[p]
    <3>1. p \in 1..k
      BY <1>0, <2>1
    <3> QED BY <1>1, <1>3, <2>1, <3>1 DEF StreamOk
  <2>2. CASE p = k /\ s2[p] = e
    <3>1. p \in 1..k /\ p = Len(s) + 1
      BY <1>0, <2>2
    <3> QED BY <1>1, <1>2, <2>2, <3>1 DEF StreamOk
  <2>3. ~(p > k)
    BY <1>0
  <2> QED BY <1>0, <2>1, <2>2, <2>3, InsertedAt
<1>4. ASSUME NEW p \in 1..Len(s2), s2[p].kind \in {"Opened", "Closed"}
      PROVE  t2[s2[p].conn] # "new"
  <2>1. s2[p].conn \in Conns
    BY <1>0, EventAt
  <2>2. s2[p] = e \/ \E q \in 1..Len(s) : s2[p] = s[q]
    BY <1>0, InsertedAt
  <2> QED BY <1>4, <2>1, <2>2 DEF StreamOk, t2
<1>5. Live(t2) = Live(t) \cup {e.conn}
  BY <1>0 DEF Live, t2
<1>6. View(s2, O, Len(s2) + 1) = Live(t2)
  <2>1. Len(s2) + 1 \in (k + 1)..(Len(s) + 2) /\ (Len(s2) + 1) - 1 = Len(s) + 1
    BY <1>0
  <2>2. \A c : Before(s2, Len(s2) + 1, "Opened", c)
                 <=> Before(s, Len(s) + 1, "Opened", c) \/ c = e.conn
    BY <1>0, <2>1, BeforeInserted
  <2>3. \A c : Before(s2, Len(s2) + 1, "Closed", c) <=> Before(s, Len(s) + 1, "Closed", c)
    BY <1>0, <2>1, BeforeInserted
  <2>4. View(s2, O, Len(s2) + 1) = View(s, O, Len(s) + 1) \cup {e.conn}
    BY <1>0, <1>2, <2>2, <2>3 DEF View
  <2> QED BY <1>5, <2>4 DEF StreamOk
<1>7. IsFiniteSet(Live(t2))
  <2>1. IsFiniteSet(Live(t))
    BY DEF StreamOk
  <2>2. IsFiniteSet(Live(t) \cup {e.conn})
    BY <2>1, FS_AddElement
  <2> QED BY <1>5, <2>2
<1>8. StreamOk(s2, O, t2)
  BY <1>3, <1>4, <1>6, <1>7 DEF StreamOk
<1> QED BY <1>8 DEF s2, t2


(* The pipeline visits the first event. *)
LEMMA BeforeTail ==
    ASSUME NEW s \in Seq(Events), s # <<>>, NEW p \in 1..Len(s), NEW K, NEW c
    PROVE  Before(s, p + 1, K, c)
             <=> Before(Tail(s), p, K, c) \/ (Head(s).kind = K /\ Head(s).conn = c)
<1>1. /\ Len(s) \in Nat \ {0} /\ Head(s) = s[1] /\ Tail(s) \in Seq(Events)
      /\ Len(Tail(s)) = Len(s) - 1 /\ \A i \in 1..Len(Tail(s)) : Tail(s)[i] = s[i + 1]
  OBVIOUS
<1>2. ASSUME Before(s, p + 1, K, c)
      PROVE  Before(Tail(s), p, K, c) \/ (Head(s).kind = K /\ Head(s).conn = c)
  <2>1. PICK q \in 1..((p + 1) - 1) : s[q].kind = K /\ s[q].conn = c
    BY <1>2 DEF Before
  <2>2. CASE q = 1
    BY <1>1, <2>1, <2>2
  <2>3. CASE q # 1
    <3>1. q - 1 \in 1..Len(Tail(s)) /\ q - 1 \in 1..(p - 1) /\ (q - 1) + 1 = q
      BY <1>1, <2>3
    <3>2. Tail(s)[q - 1] = s[q]
      BY <1>1, <3>1
    <3> QED BY <2>1, <3>1, <3>2 DEF Before
  <2> QED BY <2>2, <2>3
<1>3. ASSUME Before(Tail(s), p, K, c) PROVE Before(s, p + 1, K, c)
  <2>1. PICK q \in 1..(p - 1) : Tail(s)[q].kind = K /\ Tail(s)[q].conn = c
    BY <1>3 DEF Before
  <2>2. q \in 1..Len(Tail(s)) /\ q + 1 \in 1..((p + 1) - 1)
    BY <1>1
  <2>3. Tail(s)[q] = s[q + 1]
    BY <1>1, <2>2
  <2> QED BY <2>1, <2>2, <2>3 DEF Before
<1>4. ASSUME Head(s).kind = K /\ Head(s).conn = c PROVE Before(s, p + 1, K, c)
  <2>1. 1 \in 1..((p + 1) - 1)
    BY <1>1
  <2> QED BY <1>1, <1>4, <2>1 DEF Before
<1> QED BY <1>2, <1>3, <1>4

(* There is room for a connection that is opened now, *)
LEMMA RoomToOpen ==
    ASSUME NEW s \in Seq(Events), s # <<>>, NEW O, O \subseteq Conns, NEW t, StreamOk(s, O, t),
           Head(s).kind = "Opened"
    PROVE  Cardinality(O) < MaxSessions
<1>1. 1 \in 1..Len(s) /\ Head(s) = s[1]
  OBVIOUS
<1>2. View(s, O, 1) = O
  BY DEF View, Before
<1> QED BY <1>1, <1>2 DEF StreamOk

(* and the sessions are as expected afterwards. *)
LEMMA StreamVisit ==
    ASSUME NEW s \in Seq(Events), s # <<>>, NEW O, O \subseteq Conns, NEW t, StreamOk(s, O, t),
           NEW O2,
           LET e == Head(s) IN
             \/ e.kind = "Opened" /\ O2 = O \cup {e.conn}
             \/ e.kind = "Closed" /\ O2 = O \ {e.conn}
             \/ e.kind \notin {"Opened", "Closed"} /\ O2 = O
    PROVE  StreamOk(Tail(s), O2, t)
<1> DEFINE e == Head(s)
<1>1. /\ Len(s) \in Nat \ {0} /\ e = s[1] /\ Tail(s) \in Seq(Events)
      /\ Len(Tail(s)) = Len(s) - 1 /\ \A i \in 1..Len(Tail(s)) : Tail(s)[i] = s[i + 1]
  OBVIOUS
<1>2. \/ e.kind = "Opened" /\ O2 = O \cup {e.conn}
      \/ e.kind = "Closed" /\ O2 = O \ {e.conn}
      \/ e.kind \notin {"Opened", "Closed"} /\ O2 = O
  OBVIOUS
<1>3. e.conn \in Conns
  BY <1>1, EventAt
<1>4. ASSUME NEW p \in 1..Len(s), NEW K, NEW c
      PROVE  Before(s, p + 1, K, c)
               <=> Before(Tail(s), p, K, c) \/ (e.kind = K /\ e.conn = c)
  BY BeforeTail
<1> HIDE DEF e
<1>5. ASSUME NEW p \in 1..Len(s) PROVE View(Tail(s), O2, p) = View(s, O, p + 1)
  <2>1. CASE e.kind = "Opened"
    <3>1. \A c : /\ Before(s, p + 1, "Opened", c) <=> Before(Tail(s), p, "Opened", c) \/ e.conn = c
                 /\ Before(s, p + 1, "Closed", c) <=> Before(Tail(s), p, "Closed", c)
      BY <1>4, <2>1
    <3> QED BY <1>2, <1>3, <2>1, <3>1 DEF View
  <2>2. CASE e.kind = "Closed"
    <3>1. \A c : /\ Before(s, p + 1, "Opened", c) <=> Before(Tail(s), p, "Opened", c)
                 /\ Before(s, p + 1, "Closed", c) <=> Before(Tail(s), p, "Closed", c) \/ e.conn = c
      BY <1>4, <2>2
    <3>2. ~Before(Tail(s), p, "Opened", e.conn)
      <4>1. SUFFICES ASSUME Before(Tail(s), p, "Opened", e.conn) PROVE FALSE
        OBVIOUS
      <4>2. PICK q \in 1..(p - 1) : Tail(s)[q].kind = "Opened" /\ Tail(s)[q].conn = e.conn
        BY <4>1 DEF Before
      <4>3. q \in 1..Len(Tail(s)) /\ q \in 1..Len(s) /\ q + 1 \in 1..Len(s)
        BY <1>1
      <4>4. s[q + 1].kind = "Opened" /\ s[q + 1].conn = e.conn
        BY <1>1, <4>2, <4>3
      <4>5. Before(s, q + 1, "Closed", e.conn)
        BY <1>4, <2>2, <4>3
      <4> QED BY <4>3, <4>4, <4>5 DEF StreamOk
    <3> QED BY <1>2, <1>3, <2>2, <3>1, <3>2 DEF View
  <2>3. CASE e.kind \notin {"Opened", "Closed"}
    <3>1. \A c : /\ Before(s, p + 1, "Opened", c) <=> Before(Tail(s), p, "Opened", c)
                 /\ Before(s, p + 1, "Closed", c) <=> Before(Tail(s), p, "Closed", c)
      BY <1>4, <2>3
    <3> QED BY <1>2, <2>3, <3>1 DEF View
  <2> QED BY <2>1, <2>2, <2>3
<1>6. ASSUME NEW p \in 1..Len(Tail(s)), Tail(s)[p].kind = "Opened"
      PROVE  /\ ~Before(Tail(s), p, "Closed", Tail(s)[p].conn)
             /\ IsFiniteSet(View(Tail(s), O2, p))
             /\ Cardinality(View(Tail(s), O2, p)) < MaxSessions
  <2>1. p \in 1..Len(s) /\ p + 1 \in 1..Len(s) /\ Tail(s)[p] = s[p + 1]
    BY <1>1
  <2>2. /\ ~Before(s, p + 1, "Closed", s[p + 1].conn)
        /\ IsFiniteSet(View(s, O, p + 1)) /\ Cardinality(View(s, O, p + 1)) < MaxSessions
    BY <1>6, <2>1 DEF StreamOk
  <2> QED BY <1>4, <1>5, <2>1, <2>2
<1>7. ASSUME NEW p \in 1..Len(Tail(s)), Tail(s)[p].kind \in {"Opened", "Closed"}
      PROVE  t[Tail(s)[p].conn] # "new"
  <2>1. p + 1 \in 1..Len(s) /\ Tail(s)[p] = s[p + 1]
    BY <1>1
  <2> QED BY <1>7, <2>1 DEF StreamOk
<1>8. View(Tail(s), O2, Len(Tail(s)) + 1) = View(s, O, Len(s) + 1)
  <2>1. Len(s) \in 1..Len(s) /\ Len(Tail(s)) + 1 = Len(s)
    BY <1>1
  <2> QED BY <1>5, <2>1
<1> QED BY <1>6, <1>7, <1>8 DEF StreamOk

(* Nothing on its way. *)
LEMMA StreamEmpty ==
    ASSUME NEW t, \A c \in Conns : t[c] = "new" PROVE StreamOk(<<>>, {}, t)
<1>1. View(<<>>, {}, Len(<<>>) + 1) = {} /\ Live(t) = {}
  BY DEF View, Before, Live
<1> QED BY <1>1, FS_EmptySet DEF StreamOk

-----------------------------------------------------------------------------
(* Commands.                                                               *)

(* What an element of a sequence of commands is. *)
LEMMA CommandAt == ASSUME NEW s \in Seq(Commands), NEW p \in 1..Len(s)
                   PROVE  s[p] \in Commands /\ s[p].conn \in Conns
<1>1. s[p] \in Commands
  OBVIOUS
<1> QED BY <1>1 DEF Commands

(* Connections and sessions go on: nobody is forgotten, and who came so    *)
(* far was let in before.                                                  *)
GoesOn(t, s, t2, s2) ==
    \A c \in Conns :
      /\ t[c] # "new" => t2[c] # "new"
      /\ t2[c] = "pending" => t[c] \in {"new", "pending"}
      /\ t2[c] = "new" => t[c] = "new"
      /\ s2[c].stage # "Pending" \/ s2[c].intent = "Handoff" =>
           s[c].stage # "Pending" \/ s[c].intent = "Handoff"

(* Commands stay in order when no session is let in and no connection   *)
(* becomes pending.                                                        *)
LEMMA CommandsSame ==
    ASSUME NEW q \in Seq(Commands), NEW t, NEW s, NEW t2, NEW s2, CommandsOk(q, t, s),
           GoesOn(t, s, t2, s2)
    PROVE  CommandsOk(q, t2, s2)
<1>1. \A p \in 1..Len(q) : q[p].conn \in Conns
  BY CommandAt
<1>2. \A p \in 1..Len(q) : t2[q[p].conn] # "new"
  BY <1>1 DEF CommandsOk, GoesOn
<1>3. ASSUME NEW p \in 1..Len(q), q[p].kind = "Send"
      PROVE  t2[q[p].conn] # "pending" \/ Before(q, p, "Accept", q[p].conn)
  BY <1>1, <1>3 DEF CommandsOk, GoesOn
<1>4. ASSUME NEW c \in Conns, s2[c].stage # "Pending" \/ s2[c].intent = "Handoff"
      PROVE  t2[c] \notin {"new", "pending"} \/ Before(q, Len(q) + 1, "Accept", c)
  BY <1>4 DEF CommandsOk, GoesOn
<1> QED BY <1>2, <1>3, <1>4 DEF CommandsOk

(* What is before p when one command more is at the end. *)
LEMMA BeforeLast ==
    ASSUME NEW S, NEW q \in Seq(S), NEW x \in S, NEW K, NEW c
    PROVE  /\ \A p \in 1..(Len(q) + 1) : Before(Append(q, x), p, K, c) <=> Before(q, p, K, c)
           /\ Before(Append(q, x), Len(q) + 2, K, c)
                <=> Before(q, Len(q) + 1, K, c) \/ (x.kind = K /\ x.conn = c)
<1> DEFINE r == Append(q, x)
<1>1. /\ Len(q) \in Nat /\ Len(r) = Len(q) + 1 /\ r[Len(q) + 1] = x
      /\ \A i \in 1..Len(q) : r[i] = q[i]
  OBVIOUS
<1> HIDE DEF r
<1>2. ASSUME NEW p \in 1..(Len(q) + 1) PROVE Before(r, p, K, c) <=> Before(q, p, K, c)
  <2>1. \A i \in 1..(p - 1) : r[i] = q[i]
    BY <1>1
  <2> QED BY <2>1 DEF Before
<1>3. ASSUME Before(r, Len(q) + 2, K, c)
      PROVE  Before(q, Len(q) + 1, K, c) \/ (x.kind = K /\ x.conn = c)
  <2>1. PICK i \in 1..((Len(q) + 2) - 1) : r[i].kind = K /\ r[i].conn = c
    BY <1>3 DEF Before
  <2>2. i = Len(q) + 1 \/ (i \in 1..((Len(q) + 1) - 1) /\ i \in 1..Len(q))
    BY <1>1
  <2> QED BY <1>1, <2>1, <2>2 DEF Before
<1>4. ASSUME Before(q, Len(q) + 1, K, c) PROVE Before(r, Len(q) + 2, K, c)
  <2>1. PICK i \in 1..((Len(q) + 1) - 1) : q[i].kind = K /\ q[i].conn = c
    BY <1>4 DEF Before
  <2>2. i \in 1..Len(q) /\ i \in 1..((Len(q) + 2) - 1)
    BY <1>1
  <2> QED BY <1>1, <2>1, <2>2 DEF Before
<1>5. ASSUME x.kind = K /\ x.conn = c PROVE Before(r, Len(q) + 2, K, c)
  <2>1. Len(q) + 1 \in 1..((Len(q) + 2) - 1)
    BY <1>1
  <2> QED BY <1>1, <1>5, <2>1 DEF Before
<1> QED BY <1>2, <1>3, <1>4, <1>5 DEF r

(* A command is queued: an accept, or a send for a session that was let in. *)
LEMMA CommandsMore ==
    ASSUME NEW q \in Seq(Commands), NEW k \in CmdKinds, NEW d \in Conns, NEW t, NEW s, NEW s2,
           CommandsOk(q, t, s), t[d] # "new",
           k = "Send" => s[d].stage # "Pending" \/ s[d].intent = "Handoff",
           \A c \in Conns : c # d \/ k # "Accept" =>
             (s2[c].stage # "Pending" \/ s2[c].intent = "Handoff" =>
                s[c].stage # "Pending" \/ s[c].intent = "Handoff")
    PROVE  CommandsOk(Append(q, [kind |-> k, conn |-> d]), t, s2)
<1> DEFINE x == [kind |-> k, conn |-> d]
           r == Append(q, x)
<1>1. x \in Commands /\ x.kind = k /\ x.conn = d
  BY DEF Commands
<1> HIDE DEF x
<1>2. /\ Len(q) \in Nat /\ Len(r) = Len(q) + 1 /\ r[Len(q) + 1] = x
      /\ \A i \in 1..Len(q) : r[i] = q[i]
  BY <1>1
<1>3. ASSUME NEW K, NEW c
      PROVE  /\ \A p \in 1..(Len(q) + 1) : Before(r, p, K, c) <=> Before(q, p, K, c)
             /\ Before(r, Len(q) + 2, K, c)
                  <=> Before(q, Len(q) + 1, K, c) \/ (k = K /\ d = c)
  BY <1>1, BeforeLast
<1> HIDE DEF r
<1>4. \A p \in 1..Len(r) : p \in 1..Len(q) \/ p = Len(q) + 1
  BY <1>2
<1>5. \A p \in 1..Len(r) : t[r[p].conn] # "new"
  BY <1>1, <1>2, <1>4 DEF CommandsOk
<1>6. ASSUME NEW p \in 1..Len(r), r[p].kind = "Send"
      PROVE  t[r[p].conn] # "pending" \/ Before(r, p, "Accept", r[p].conn)
  <2>1. CASE p \in 1..Len(q)
    <3>1. p \in 1..(Len(q) + 1) /\ r[p] = q[p]
      BY <1>2, <2>1
    <3>2. t[q[p].conn] # "pending" \/ Before(q, p, "Accept", q[p].conn)
      BY <1>6, <2>1, <3>1 DEF CommandsOk
    <3> QED BY <1>3, <3>1, <3>2
  <2>2. CASE p = Len(q) + 1
    <3>1. p \in 1..(Len(q) + 1) /\ r[p] = x /\ k = "Send"
      BY <1>1, <1>2, <1>6, <2>2
    <3>2. t[d] \notin {"new", "pending"} \/ Before(q, Len(q) + 1, "Accept", d)
      BY <3>1 DEF CommandsOk
    <3> QED BY <1>1, <1>3, <2>2, <3>1, <3>2
  <2> QED BY <1>4, <2>1, <2>2
<1>7. ASSUME NEW c \in Conns, s2[c].stage # "Pending" \/ s2[c].intent = "Handoff"
      PROVE  t[c] \notin {"new", "pending"} \/ Before(r, Len(r) + 1, "Accept", c)
  <2>1. Len(r) + 1 = Len(q) + 2
    BY <1>2
  <2>2. CASE c = d /\ k = "Accept"
    BY <1>3, <2>1, <2>2
  <2>3. CASE c # d \/ k # "Accept"
    <3>1. t[c] \notin {"new", "pending"} \/ Before(q, Len(q) + 1, "Accept", c)
      BY <1>7, <2>3 DEF CommandsOk
    <3> QED BY <1>3, <2>1, <3>1
  <2> QED BY <2>2, <2>3
<1>8. CommandsOk(r, t, s2)
  BY <1>5, <1>6, <1>7 DEF CommandsOk
<1> QED BY <1>8 DEF r, x

(* A command is processed: after an accept nobody is pending. *)
LEMMA CommandsLess ==
    ASSUME NEW q \in Seq(Commands), q # <<>>, NEW t, NEW s, NEW t2, CommandsOk(q, t, s),
           GoesOn(t, s, t2, s),
           Head(q).kind = "Accept" => t2[Head(q).conn] \notin {"new", "pending"}
    PROVE  CommandsOk(Tail(q), t2, s)
<1>1. /\ Len(q) \in Nat \ {0} /\ Head(q) = q[1] /\ Tail(q) \in Seq(Commands)
      /\ Len(Tail(q)) = Len(q) - 1 /\ \A i \in 1..Len(Tail(q)) : Tail(q)[i] = q[i + 1]
  OBVIOUS
<1>2. CommandsOk(q, t2, s)
  BY CommandsSame
<1>3. ASSUME NEW p \in 1..Len(q), NEW c, Before(q, p + 1, "Accept", c)
      PROVE  Before(Tail(q), p, "Accept", c) \/ t2[c] \notin {"new", "pending"}
  <2>1. PICK i \in 1..((p + 1) - 1) : q[i].kind = "Accept" /\ q[i].conn = c
    BY <1>3 DEF Before
  <2>2. CASE i = 1
    BY <1>1, <2>1, <2>2
  <2>3. CASE i # 1
    <3>1. i - 1 \in 1..Len(Tail(q)) /\ i - 1 \in 1..(p - 1) /\ (i - 1) + 1 = i
      BY <1>1, <2>3
    <3>2. Tail(q)[i - 1] = q[i]
      BY <1>1, <3>1
    <3> QED BY <2>1, <3>1, <3>2 DEF Before
  <2> QED BY <2>2, <2>3
<1>4. ASSUME NEW p \in 1..Len(Tail(q))
      PROVE  /\ t2[Tail(q)[p].conn] # "new"
             /\ Tail(q)[p].kind = "Send" =>
                  t2[Tail(q)[p].conn] # "pending" \/ Before(Tail(q), p, "Accept", Tail(q)[p].conn)
  <2>1. p \in 1..Len(q) /\ p + 1 \in 1..Len(q) /\ Tail(q)[p] = q[p + 1]
    BY <1>1
  <2> QED BY <1>2, <1>3, <2>1 DEF CommandsOk
<1>5. ASSUME NEW c \in Conns, s[c].stage # "Pending" \/ s[c].intent = "Handoff"
      PROVE  t2[c] \notin {"new", "pending"} \/ Before(Tail(q), Len(Tail(q)) + 1, "Accept", c)
  <2>1. Len(q) \in 1..Len(q) /\ Len(Tail(q)) + 1 = Len(q)
    BY <1>1
  <2>2. t2[c] \notin {"new", "pending"} \/ Before(q, Len(q) + 1, "Accept", c)
    BY <1>2, <1>5 DEF CommandsOk
  <2> QED BY <1>3, <2>1, <2>2
<1> QED BY <1>4, <1>5 DEF CommandsOk


-----------------------------------------------------------------------------
(* The I/O thread.                                                         *)

(* The events a frame has still to visit are events. *)
LEMMA WaitingType == ASSUME FrameTypes PROVE Waiting \in Seq(Events)
BY DEF FrameTypes, Waiting

(* What an end that fits does. *)
LEMMA FinishFacts ==
    ASSUME EdgeTypes, NEW c \in Conns, FinishClose(c)
    PROVE  /\ table' = [table EXCEPT ![c] = "gone"]
           /\ \/ inbound' = Append(inbound, Event("Closed", c, table[c] = "established"))
              \/ ~Room
BY DEF FinishClose, Publish, Push, Event, EdgeTypes

(* The end of a live connection that is not about to be opened. *)
LEMMA StreamFinish ==
    ASSUME EdgeTypes, FrameTypes, NEW c \in Conns, StreamOk(Stream, Open, table),
           Alive(c), ~Opening(batch, c), FinishClose(c), ~Drops, batch' = batch,
           UNCHANGED <<running, sessions, Waiting>>
    PROVE  StreamOk(Stream', Open', table')
<1> DEFINE e == Event("Closed", c, table[c] = "established")
           A == Waiting \o inbound
<1>1. e \in Events /\ e.kind = "Closed" /\ e.conn = c
  <2>1. e \in Events
    BY EventType DEF EventKinds
  <2> QED BY <2>1 DEF Event
<1>2. table' = [table EXCEPT ![c] = "gone"] /\ (inbound' = Append(inbound, e) \/ ~Room)
  BY FinishFacts
<1> HIDE DEF e
<1>3. table' # table
  BY <1>2 DEF Alive, EdgeTypes
<1>4. inbound' = Append(inbound, e)
  BY <1>2, <1>3 DEF Drops
<1>5. Waiting \in Seq(Events) /\ inbound \in Seq(Events) /\ batch \in Seq(Events)
  BY WaitingType DEF EdgeTypes
<1>6. A \in Seq(Events) /\ Len(A) \in Nat /\ Append(A, e) \in Seq(Events)
      /\ Waiting \o Append(inbound, e) = Append(A, e)
  BY <1>1, <1>5, CatType, CatAppends
<1>7. Stream' = Append(A, e) \o batch /\ Stream = A \o batch
  BY <1>4, <1>6 DEF Stream
<1> HIDE DEF A
<1>8. Inserted(Stream, Stream', Len(A) + 1, e) /\ Len(A) + 1 \in Nat
      /\ Stream \in Seq(Events) /\ Stream' \in Seq(Events)
  BY <1>1, <1>5, <1>6, <1>7, CatInserts, CatType
<1>9. ASSUME NEW p \in (Len(A) + 1)..Len(Stream)
      PROVE  ~(Stream[p].kind = "Opened" /\ Stream[p].conn = c)
  <2> DEFINE j == p - Len(A)
  <2>1. Len(Stream) = Len(A) + Len(batch) /\ Len(batch) \in Nat
    BY <1>5, <1>6, <1>7, CatType
  <2>2. j \in 1..Len(batch) /\ p = Len(A) + j
    BY <1>6, <2>1
  <2>3. Stream[Len(A) + j] = batch[j]
    BY <1>5, <1>6, <1>7, <2>2, CatType
  <2> HIDE DEF j
  <2> QED BY <2>2, <2>3 DEF Opening, Opens
<1>10. c \in Live(table) /\ table \in [Conns -> Stage4] /\ Open' = Open
  BY DEF Live, Alive, EdgeTypes, Open
<1> QED BY <1>1, <1>2, <1>8, <1>9, <1>10, StreamClosed

(* The poll collects an event at the end. *)
LEMMA StreamCollects ==
    ASSUME EdgeTypes, FrameTypes, NEW e \in Events, Collect(e), inbound' = inbound,
           UNCHANGED Waiting
    PROVE  Stream \in Seq(Events) /\ Stream' = Append(Stream, e)
<1>1. Waiting \in Seq(Events) /\ inbound \in Seq(Events) /\ batch \in Seq(Events)
  BY WaitingType DEF EdgeTypes
<1>2. Waiting \o inbound \in Seq(Events)
  BY <1>1, CatType
<1> QED BY <1>1, <1>2, CatType, CatAppends DEF Stream, Collect

(* An event that is no end and no beginning is collected or published, *)
LEMMA StreamGrows ==
    ASSUME EdgeTypes, FrameTypes, StreamOk(Stream, Open, table), NEW e \in Events,
           e.kind \notin {"Opened", "Closed"},
           \/ inbound' = Append(inbound, e) /\ batch' = batch
           \/ inbound' = inbound /\ batch' = Append(batch, e),
           \A c \in Conns : /\ table[c] # "new" => table'[c] # "new"
                            /\ c \in Live(table') <=> c \in Live(table),
           UNCHANGED <<sessions, Waiting>>
    PROVE  StreamOk(Stream', Open', table')
<1> DEFINE A == Waiting \o inbound
<1>1. Waiting \in Seq(Events) /\ inbound \in Seq(Events) /\ batch \in Seq(Events)
  BY WaitingType DEF EdgeTypes
<1>2. A \in Seq(Events) /\ Len(A) \in Nat /\ Append(A, e) \in Seq(Events)
      /\ Waiting \o Append(inbound, e) = Append(A, e)
  BY <1>1, CatType, CatAppends
<1>3. Stream = A \o batch /\ Stream \in Seq(Events) /\ Len(Stream) \in Nat
  BY <1>1, <1>2, CatType DEF Stream
<1>4. Open' = Open
  BY DEF Open
<1>5. CASE inbound' = Append(inbound, e) /\ batch' = batch
  <2>1. Stream' = Append(A, e) \o batch
    BY <1>2, <1>5 DEF Stream
  <2> HIDE DEF A
  <2>2. Inserted(Stream, Stream', Len(A) + 1, e) /\ Len(A) + 1 \in Nat /\ Stream' \in Seq(Events)
    BY <1>1, <1>2, <1>3, <2>1, CatInserts, CatType
  <2> QED BY <1>3, <1>4, <2>2, StreamOther
<1>6. CASE inbound' = inbound /\ batch' = Append(batch, e)
  <2>1. Stream' = Append(Stream, e)
    BY <1>6, StreamCollects DEF Collect
  <2>2. Inserted(Stream, Append(Stream, e), Len(Stream) + 1, e)
    BY <1>3, AppendInserts
  <2>3. Append(Stream, e) \in Seq(Events) /\ Len(Stream) + 1 \in Nat
    BY <1>3, SeqAppend
  <2> QED BY <1>3, <1>4, <2>1, <2>2, <2>3, StreamOther
<1> QED BY <1>5, <1>6

(* A step of the I/O thread that keeps every event. *)
LEMMA IoMatch ==
    ASSUME EdgeTypes, FrameTypes, MatchInv, CommandInv, IoCycle \/ IoFails,
           ~Drops, ~Overtakes, UNCHANGED <<state, frame>>
    PROVE  MatchInv'
<1>1. UNCHANGED <<sessions, Waiting>> /\ Open' = Open
  BY DEF state, frame, Waiting, Open
<1>2. CASE DrainCommands
  <2>1. UNCHANGED <<table, inbound, batch, running>> /\ io = "commands" /\ batch = <<>>
    BY <1>2 DEF DrainCommands, MatchInv
  <2>2. Stream' = Stream
    BY <1>1, <2>1 DEF Stream
  <2> QED BY <1>1, <1>2, <2>1, <2>2 DEF DrainCommands, MatchInv
<1>3. CASE ProcessCommand
  <2> DEFINE c == Head(todo).conn
  <2>1. c \in Conns
    <3>1. Head(todo) \in Commands
      BY <1>3, SeqTail DEF ProcessCommand, EdgeTypes
    <3> QED BY <3>1 DEF Commands
  <2>2. io \in {"process", "final"} /\ UNCHANGED <<io, batch, running>> /\ batch = <<>>
    BY <1>3 DEF ProcessCommand, MatchInv
  <2>3. \/ NoEvent
        \/ Alive(c) /\ FinishClose(c)
        \/ /\ Publish(Event("Established", c, TRUE), [table EXCEPT ![c] = "established"])
           /\ table[c] = "pending"
    BY <1>3 DEF ProcessCommand, ProcessSend, ProcessAccept, ProcessClose, Alive
  <2> HIDE DEF c
  <2>4. ASSUME running PROVE StreamOk(Stream', Open', table')
    <3>1. StreamOk(Stream, Open, table)
      BY <2>4 DEF MatchInv
    <3>2. CASE NoEvent
      <4>1. Stream' = Stream /\ table' = table
        BY <1>1, <2>2, <3>2 DEF Stream, NoEvent
      <4> QED BY <1>1, <3>1, <4>1
    <3>3. CASE Alive(c) /\ FinishClose(c)
      <4>1. ~Opening(batch, c)
        BY <2>2 DEF Opening, Opens
      <4> QED BY <1>1, <2>1, <2>2, <3>1, <3>3, <4>1, StreamFinish
    <3>4. CASE Publish(Event("Established", c, TRUE), [table EXCEPT ![c] = "established"])
               /\ table[c] = "pending"
      <4> DEFINE e == Event("Established", c, TRUE)
      <4>1. e \in Events /\ e.kind = "Established" /\ e.conn = c
        <5>1. e \in Events
          BY <2>1, EventType DEF EventKinds
        <5> QED BY <5>1 DEF Event
      <4> HIDE DEF e
      <4>2. Publish(e, [table EXCEPT ![c] = "established"])
        BY <3>4 DEF e
      <4>3. table' # table
        BY <2>1, <3>4, <4>1, <4>2 DEF Publish, EdgeTypes
      <4>4. inbound' = Append(inbound, e) /\ table' = [table EXCEPT ![c] = "established"]
        BY <2>2, <4>2, <4>3 DEF Publish, Push, Drops
      <4>5. \A d \in Conns : /\ table[d] # "new" => table'[d] # "new"
                             /\ d \in Live(table') <=> d \in Live(table)
        BY <2>1, <3>4, <4>4 DEF Live, EdgeTypes
      <4> QED BY <1>1, <2>2, <3>1, <4>1, <4>4, <4>5, StreamGrows
    <3> QED BY <2>3, <3>2, <3>3, <3>4
  <2> QED BY <2>2, <2>4 DEF MatchInv
<1>4. CASE CommandsDone \/ PollDone \/ CycleDone
  <2>1. UNCHANGED <<table, inbound, batch, running>>
    BY <1>4 DEF CommandsDone, PollDone, CycleDone
  <2>2. io' \notin {"poll", "publish"} => batch' = <<>>
    BY <1>4 DEF CommandsDone, PollDone, CycleDone, MatchInv
  <2>3. Stream' = Stream
    BY <1>1, <2>1 DEF Stream
  <2> QED BY <1>1, <2>1, <2>2, <2>3 DEF MatchInv
<1>5. CASE Poll
  <2>1. io = "poll" /\ UNCHANGED <<io, running>>
    BY <1>5 DEF Poll
  <2>2. PICK c \in Conns :
          PollOpened(c) \/ PollMessage(c) \/ PollClosed(c) \/ PollMoved(c) \/ PollLost(c)
    BY <1>5 DEF Poll
  <2>3. ASSUME running PROVE StreamOk(Stream', Open', table')
    <3>1. StreamOk(Stream, Open, table) /\ table \in [Conns -> Stage4]
      BY <2>3 DEF MatchInv, EdgeTypes
    <3>2. CASE PollOpened(c)
      <4> DEFINE e == Event("Opened", c, FALSE)
      <4>1. e \in Events /\ e.kind = "Opened" /\ e.conn = c
        <5>1. e \in Events
          BY EventType DEF EventKinds
        <5> QED BY <5>1 DEF Event
      <4>2. Collect(e) /\ inbound' = inbound /\ table[c] = "new"
            /\ table' = [table EXCEPT ![c] = "pending"]
            /\ Cardinality({d \in Conns : Alive(d)}) < MaxSessions
        BY <3>2 DEF PollOpened
      <4> HIDE DEF e
      <4>3. Stream \in Seq(Events) /\ Stream' = Append(Stream, e)
        BY <1>1, <4>1, <4>2, StreamCollects
      <4>4. Live(table) = {d \in Conns : Alive(d)}
        BY DEF Live, Alive
      <4> QED BY <1>1, <3>1, <4>1, <4>2, <4>3, <4>4, StreamOpened
    <3>3. CASE PollMessage(c) \/ PollMoved(c)
      <4>1. PICK k \in {"Message", "Moved"} : Collect(Event(k, c, table[c] = "established"))
        BY <3>3 DEF PollMessage, PollMoved
      <4> DEFINE e == Event(k, c, table[c] = "established")
      <4>2. e \in Events /\ e.kind = k
        <5>1. e \in Events
          BY EventType DEF EventKinds
        <5> QED BY <5>1 DEF Event
      <4>3. batch' = Append(batch, e) /\ inbound' = inbound /\ table' = table
        BY <3>3, <4>1 DEF PollMessage, PollMoved, Collect
      <4> HIDE DEF e
      <4> QED BY <1>1, <3>1, <4>2, <4>3, StreamGrows
    <3>4. CASE PollClosed(c)
      <4> DEFINE e == Event("Closed", c, table[c] = "established")
      <4>1. e \in Events /\ e.kind = "Closed" /\ e.conn = c
        <5>1. e \in Events
          BY EventType DEF EventKinds
        <5> QED BY <5>1 DEF Event
      <4>2. Collect(e) /\ inbound' = inbound /\ Alive(c)
            /\ table' = [table EXCEPT ![c] = "gone"]
        BY <3>4 DEF PollClosed
      <4> HIDE DEF e
      <4>3. Stream \in Seq(Events) /\ Stream' = Append(Stream, e) /\ Len(Stream) \in Nat
        BY <1>1, <4>1, <4>2, StreamCollects
      <4>4. Inserted(Stream, Stream', Len(Stream) + 1, e) /\ Stream' \in Seq(Events)
            /\ Len(Stream) + 1 \in Nat
        BY <4>1, <4>3, AppendInserts, SeqAppend
      <4>5. c \in Live(table) /\ (Len(Stream) + 1)..Len(Stream) = {}
        BY <4>2, <4>3 DEF Live, Alive
      <4> QED BY <1>1, <3>1, <4>1, <4>2, <4>3, <4>4, <4>5, StreamClosed
    <3>5. CASE PollLost(c)
      <4>1. Alive(c) /\ FinishClose(c) /\ batch' = batch
        BY <3>5 DEF PollLost
      <4>2. table' = [table EXCEPT ![c] = "gone"]
        BY <4>1, FinishFacts
      <4>3. ~Opening(batch, c)
        BY <3>1, <4>1, <4>2 DEF Overtakes, Alive
      <4>4. UNCHANGED running
        BY <2>1
      <4> QED BY <1>1, <3>1, <4>1, <4>3, <4>4, StreamFinish
    <3> QED BY <2>2, <3>2, <3>3, <3>4, <3>5
  <2> QED BY <2>1, <2>3 DEF MatchInv
<1>6. CASE PublishNext
  <2> DEFINE h == Head(batch)
             A == Waiting \o inbound
  <2>1. /\ io = "publish" /\ batch # <<>> /\ batch' = Tail(batch) /\ UNCHANGED <<io, running>>
        /\ Publish(h, table)
    BY <1>6 DEF PublishNext
  <2>2. h \in Events /\ batch \in Seq(Events) /\ Waiting \in Seq(Events) /\ inbound \in Seq(Events)
    BY <2>1, SeqTail, WaitingType DEF EdgeTypes
  <2>3. inbound' = Append(inbound, h) /\ table' = table
    BY <2>1 DEF Publish, Push, Drops
  <2>4. A \in Seq(Events) /\ Waiting \o Append(inbound, h) = Append(A, h)
    BY <2>2, CatType, CatAppends
  <2>5. Stream' = Append(A, h) \o Tail(batch)
    BY <1>1, <2>1, <2>3, <2>4 DEF Stream
  <2>6. Append(A, h) \o Tail(batch) = A \o batch
    BY <2>1, <2>2, <2>4, CatMove
  <2>7. Stream' = Stream
    BY <2>5, <2>6 DEF Stream
  <2> QED BY <1>1, <2>1, <2>3, <2>7 DEF MatchInv
<1>7. CASE IoFails
  BY <1>7 DEF IoFails, MatchInv
<1> QED BY <1>2, <1>3, <1>4, <1>5, <1>6, <1>7 DEF IoCycle

(* ... and the commands it has processed, which does not depend on it. *)
LEMMA IoCommands ==
    ASSUME EdgeTypes, CommandInv, IoCycle \/ IoFails, UNCHANGED <<state, frame>>
    PROVE  CommandInv'
<1>1. UNCHANGED sessions /\ todo \in Seq(Commands) /\ outbound \in Seq(Commands)
      /\ table \in [Conns -> Stage4]
  BY DEF state, EdgeTypes
<1>2. Commanded \in Seq(Commands)
  BY <1>1, CatType DEF Commanded
<1>3. CASE DrainCommands
  <2> DEFINE n == IF Len(outbound) < MaxCommands THEN Len(outbound) ELSE MaxCommands
  <2>1. n \in 0..Len(outbound)
    BY <1>1, EdgeAssumption DEF EdgeAssumption
  <2>2. /\ todo = <<>> /\ todo' = SubSeq(outbound, 1, n)
        /\ outbound' = SubSeq(outbound, n + 1, Len(outbound)) /\ io = "commands"
        /\ table' = table
    BY <1>3 DEF DrainCommands
  <2> HIDE DEF n
  <2>3. Commanded' = outbound /\ Commanded = outbound
    BY <1>1, <2>1, <2>2, CatSplit, CatNothing DEF Commanded
  <2> QED BY <1>1, <2>2, <2>3 DEF CommandInv
<1>4. CASE ProcessCommand
  <2> DEFINE c == Head(todo).conn
  <2>1. todo # <<>> /\ todo' = Tail(todo) /\ outbound' = outbound /\ io' = io
        /\ io \in {"process", "final"}
    BY <1>4 DEF ProcessCommand
  <2>2. c \in Conns
    <3>1. Head(todo) \in Commands
      BY <1>1, <2>1, SeqTail
    <3> QED BY <3>1 DEF Commands
  <2>3. Commanded' = Tail(Commanded) /\ Head(Commanded) = Head(todo) /\ Commanded # <<>>
    BY <1>1, <2>1, CatTail DEF Commanded
  <2>4. CommandsOk(Commanded, table, sessions)
    BY <2>1 DEF CommandInv
  <2>5. table[c] # "new"
    <3>1. 1 \in 1..Len(Commanded) /\ Commanded[1] = Head(todo)
      BY <1>2, <2>3
    <3> QED BY <2>4, <3>1 DEF CommandsOk
  <2>6. /\ \/ table' = table
           \/ table' = [table EXCEPT ![c] = "gone"]
           \/ /\ table' = [table EXCEPT ![c] = "established"]
              /\ table[c] = "pending"
        /\ Head(todo).kind = "Accept" => table'[c] # "pending"
    <3>1. \/ NoEvent
          \/ FinishClose(c)
          \/ /\ Publish(Event("Established", c, TRUE), [table EXCEPT ![c] = "established"])
             /\ table[c] = "pending"
      BY <1>4 DEF ProcessCommand, ProcessSend, ProcessAccept, ProcessClose
    <3>2. Head(todo).kind = "Accept" /\ NoEvent => table[c] # "pending" \/ FinishClose(c)
            \/ Publish(Event("Established", c, TRUE), [table EXCEPT ![c] = "established"])
      BY <1>4 DEF ProcessCommand, ProcessAccept
    <3> HIDE DEF c
    <3>3. FinishClose(c) => table' = [table EXCEPT ![c] = "gone"]
      BY <2>2, FinishFacts
    <3>4. Publish(Event("Established", c, TRUE), [table EXCEPT ![c] = "established"])
            => \/ table' = [table EXCEPT ![c] = "gone"]
               \/ table' = [table EXCEPT ![c] = "established"]
      BY <1>1, <2>2 DEF Publish, Event
    <3> QED BY <1>1, <2>2, <3>1, <3>2, <3>3, <3>4 DEF NoEvent
  <2> HIDE DEF c
  <2>7. GoesOn(table, sessions, table', sessions)
    BY <1>1, <2>2, <2>5, <2>6 DEF GoesOn
  <2>8. Head(Commanded).kind = "Accept" => table'[Head(Commanded).conn] \notin {"new", "pending"}
    BY <1>1, <2>2, <2>3, <2>5, <2>6 DEF c
  <2>9. CommandsOk(Tail(Commanded), table', sessions)
    BY <1>2, <2>3, <2>4, <2>7, <2>8, CommandsLess
  <2> QED BY <1>1, <2>3, <2>9 DEF CommandInv
<1>5. CASE CommandsDone \/ Poll \/ PollDone \/ PublishNext \/ CycleDone
  <2>1. io # "ended" /\ UNCHANGED <<todo, outbound>>
    BY <1>5 DEF CommandsDone, Poll, PollDone, PublishNext, CycleDone
  <2>2. Commanded' = Commanded
    BY <2>1 DEF Commanded
  <2>3. GoesOn(table, sessions, table', sessions)
    <3>1. CASE CommandsDone \/ PollDone \/ CycleDone
      BY <3>1 DEF CommandsDone, PollDone, CycleDone, GoesOn
    <3>2. CASE Poll
      <4>1. PICK c \in Conns :
              PollOpened(c) \/ PollMessage(c) \/ PollClosed(c) \/ PollMoved(c) \/ PollLost(c)
        BY <3>2 DEF Poll
      <4>2. \/ table' = table
            \/ table' = [table EXCEPT ![c] = "gone"] /\ Alive(c)
            \/ table' = [table EXCEPT ![c] = "pending"] /\ table[c] = "new"
        BY <4>1, FinishFacts DEF PollOpened, PollMessage, PollClosed, PollMoved, PollLost
      <4> QED BY <1>1, <4>2 DEF GoesOn, Alive
    <3>3. CASE PublishNext
      <4> DEFINE e == Head(batch)
      <4>1. e \in Events
        BY <3>3, SeqTail DEF PublishNext, EdgeTypes
      <4>2. e.conn \in Conns
        BY <4>1 DEF Events
      <4>3. table' = table \/ table' = [table EXCEPT ![e.conn] = "gone"]
        BY <1>1, <3>3, <4>2 DEF PublishNext, Publish
      <4> HIDE DEF e
      <4> QED BY <1>1, <4>2, <4>3 DEF GoesOn
    <3> QED BY <1>5, <3>1, <3>2, <3>3
  <2>4. CommandsOk(Commanded, table', sessions)
    BY <1>2, <2>1, <2>3, CommandsSame DEF CommandInv
  <2> QED BY <1>1, <2>2, <2>4 DEF CommandInv
<1>6. CASE IoFails
  BY <1>6 DEF IoFails, CommandInv
<1> QED BY <1>3, <1>4, <1>5, <1>6 DEF IoCycle


-----------------------------------------------------------------------------
(* The pipeline.                                                           *)

(* A session that was let in, or is about to be handed off. *)
LetIn(s) == s.stage # "Pending" \/ s.intent = "Handoff"

(* What most steps do to a session: it stays, and is not let in by them. *)
Stays(c) == sessions'[c].open = sessions[c].open /\ (LetIn(sessions'[c]) => LetIn(sessions[c]))

(* A step that changes one session. *)
LEMMA OneStays ==
    ASSUME StateTypes, NEW c \in Conns, NEW s, sessions' = [sessions EXCEPT ![c] = s],
           s.open = sessions[c].open, LetIn(s) => LetIn(sessions[c])
    PROVE  \A d \in Conns : Stays(d)
BY DEF StateTypes, Stays

(* What schedules an end or a reservation lets nobody in. *)
LEMMA ScheduleStays ==
    ASSUME StateTypes, NEW c \in Conns, NEW kind \in {"Close", "Decline"}, Schedule(c, kind)
    PROVE  \A d \in Conns : Stays(d)
<1> DEFINE s == [sessions[c] EXCEPT !.attempt = 0, !.reserved = FALSE, !.held = FALSE,
                                    !.closing = TRUE, !.intent = kind]
<1>1. sessions[c] \in SessionType
  BY DEF StateTypes
<1>2. s.open = sessions[c].open /\ s.stage = sessions[c].stage /\ s.intent = kind
  BY <1>1 DEF SessionType
<1>3. sessions' = [sessions EXCEPT ![c] = s]
  BY DEF Schedule
<1> HIDE DEF s
<1> QED BY <1>2, <1>3, OneStays DEF LetIn

(* A reservation lets nobody in. *)
LEMMA ReserveStays ==
    ASSUME StateTypes, NEW c \in Conns, Reserve(c) PROVE \A d \in Conns : Stays(d)
<1> DEFINE s == [sessions[c] EXCEPT !.held = TRUE, !.reserved = TRUE, !.intent = "Accept"]
<1>1. sessions[c] \in SessionType
  BY DEF StateTypes
<1>2. s.open = sessions[c].open /\ s.stage = sessions[c].stage /\ s.intent = "Accept"
  BY <1>1 DEF SessionType
<1>3. sessions' = [sessions EXCEPT ![c] = s]
  BY DEF Reserve
<1> HIDE DEF s
<1> QED BY <1>2, <1>3, OneStays DEF LetIn

(* Only a session that was let in has an attempt. *)
LEMMA OutcomeStays ==
    ASSUME StateTypes, Handles, NEW c \in Conns, sessions[c].attempt # 0,
           LET s == [sessions[c] EXCEPT !.attempt = 0] IN
             \/ FetchFailed(c, s) \/ FetchSucceeded(c, s) \/ NotEligible(c, s)
             \/ Forget(c, s)
    PROVE  \A d \in Conns : Stays(d)
<1> DEFINE s == [sessions[c] EXCEPT !.attempt = 0]
<1>1. sessions[c] \in SessionType /\ LetIn(sessions[c])
  BY DEF StateTypes, Handles, Handle, LetIn
<1>2. s \in SessionType /\ s.open = sessions[c].open
  <2>1. s \in SessionType
    BY <1>1, SessionUpdates
  <2>2. s.open = sessions[c].open
    BY <1>1 DEF SessionType
  <2> QED BY <2>1, <2>2
<1>3. FetchFailed(c, s) \/ FetchSucceeded(c, s) \/ NotEligible(c, s) \/ Forget(c, s)
  OBVIOUS
<1> HIDE DEF s
<1>4. \E t : sessions' = [sessions EXCEPT ![c] = t] /\ t.open = sessions[c].open
  <2>1. CASE FetchFailed(c, s)
    <3>1. CASE s.failures + 1 <= RetryMax
      <4> WITNESS [s EXCEPT !.failures = s.failures + 1]
      <4> QED BY <1>2, <2>1, <3>1 DEF FetchFailed, SessionType
    <3>2. CASE ~(s.failures + 1 <= RetryMax)
      <4> WITNESS [s EXCEPT !.failures = s.failures + 1, !.reserved = FALSE, !.held = FALSE,
                            !.closing = TRUE, !.intent = "Decline"]
      <4> QED BY <1>2, <2>1, <3>2 DEF FetchFailed, SessionType
    <3> QED BY <3>1, <3>2
  <2>2. CASE FetchSucceeded(c, s)
    <3> WITNESS [s EXCEPT !.reserved = FALSE, !.intent = "Handoff"]
    <3> QED BY <1>2, <2>2 DEF FetchSucceeded, SessionType
  <2>3. CASE NotEligible(c, s)
    <3> WITNESS [s EXCEPT !.reserved = FALSE, !.held = FALSE, !.closing = TRUE,
                          !.intent = "Decline"]
    <3> QED BY <1>2, <2>3 DEF NotEligible, SessionType
  <2>4. CASE Forget(c, s)
    BY <1>2, <2>4 DEF Forget
  <2> QED BY <1>3, <2>1, <2>2, <2>3, <2>4
<1> QED BY <1>1, <1>4, OneStays

(* An attempt that is handed to the pool lets nobody in. *)
LEMMA SubmitStays ==
    ASSUME StateTypes, NEW c \in Conns, SubmitFetch(c) PROVE \A d \in Conns : Stays(d)
<1> DEFINE s == [sessions[c] EXCEPT !.attempt = nextAttempt]
<1>1. sessions[c] \in SessionType
  BY DEF StateTypes
<1>2. s.open = sessions[c].open /\ s.stage = sessions[c].stage /\ s.intent = sessions[c].intent
  BY <1>1 DEF SessionType
<1>3. sessions' = [sessions EXCEPT ![c] = s]
  BY DEF SubmitFetch
<1> HIDE DEF s
<1> QED BY <1>2, <1>3, OneStays DEF LetIn

(* Removing a closed session lets nobody in. *)
LEMMA SweepStays ==
    ASSUME StateTypes, NEW c \in Conns, Sweep(c) PROVE \A d \in Conns : Stays(d)
<1> DEFINE s == [sessions[c] EXCEPT !.attempt = 0, !.held = FALSE]
<1>1. sessions[c] \in SessionType
  BY DEF StateTypes
<1>2. s.open = sessions[c].open /\ s.stage = sessions[c].stage /\ s.intent = sessions[c].intent
  BY <1>1 DEF SessionType
<1>3. sessions' = [sessions EXCEPT ![c] = s]
  BY DEF Sweep
<1> HIDE DEF s
<1> QED BY <1>2, <1>3, OneStays DEF LetIn

(* What a flush tells the runtime; an accept lets its session in. *)
LEMMA FlushStays ==
    ASSUME StateTypes, NEW c \in Conns,
           \/ FlushEnd(c) \/ FlushAccept(c) \/ FlushAcceptLost(c) \/ FlushHandoff(c)
           \/ FlushNoRealm(c) \/ FlushStopped(c) \/ FlushFull(c)
    PROVE  /\ \A d \in Conns : sessions'[d].open = sessions[d].open
           /\ UNCHANGED <<table, inbound, io, todo, batch, running>>
           /\ sessions[c].open
           /\ \/ (\A d \in Conns : Stays(d)) /\ outbound' = outbound
              \/ \E k \in CmdKinds :
                   /\ outbound' = Append(outbound, [kind |-> k, conn |-> c])
                   /\ k = "Send" => LetIn(sessions[c])
                   /\ \A d \in Conns : (d # c \/ k # "Accept") => Stays(d)
<1>1. sessions[c] \in SessionType
  BY DEF StateTypes
<1>2. sessions[c].open /\ sessions[c].intent = FlushKind
  BY DEF FlushEnd, FlushAccept, FlushAcceptLost, FlushHandoff, FlushNoRealm, FlushStopped,
         FlushFull, Flushing, ToFlush
<1>3. UNCHANGED <<table, inbound, io, todo, batch, running>>
  BY DEF FlushEnd, FlushAccept, FlushAcceptLost, FlushHandoff, FlushNoRealm, FlushStopped,
         FlushFull, Enqueue, edge
<1>4. ASSUME NEW k \in CmdKinds, NEW s, Enqueue(k, c), QueueResult = "Queued",
             k = "Send" => LetIn(sessions[c]),
             sessions' = [sessions EXCEPT ![c] = s], s.open = sessions[c].open,
             k # "Accept" => (LetIn(s) => LetIn(sessions[c]))
      PROVE  /\ \A d \in Conns : sessions'[d].open = sessions[d].open
             /\ \E k2 \in CmdKinds :
                   /\ outbound' = Append(outbound, [kind |-> k2, conn |-> c])
                   /\ k2 = "Send" => LetIn(sessions[c])
                   /\ \A d \in Conns : (d # c \/ k2 # "Accept") => Stays(d)
  <2>1. outbound' = Append(outbound, [kind |-> k, conn |-> c])
    BY <1>4 DEF Enqueue
  <2>2. \A d \in Conns : sessions'[d] = IF d = c THEN s ELSE sessions[d]
    BY <1>4 DEF StateTypes
  <2> QED BY <1>4, <2>1, <2>2 DEF Stays
<1>5. CASE FlushEnd(c)
  <2> DEFINE g == FlushKind # "Close" /\ sessions[c].grace
             s == [sessions[c] EXCEPT !.closing = TRUE, !.intent = "None", !.grace = g]
  <2>1. s.open = sessions[c].open /\ s.stage = sessions[c].stage /\ s.intent = "None"
    BY <1>1 DEF SessionType
  <2>2. /\ sessions' = [sessions EXCEPT ![c] = s] /\ Enqueue(FlushKind, c)
        /\ QueueResult = "Queued" /\ FlushKind \in {"Close", "Decline"}
    BY <1>5 DEF FlushEnd
  <2> HIDE DEF s, g
  <2> QED BY <1>2, <1>3, <1>4, <2>1, <2>2 DEF LetIn, CmdKinds
<1>6. CASE FlushAccept(c)
  <2> DEFINE s == [sessions[c] EXCEPT !.held = FALSE, !.stage = "Fetching", !.intent = "None"]
  <2>1. s.open = sessions[c].open
    BY <1>1 DEF SessionType
  <2>2. /\ sessions' = [sessions EXCEPT ![c] = s] /\ Enqueue("Accept", c)
        /\ QueueResult = "Queued"
    BY <1>6 DEF FlushAccept
  <2> HIDE DEF s
  <2> QED BY <1>2, <1>3, <1>4, <2>1, <2>2 DEF CmdKinds
<1>7. CASE FlushAcceptLost(c)
  <2> DEFINE s == [sessions[c] EXCEPT !.held = FALSE, !.reserved = FALSE, !.closing = TRUE,
                                      !.intent = "Close"]
  <2>1. s.open = sessions[c].open /\ s.stage = sessions[c].stage /\ s.intent = "Close"
    BY <1>1 DEF SessionType
  <2>2. /\ sessions' = [sessions EXCEPT ![c] = s] /\ Enqueue("Accept", c)
        /\ QueueResult = "Queued"
    BY <1>7 DEF FlushAcceptLost
  <2> HIDE DEF s
  <2> QED BY <1>2, <1>3, <1>4, <2>1, <2>2 DEF CmdKinds
<1>8. CASE FlushHandoff(c)
  <2> DEFINE s == [sessions[c] EXCEPT !.stage = "HandedOff", !.grace = TRUE, !.intent = "None"]
  <2>1. s.open = sessions[c].open
    BY <1>1 DEF SessionType
  <2>2. /\ sessions' = [sessions EXCEPT ![c] = s] /\ Enqueue("Send", c)
        /\ QueueResult = "Queued" /\ FlushKind = "Handoff"
    BY <1>8 DEF FlushHandoff
  <2>3. LetIn(sessions[c])
    BY <1>2, <2>2 DEF LetIn
  <2> HIDE DEF s
  <2> QED BY <1>2, <1>3, <1>4, <2>1, <2>2, <2>3 DEF CmdKinds
<1>9. CASE FlushNoRealm(c)
  <2>1. Schedule(c, "Close") /\ outbound' = outbound
    BY <1>9 DEF FlushNoRealm, edge
  <2>2. \A d \in Conns : Stays(d)
    BY <2>1, ScheduleStays
  <2> QED BY <1>2, <1>3, <2>1, <2>2 DEF Stays
<1>10. CASE FlushStopped(c)
  <2> DEFINE s == [sessions[c] EXCEPT !.held = FALSE]
  <2>1. s.open = sessions[c].open /\ s.stage = sessions[c].stage /\ s.intent = sessions[c].intent
    BY <1>1 DEF SessionType
  <2>2. sessions' = [sessions EXCEPT ![c] = s] /\ outbound' = outbound
    BY <1>10 DEF FlushStopped, edge
  <2> HIDE DEF s
  <2>3. \A d \in Conns : Stays(d)
    BY <2>1, <2>2, OneStays DEF LetIn
  <2> QED BY <1>2, <1>3, <2>2, <2>3 DEF Stays
<1>11. CASE FlushFull(c)
  BY <1>2, <1>3, <1>11 DEF FlushFull, state, edge, Stays
<1> QED BY <1>5, <1>6, <1>7, <1>8, <1>9, <1>10, <1>11


(* A step that moves no event and opens and ends no session. *)
LEMMA MatchSame ==
    ASSUME MatchInv, UNCHANGED <<table, inbound, batch, io>>, UNCHANGED Waiting,
           running' => running,
           \A c \in Conns : sessions'[c].open = sessions[c].open
    PROVE  MatchInv'
<1>1. Stream' = Stream /\ Open' = Open
  BY DEF Stream, Open
<1> QED BY <1>1 DEF MatchInv

(* A step that sends no command and lets no session in. *)
LEMMA CommandsKept ==
    ASSUME StateTypes, EdgeTypes, CommandInv, UNCHANGED <<table, outbound, todo, io>>,
           \A c \in Conns : LetIn(sessions'[c]) => LetIn(sessions[c])
    PROVE  CommandInv'
<1>1. Commanded \in Seq(Commands) /\ Commanded' = Commanded
  BY CatType DEF Commanded, EdgeTypes
<1>2. GoesOn(table, sessions, table, sessions')
  BY DEF GoesOn, LetIn
<1>3. io # "ended" => CommandsOk(Commanded, table, sessions')
  BY <1>1, <1>2, CommandsSame DEF CommandInv
<1> QED BY <1>1, <1>3 DEF CommandInv

(* A lifecycle event is visited. *)
LEMMA PreapplyMatch ==
    ASSUME TypeInv, MatchInv, CommandInv, PreapplyLifecycle
    PROVE  MatchInv' /\ CommandInv'
<1> DEFINE e == Head(events)
<1>1. /\ e \in Events /\ events \in Seq(Events) /\ events # <<>> /\ events' = Tail(events)
      /\ inbound \in Seq(Events) /\ batch \in Seq(Events)
  BY SeqTail DEF PreapplyLifecycle, NextEvent, TypeInv, FrameTypes, EdgeTypes
<1>2. e.conn \in Conns
  BY <1>1 DEF Events
<1>3. UNCHANGED edge /\ Waiting = events /\ Waiting' = Tail(events)
  BY <1>1 DEF PreapplyLifecycle, NextEvent, Waiting
<1>4. /\ Stream \in Seq(Events) /\ Stream # <<>> /\ Head(Stream) = e /\ Stream' = Tail(Stream)
  <2> DEFINE A == events \o inbound
  <2>1. A \in Seq(Events) /\ A # <<>> /\ Head(A) = e /\ Tail(events) \o inbound = Tail(A)
    BY <1>1, CatType, CatTail
  <2>2. Stream = A \o batch /\ Stream' = Tail(A) \o batch
    BY <1>3, <2>1 DEF Stream, edge
  <2> HIDE DEF A, e
  <2>3. A \o batch \in Seq(Events) /\ A \o batch # <<>> /\ Head(A \o batch) = Head(A)
        /\ Tail(A) \o batch = Tail(A \o batch)
    BY <1>1, <2>1, CatType, CatTail
  <2> QED BY <2>1, <2>2, <2>3
<1>5. sessions \in [Conns -> SessionType]
  BY DEF TypeInv, StateTypes
<1>6. \/ e.kind = "Opened" /\ ApplyOpened(e.conn)
      \/ e.kind = "Closed" /\ ApplyClosed(e.conn)
      \/ e.kind \notin {"Opened", "Closed"} /\ sessions' = sessions
  BY DEF PreapplyLifecycle, state
<1> HIDE DEF e
<1>7. ASSUME running PROVE StreamOk(Stream', Open', table)
  <2>1. StreamOk(Stream, Open, table) /\ Open \subseteq Conns
    BY <1>7 DEF MatchInv, Open
  <2>2. CASE e.kind = "Opened" /\ ApplyOpened(e.conn)
    <3>1. Cardinality(Open) < MaxSessions
      BY <1>4, <2>1, <2>2, RoomToOpen
    <3>2. sessions' = IF e.conn \notin Open THEN [sessions EXCEPT ![e.conn] = NewSession]
                                             ELSE sessions
      BY <2>2, <3>1 DEF ApplyOpened
    <3>3. NewSession.open
      BY DEF NewSession, NoSession
    <3>4. Open' = Open \cup {e.conn}
      BY <1>2, <1>5, <3>2, <3>3 DEF Open
    <3> QED BY <1>4, <2>1, <2>2, <3>4, StreamVisit
  <2>3. CASE e.kind = "Closed" /\ ApplyClosed(e.conn)
    <3>1. sessions' = [sessions EXCEPT ![e.conn] = NoSession] /\ ~NoSession.open
      BY <2>3 DEF ApplyClosed, NoSession
    <3>2. Open' = Open \ {e.conn}
      BY <1>2, <1>5, <3>1 DEF Open
    <3> QED BY <1>4, <2>1, <2>3, <3>2, StreamVisit
  <2>4. CASE e.kind \notin {"Opened", "Closed"} /\ sessions' = sessions
    <3>1. Open' = Open
      BY <2>4 DEF Open
    <3> QED BY <1>4, <2>1, <2>4, <3>1, StreamVisit
  <2> QED BY <1>6, <2>2, <2>3, <2>4
<1>8. MatchInv'
  BY <1>3, <1>7 DEF MatchInv, edge
<1>9. \A c \in Conns : LetIn(sessions'[c]) => LetIn(sessions[c])
  <2>1. ~LetIn(NoSession) /\ ~LetIn(NewSession)
    BY DEF LetIn, NoSession, NewSession
  <2>2. \/ sessions' = sessions \/ sessions' = [sessions EXCEPT ![e.conn] = NewSession]
        \/ sessions' = [sessions EXCEPT ![e.conn] = NoSession]
    BY <1>6 DEF ApplyOpened, ApplyClosed
  <2> QED BY <1>2, <1>5, <2>1, <2>2
<1>10. CommandInv'
  BY <1>3, <1>9, CommandsKept DEF edge, TypeInv
<1> QED BY <1>8, <1>10

(* A flush tells the runtime only of connections that it has seen. *)
LEMMA FlushMatch ==
    ASSUME TypeInv, HandleInv, MatchInv, CommandInv, NEW c \in Conns,
           \/ FlushEnd(c) \/ FlushAccept(c) \/ FlushAcceptLost(c) \/ FlushHandoff(c)
           \/ FlushNoRealm(c) \/ FlushStopped(c) \/ FlushFull(c)
    PROVE  MatchInv' /\ CommandInv'
<1>1. /\ \A d \in Conns : sessions'[d].open = sessions[d].open
      /\ UNCHANGED <<table, inbound, io, todo, batch, running>> /\ sessions[c].open
      /\ \/ (\A d \in Conns : Stays(d)) /\ outbound' = outbound
         \/ \E k \in CmdKinds :
              /\ outbound' = Append(outbound, [kind |-> k, conn |-> c])
              /\ k = "Send" => LetIn(sessions[c])
              /\ \A d \in Conns : (d # c \/ k # "Accept") => Stays(d)
  BY FlushStays DEF TypeInv
<1>2. UNCHANGED Waiting
  <2>1. phase \in FlushPhases
    BY DEF FlushEnd, FlushAccept, FlushAcceptLost, FlushHandoff, FlushNoRealm,
           FlushStopped, FlushFull, Flushing
  <2>2. phase' = phase \/ phase' = "sweep"
    BY DEF FlushEnd, FlushAccept, FlushAcceptLost, FlushHandoff, FlushNoRealm,
           FlushStopped, FlushFull, Visited
  <2> QED BY <2>1, <2>2 DEF Waiting, FlushPhases
<1>3. MatchInv'
  BY <1>1, <1>2, MatchSame
<1>4. CASE (\A d \in Conns : Stays(d)) /\ outbound' = outbound
  <2>1. CommandInv'
    BY <1>1, <1>4, CommandsKept DEF Stays, TypeInv
  <2> QED BY <1>3, <2>1
<1>5. ASSUME NEW k \in CmdKinds, outbound' = Append(outbound, [kind |-> k, conn |-> c]),
             k = "Send" => LetIn(sessions[c]),
             \A d \in Conns : (d # c \/ k # "Accept") => Stays(d)
      PROVE  CommandInv'
  <2>1. [kind |-> k, conn |-> c] \in Commands
    BY DEF Commands
  <2>2. outbound \in Seq(Commands) /\ todo \in Seq(Commands)
    BY DEF TypeInv, EdgeTypes
  <2>3. Commanded \in Seq(Commands)
        /\ Commanded' = Append(Commanded, [kind |-> k, conn |-> c])
    BY <1>1, <1>5, <2>1, <2>2, CatType, CatAppends DEF Commanded
  <2>4. table[c] # "new"
    BY <1>1 DEF HandleInv, Fresh
  <2>5. ASSUME CommandsOk(Commanded, table, sessions)
        PROVE  CommandsOk(Append(Commanded, [kind |-> k, conn |-> c]), table, sessions')
    <3>1. \A d \in Conns : d # c \/ k # "Accept" =>
             (sessions'[d].stage # "Pending" \/ sessions'[d].intent = "Handoff" =>
                sessions[d].stage # "Pending" \/ sessions[d].intent = "Handoff")
      BY <1>5 DEF Stays, LetIn
    <3>2. k = "Send" => sessions[c].stage # "Pending" \/ sessions[c].intent = "Handoff"
      BY <1>5 DEF LetIn
    <3> QED BY <2>3, <2>4, <2>5, <3>1, <3>2, CommandsMore
  <2> QED BY <1>1, <2>3, <2>5 DEF CommandInv
<1> QED BY <1>1, <1>3, <1>4, <1>5

(* A frame begins with the events it takes. *)
LEMMA BeginMatch ==
    ASSUME TypeInv, MatchInv, CommandInv, BeginFrame PROVE MatchInv' /\ CommandInv'
<1> DEFINE n == IF Len(inbound) < MaxEvents THEN Len(inbound) ELSE MaxEvents
           a == SubSeq(inbound, 1, n)
           b == SubSeq(inbound, n + 1, Len(inbound))
<1>1. inbound \in Seq(Events) /\ n \in 0..Len(inbound)
  BY LoginAssumption DEF LoginAssumption, TypeInv, EdgeTypes
<1>2. /\ Waiting = <<>> /\ Waiting' = a /\ inbound' = b
      /\ UNCHANGED <<table, outbound, io, todo, batch, running, msgs>> /\ sessions' = sessions
  BY DEF BeginFrame, TakeEvents, Waiting, state
<1>3. a \o b = inbound /\ <<>> \o inbound = inbound
  BY <1>1, CatSplit, CatNothing
<1> HIDE DEF a, b, n
<1>4. Stream' = Stream /\ Open' = Open
  BY <1>2, <1>3 DEF Stream, Open
<1>5. MatchInv'
  BY <1>2, <1>4 DEF MatchInv
<1>6. CommandInv'
  BY <1>2, CommandsKept DEF TypeInv
<1> QED BY <1>5, <1>6

(* Every step keeps both, if the I/O thread loses nothing. *)
LEMMA MatchKept ==
    ASSUME TypeInv, HandleInv, MatchInv, CommandInv, [Next /\ ~Drops /\ ~Overtakes]_vars
    PROVE  MatchInv' /\ CommandInv'
<1>1. StateTypes /\ EdgeTypes /\ FrameTypes /\ Handles
  BY DEF TypeInv, HandleInv, Handles
<1>2. ASSUME UNCHANGED <<table, inbound, outbound, io, todo, batch>>, UNCHANGED Waiting,
             running' => running, \A c \in Conns : Stays(c)
      PROVE  MatchInv' /\ CommandInv'
  BY <1>1, <1>2, MatchSame, CommandsKept DEF Stays
<1>3. ASSUME UNCHANGED sessions PROVE \A c \in Conns : Stays(c)
  BY <1>3 DEF Stays
<1>4. CASE BeginFrame
  BY <1>4, BeginMatch
<1>5. CASE PreapplyLifecycle
  BY <1>5, PreapplyMatch
<1>6. CASE LifecycleDone
  <2>1. UNCHANGED Waiting /\ UNCHANGED edge /\ UNCHANGED sessions
    BY <1>6 DEF LifecycleDone, Waiting, state
  <2> QED BY <1>2, <1>3, <2>1 DEF edge
<1>7. CASE ProcessMessages
  <2> DEFINE e == Head(events)
  <2>1. e.conn \in Conns
    <3>1. e \in Events
      BY <1>1, <1>7, SeqTail DEF ProcessMessages, FrameTypes
    <3> QED BY <3>1 DEF Events
  <2>2. UNCHANGED edge /\ UNCHANGED Waiting
    BY <1>7 DEF ProcessMessages, NextEvent, Waiting
  <2>3. \/ UNCHANGED sessions
        \/ \E kind \in {"Close", "Decline"} : Schedule(e.conn, kind)
        \/ Reserve(e.conn)
    BY <1>7 DEF ProcessMessages, HandleMessage, state
  <2> HIDE DEF e
  <2>4. \A c \in Conns : Stays(c)
    BY <1>1, <1>3, <2>1, <2>3, ScheduleStays, ReserveStays
  <2> QED BY <1>2, <2>2, <2>4 DEF edge
<1>8. CASE MessagesDone \/ ExpiryDone \/ CompletionsDone \/ TimeoutsDone \/ SubmitDone \/ FlushDone
  <2>1. UNCHANGED edge /\ UNCHANGED sessions /\ phase # "lifecycle" /\ phase' # "lifecycle"
    BY <1>8 DEF MessagesDone, ExpiryDone, CompletionsDone, TimeoutsDone, SubmitDone, FlushDone,
                FlushPhases, NextFlush, state
  <2> QED BY <1>2, <1>3, <2>1 DEF edge, Waiting
<1>9. CASE DrainCompletion
  <2> DEFINE id == Head(comps)
  <2>1. id \in AttemptIds
    BY <1>1, <1>9, SeqTail DEF DrainCompletion, FrameTypes
  <2>2. /\ UNCHANGED edge /\ UNCHANGED Waiting /\ ApplyCompletion(id)
    BY <1>9 DEF DrainCompletion, Waiting
  <2> HIDE DEF id
  <2>3. \A c \in Conns : Stays(c)
    <3>1. CASE id \notin DOMAIN attempts \/ sessions[attempts[id]].attempt # id
      BY <1>3, <2>2, <3>1 DEF ApplyCompletion
    <3>2. CASE id \in DOMAIN attempts /\ sessions[attempts[id]].attempt = id
      <4>1. attempts[id] \in Conns /\ sessions[attempts[id]].attempt # 0
        BY <1>1, <2>1, <3>2 DEF StateTypes, AttemptIds
      <4>2. LET s == [sessions[attempts[id]] EXCEPT !.attempt = 0] IN
              \/ FetchFailed(attempts[id], s) \/ FetchSucceeded(attempts[id], s)
              \/ NotEligible(attempts[id], s) \/ Forget(attempts[id], s)
        BY <2>2, <3>2 DEF ApplyCompletion
      <4> QED BY <1>1, <4>1, <4>2, OutcomeStays
    <3> QED BY <3>1, <3>2
  <2> QED BY <1>2, <2>2, <2>3 DEF edge
<1>10. CASE SweepDone
  <2>1. /\ UNCHANGED <<table, inbound, outbound, io, todo, batch>> /\ ~running'
        /\ UNCHANGED sessions /\ UNCHANGED Waiting
    BY <1>10 DEF SweepDone, StopRuntime, Waiting, state
  <2> QED BY <1>2, <1>3, <2>1
<1>11. ASSUME NEW c \in Conns,
              \/ FlushEnd(c) \/ FlushAccept(c) \/ FlushAcceptLost(c) \/ FlushHandoff(c)
              \/ FlushNoRealm(c) \/ FlushStopped(c) \/ FlushFull(c)
       PROVE  MatchInv' /\ CommandInv'
  BY <1>11, FlushMatch
<1>12. ASSUME NEW c \in Conns,
              Sweep(c) \/ ExpireHandoff(c) \/ TimeoutFetch(c) \/ SubmitFetch(c)
       PROVE  MatchInv' /\ CommandInv'
  <2>1. UNCHANGED edge /\ phase' = phase /\ UNCHANGED events
    BY <1>12 DEF Sweep, ExpireHandoff, TimeoutFetch, SubmitFetch, frame
  <2>2. \A d \in Conns : Stays(d)
    <3>1. CASE Sweep(c)
      BY <1>1, <3>1, SweepStays
    <3>2. CASE ExpireHandoff(c)
      BY <1>1, <3>2, ScheduleStays DEF ExpireHandoff
    <3>3. CASE TimeoutFetch(c)
      <4>1. sessions[c].attempt # 0 /\ FetchFailed(c, [sessions[c] EXCEPT !.attempt = 0])
        BY <3>3 DEF TimeoutFetch
      <4> QED BY <1>1, <4>1, OutcomeStays
    <3>4. CASE SubmitFetch(c)
      BY <1>1, <3>4, SubmitStays
    <3> QED BY <1>12, <3>1, <3>2, <3>3, <3>4
  <2> QED BY <1>2, <2>1, <2>2 DEF edge, Waiting
<1>13. CASE Shutdown
  <2>1. UNCHANGED edge /\ UNCHANGED sessions /\ UNCHANGED Waiting
    BY <1>13 DEF Shutdown, Waiting
  <2> QED BY <1>2, <1>3, <2>1 DEF edge
<1>14. CASE StopPool \/ Worker \/ UNCHANGED vars
  <2>1. UNCHANGED <<edge, state, frame>>
    BY <1>14 DEF StopPool, Worker, vars
  <2> QED BY <1>2, <1>3, <2>1 DEF edge, state, frame, Waiting
<1>15. CASE (Io \/ IoFailure) /\ ~Drops /\ ~Overtakes
  <2>1. UNCHANGED <<state, frame>> /\ (IoCycle \/ IoFails)
    BY <1>15 DEF Io, IoFailure
  <2> QED BY <1>1, <1>15, <2>1, IoMatch, IoCommands
<1> QED BY <1>4, <1>5, <1>6, <1>7, <1>8, <1>9, <1>10, <1>11, <1>12, <1>13, <1>14, <1>15
      DEF Next, Frame, Deadline, Submission

(* In the beginning nothing is on its way. *)
LEMMA MatchStart == Init => MatchInv /\ CommandInv
<1> SUFFICES ASSUME Init PROVE MatchInv /\ CommandInv
  OBVIOUS
<1>1. Stream = <<>> /\ Commanded = <<>>
  BY DEF Init, EdgeInit, Stream, Commanded, Waiting
<1>2. Open = {} /\ batch = <<>>
  BY DEF Init, EdgeInit, Open, NoSession
<1>3. StreamOk(<<>>, {}, table)
  BY StreamEmpty DEF Init, EdgeInit
<1>4. CommandsOk(<<>>, table, sessions)
  BY DEF CommandsOk, Init, NoSession
<1> QED BY <1>1, <1>2, <1>3, <1>4 DEF MatchInv, CommandInv

(* What is said of c before the end is said in one of the parts. *)
LEMMA SaidUnseen ==
    ASSUME EdgeTypes, FrameTypes, NEW k, NEW c, Before(Stream, Len(Stream) + 1, k, c)
    PROVE  Unseen(k, c)
<1>1. Waiting \in Seq(Events) /\ inbound \in Seq(Events) /\ batch \in Seq(Events)
  BY WaitingType DEF EdgeTypes
<1> DEFINE A == Waiting \o inbound
<1>2. /\ A \in Seq(Events) /\ Len(A) = Len(Waiting) + Len(inbound)
      /\ \A i \in 1..Len(Waiting) : A[i] = Waiting[i]
      /\ \A i \in 1..Len(inbound) : A[Len(Waiting) + i] = inbound[i]
      /\ Len(Waiting) \in Nat /\ Len(inbound) \in Nat /\ Len(batch) \in Nat
  BY <1>1, CatType
<1> HIDE DEF A
<1>3. /\ Stream = A \o batch /\ Len(Stream) = Len(A) + Len(batch)
      /\ \A i \in 1..Len(A) : Stream[i] = A[i]
      /\ \A i \in 1..Len(batch) : Stream[Len(A) + i] = batch[i]
  BY <1>1, <1>2, CatType DEF Stream, A
<1>4. PICK q \in 1..((Len(Stream) + 1) - 1) : Stream[q].kind = k /\ Stream[q].conn = c
  BY DEF Before
<1>5. CASE q <= Len(Waiting)
  <2>1. q \in 1..Len(Waiting) /\ q \in 1..Len(A)
    BY <1>2, <1>5
  <2>2. Stream[q] = Waiting[q]
    BY <1>2, <1>3, <2>1
  <2> QED BY <1>4, <2>1, <2>2 DEF Unseen, Waiting
<1>6. CASE q > Len(Waiting) /\ q <= Len(A)
  <2> DEFINE i == q - Len(Waiting)
  <2>1. i \in 1..Len(inbound) /\ q = Len(Waiting) + i /\ q \in 1..Len(A)
    BY <1>2, <1>6
  <2>2. A[Len(Waiting) + i] = inbound[i] /\ Stream[q] = A[q]
    BY <1>2, <1>3, <2>1
  <2> HIDE DEF i
  <2>3. inbound[i].kind = k /\ inbound[i].conn = c
    BY <1>4, <2>1, <2>2
  <2> QED BY <2>1, <2>3 DEF Unseen
<1>7. CASE q > Len(A)
  <2> DEFINE i == q - Len(A)
  <2>1. i \in 1..Len(batch) /\ q = Len(A) + i
    BY <1>2, <1>3, <1>7
  <2>2. Stream[Len(A) + i] = batch[i]
    BY <1>3, <2>1
  <2> HIDE DEF i
  <2>3. batch[i].kind = k /\ batch[i].conn = c
    BY <1>4, <2>1, <2>2
  <2> QED BY <2>1, <2>3 DEF Unseen
<1> QED BY <1>2, <1>3, <1>5, <1>6, <1>7

(* The property from the invariant. *)
LEMMA MatchShown ==
    ASSUME TypeInv, MatchInv, CommandInv PROVE ConnectionsMatched
<1>1. EdgeTypes /\ FrameTypes
  BY DEF TypeInv
<1>2. ASSUME running, NEW c \in Conns, c \in Open, table[c] = "gone"
      PROVE  Unseen("Closed", c)
  <2>1. c \notin View(Stream, Open, Len(Stream) + 1)
    BY <1>2 DEF MatchInv, StreamOk, Live
  <2>2. Before(Stream, Len(Stream) + 1, "Closed", c)
    BY <1>2, <2>1 DEF View
  <2> QED BY <1>1, <2>2, SaidUnseen
<1>3. ASSUME running, NEW c \in Conns, Alive(c), ~sessions[c].open
      PROVE  Unseen("Opened", c)
  <2>1. c \in View(Stream, Open, Len(Stream) + 1)
    BY <1>3 DEF MatchInv, StreamOk, Live, Alive
  <2>2. Before(Stream, Len(Stream) + 1, "Opened", c)
    BY <1>3, <2>1 DEF View, Open
  <2> QED BY <1>1, <2>2, SaidUnseen
<1>4. SendEstablished
  <2> SUFFICES ASSUME io \in {"process", "final"}, todo # <<>>, Head(todo).kind = "Send"
               PROVE  table[Head(todo).conn] # "pending"
    BY DEF SendEstablished
  <2>1. todo \in Seq(Commands) /\ outbound \in Seq(Commands)
    BY <1>1 DEF EdgeTypes
  <2>2. Commanded \in Seq(Commands) /\ Commanded # <<>> /\ Head(Commanded) = Head(todo)
    BY <2>1, CatType, CatTail DEF Commanded
  <2>3. 1 \in 1..Len(Commanded) /\ Commanded[1] = Head(todo)
    BY <2>2
  <2>4. ~Before(Commanded, 1, "Accept", Head(todo).conn)
    BY DEF Before
  <2> QED BY <2>3, <2>4 DEF CommandInv, CommandsOk
<1>5. \A c \in Open : c \in Conns
  BY DEF Open
<1> QED BY <1>2, <1>3, <1>4, <1>5 DEF ConnectionsMatched, NoOrphanSession, NoOrphanConnection

(* As long as no event is lost to a full queue, and no end is published    *)
(* ahead of the event that opened its connection, a session outlives its   *)
(* connection only until the event of its end is visited, every live       *)
(* connection has a session or is about to have one, and an accept is      *)
(* ahead of what is sent (EdgeRuntime::poll_events, publish_event and      *)
(* process_command; preapply_lifecycle and flush_intents).                 *)
THEOREM ConnectionsAgree == Spec /\ InOrder => []ConnectionsMatched
<1> DEFINE Inv == IInv /\ MatchInv /\ CommandInv
<1>1. Init => Inv
  BY Inductive, MatchStart
<1>2. Inv /\ [Next]_vars /\ [~Drops /\ ~Overtakes]_vars => Inv'
  <2>1. ASSUME Inv, [Next]_vars, [~Drops /\ ~Overtakes]_vars PROVE Inv'
    <3>1. IInv'
      BY <2>1, Inductive
    <3>2. TypeInv /\ HandleInv
      BY <2>1 DEF IInv
    <3>3. MatchInv' /\ CommandInv'
      BY <2>1, <3>2, MatchKept
    <3> QED BY <3>1, <3>3
  <2> QED BY <2>1
<1>3. Inv => ConnectionsMatched
  BY MatchShown DEF IInv
<1> QED BY <1>1, <1>2, <1>3, PTL DEF Spec, InOrder
=============================================================================
