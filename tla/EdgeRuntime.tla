---------------------------- MODULE EdgeRuntime -----------------------------
(***************************************************************************)
(* EdgeRuntime and its EdgeConnectionTable: one I/O thread owns transports *)
(* and connections; the service thread gets events from one bounded queue  *)
(* and gives commands through another.                                     *)
(*                                                                         *)
(* A cycle of io_loop processes the commands it drained, then polls the    *)
(* transports, collecting events, and then publishes what it collected.    *)
(* The two queues are locked per operation, so the service thread acts     *)
(* between any two of these steps.  Transport events are the environment's *)
(* choice.  Payloads and credential reload are left out, and of a source   *)
(* address only whether it can be normalised.                              *)
(***************************************************************************)
EXTENDS Integers, Sequences, FiniteSets

CONSTANTS
    Conns,             \* EdgeConnectionIds; each is opened once
    MaxSessions,       \* max_sessions of the transports together
    InboundCapacity,   \* inbound_capacity
    OutboundCapacity,  \* outbound_capacity
    MaxCommands,       \* max_commands_per_cycle
    MaxMessages,       \* bound on the messages and moves of a peer
    MaxBatch,          \* bound on the events of one poll
    Moves              \* whether peers change their address

ASSUME EdgeAssumption ==
    /\ Conns \subseteq Nat
    /\ MaxSessions \in Nat \ {0}
    /\ InboundCapacity \in Nat \ {0}
    /\ OutboundCapacity \in Nat \ {0}
    /\ MaxCommands \in Nat \ {0}
    /\ MaxMessages \in Nat
    /\ MaxBatch \in Nat \ {0}
    /\ Moves \in BOOLEAN

VARIABLES
    table,     \* connections_: stage of each connection
    inbound,   \* inbound_: events for the service
    outbound,  \* outbound_: commands of the service
    io,        \* where io_loop is
    todo,      \* commands drained for this cycle
    batch,     \* events collected by poll_events
    running,   \* running_
    msgs       \* messages and moves of each peer so far

edge == <<table, inbound, outbound, io, todo, batch, running, msgs>>

EventKinds == {"Opened", "Message", "Established", "Closed", "Moved"}
Events     == [kind : EventKinds, conn : Conns, established : BOOLEAN]
CmdKinds   == {"Send", "Accept", "Decline", "Close"}
Commands   == [kind : CmdKinds, conn : Conns]

Event(k, c, e) == [kind |-> k, conn |-> c, established |-> e]

Alive(c) == table[c] \in {"pending", "established"}

EdgeInit ==
    /\ table = [c \in Conns |-> "new"]
    /\ inbound = <<>> /\ outbound = <<>>
    /\ io = "commands" /\ todo = <<>> /\ batch = <<>>
    /\ running = TRUE
    /\ msgs = [c \in Conns |-> 0]

-----------------------------------------------------------------------------
(* Publishing.                                                             *)

Room == Len(inbound) < InboundCapacity

Push(e) == inbound' = Append(inbound, e)

(* publish_event: an event that does not fit ends its connection without a *)
(* further event; a ConnectionClosed that does not fit is lost.            *)
Publish(e, tbl) ==
    \/ Room /\ Push(e) /\ table' = tbl
    \/ /\ ~Room
       /\ table' = [tbl EXCEPT ![e.conn] = IF e.kind = "Closed" THEN @ ELSE "gone"]
       /\ UNCHANGED inbound

(* Mutant of FinishClose: the event is left to the transport. *)
FinishCloseSilently(c) ==
    /\ table' = [table EXCEPT ![c] = "gone"]
    /\ UNCHANGED inbound

(* finish_close: the connection is removed and its end is published. *)
FinishClose(c) ==
    Publish(Event("Closed", c, table[c] = "established"), [table EXCEPT ![c] = "gone"])

NoEvent == UNCHANGED <<table, inbound>>

-----------------------------------------------------------------------------
(* The I/O thread.                                                         *)

(* process_outbound_commands drains a cycle's worth of commands. *)
DrainCommands ==
    /\ io = "commands"
    /\ todo = <<>>
    /\ LET n == IF Len(outbound) < MaxCommands THEN Len(outbound) ELSE MaxCommands IN
       /\ todo' = SubSeq(outbound, 1, n)
       /\ outbound' = SubSeq(outbound, n + 1, Len(outbound))
    /\ io' = IF running THEN "process" ELSE "final"
    /\ UNCHANGED <<table, inbound, batch, running, msgs>>

(* process_command, Send: only to an established connection, which ends if *)
(* the message cannot be sent.                                             *)
ProcessSend(c) ==
    \/ NoEvent
    \/ table[c] = "established" /\ FinishClose(c)

(* process_command, Accept: the response is sent and the connection is     *)
(* established, or it cannot be sent and the connection ends.              *)
ProcessAccept(c) ==
    \/ table[c] # "pending" /\ NoEvent
    \/ table[c] = "pending" /\ FinishClose(c)
    \/ /\ table[c] = "pending"
       /\ Publish(Event("Established", c, TRUE), [table EXCEPT ![c] = "established"])

(* process_command, Decline and Close: whatever comes of the response, the *)
(* connection ends.                                                        *)
ProcessClose(c) ==
    \/ Alive(c) /\ FinishClose(c)
    \/ ~Alive(c) /\ NoEvent

ProcessCommand ==
    /\ io \in {"process", "final"}
    /\ todo # <<>>
    /\ LET cmd == Head(todo) IN
         \/ cmd.kind = "Send" /\ ProcessSend(cmd.conn)
         \/ cmd.kind = "Accept" /\ ProcessAccept(cmd.conn)
         \/ cmd.kind \in {"Decline", "Close"} /\ ProcessClose(cmd.conn)
    /\ todo' = Tail(todo)
    /\ UNCHANGED <<outbound, io, batch, running, msgs>>

(* After the commands the transports are polled, or a stopped loop ends. *)
CommandsDone ==
    /\ io \in {"process", "final"}
    /\ todo = <<>>
    /\ io' = IF io = "process" THEN "poll" ELSE "ended"
    /\ UNCHANGED <<table, inbound, outbound, todo, batch, running, msgs>>

Collect(e) == batch' = Append(batch, e)

(* poll_events: a session is opened.  A transport keeps at most            *)
(* max_sessions of them; one whose address cannot be normalised is closed  *)
(* before it gets a connection.                                            *)
PollOpened(c) ==
    /\ table[c] = "new"
    /\ Cardinality({d \in Conns : Alive(d)}) < MaxSessions
    /\ table' = [table EXCEPT ![c] = "pending"]
    /\ Collect(Event("Opened", c, FALSE))
    /\ UNCHANGED <<inbound, msgs>>

(* poll_events: a message arrives; the stage is the one of this moment. *)
PollMessage(c) ==
    /\ Alive(c)
    /\ msgs[c] < MaxMessages
    /\ msgs' = [msgs EXCEPT ![c] = @ + 1]
    /\ Collect(Event("Message", c, table[c] = "established"))
    /\ UNCHANGED <<table, inbound>>

(* poll_events: the peer is gone.  A connection that was closed locally is *)
(* not in the table any more and its end is not reported twice.            *)
PollClosed(c) ==
    /\ Alive(c)
    /\ table' = [table EXCEPT ![c] = "gone"]
    /\ Collect(Event("Closed", c, table[c] = "established"))
    /\ UNCHANGED <<inbound, msgs>>

(* poll_events: the peer moved to another address.                         *)
PollMoved(c) ==
    /\ Moves
    /\ Alive(c)
    /\ msgs[c] < MaxMessages
    /\ msgs' = [msgs EXCEPT ![c] = @ + 1]
    /\ Collect(Event("Moved", c, table[c] = "established"))
    /\ UNCHANGED <<table, inbound>>

(* poll_events: the new address cannot be normalised.  The end of the      *)
(* connection is published at once, ahead of the batch.                    *)
PollLost(c) ==
    /\ Moves
    /\ Alive(c)
    /\ FinishClose(c)
    /\ UNCHANGED <<batch, msgs>>

Poll ==
    /\ io = "poll"
    /\ Len(batch) < MaxBatch
    /\ \E c \in Conns :
         PollOpened(c) \/ PollMessage(c) \/ PollClosed(c) \/ PollMoved(c) \/ PollLost(c)
    /\ UNCHANGED <<outbound, io, todo, running>>

PollDone ==
    /\ io = "poll"
    /\ io' = "publish"
    /\ UNCHANGED <<table, inbound, outbound, todo, batch, running, msgs>>

PublishNext ==
    /\ io = "publish"
    /\ batch # <<>>
    /\ Publish(Head(batch), table)
    /\ batch' = Tail(batch)
    /\ UNCHANGED <<outbound, io, todo, running, msgs>>

CycleDone ==
    /\ io = "publish"
    /\ batch = <<>>
    /\ io' = "commands"
    /\ UNCHANGED <<table, inbound, outbound, todo, batch, running, msgs>>

(* An exception ends the loop where it is. *)
IoFails ==
    /\ io # "ended"
    /\ io' = "ended"
    /\ running' = FALSE
    /\ todo' = <<>> /\ batch' = <<>>
    /\ UNCHANGED <<table, inbound, outbound, msgs>>

IoCycle ==
    \/ DrainCommands \/ ProcessCommand \/ CommandsDone
    \/ Poll \/ PollDone \/ PublishNext \/ CycleDone

-----------------------------------------------------------------------------
(* What the service thread does to the queues.                             *)

(* drain_events *)
TakeEvents(n) ==
    /\ inbound' = SubSeq(inbound, n + 1, Len(inbound))
    /\ UNCHANGED <<table, outbound, io, todo, batch, running, msgs>>

QueueResult ==
    IF ~running THEN "Stopped"
    ELSE IF Len(outbound) < OutboundCapacity THEN "Queued" ELSE "Full"

(* enqueue, by its result. *)
Enqueue(k, c) ==
    /\ outbound' = IF QueueResult = "Queued" THEN Append(outbound, [kind |-> k, conn |-> c])
                                             ELSE outbound
    /\ UNCHANGED <<table, inbound, io, todo, batch, running, msgs>>

(* stop(): the loop completes its cycle and processes commands once more. *)
StopRuntime ==
    /\ running' = FALSE
    /\ UNCHANGED <<table, inbound, outbound, io, todo, batch, msgs>>

-----------------------------------------------------------------------------
EdgeTypeOK ==
    /\ table \in [Conns -> {"new", "pending", "established", "gone"}]
    /\ inbound \in Seq(Events) /\ Len(inbound) <= InboundCapacity
    /\ outbound \in Seq(Commands) /\ Len(outbound) <= OutboundCapacity
    /\ io \in {"commands", "process", "final", "poll", "publish", "ended"}
    /\ todo \in Seq(Commands)
    /\ batch \in Seq(Events)
    /\ running \in BOOLEAN
    /\ msgs \in [Conns -> 0..MaxMessages]

=============================================================================
