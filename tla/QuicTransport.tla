----------------------------- MODULE QuicTransport ----------------------------
(***************************************************************************)
(* QuicTransport: sessions over MsQuic.  MsQuic calls back on threads of   *)
(* its own, one callback of a connection at a time; the callbacks fill one *)
(* bounded queue of events that poll_once drains, and send and close come  *)
(* from the polling thread.  Callbacks of different connections, and the   *)
(* lock-protected parts of one callback, interleave with poll_once.        *)
(* MsQuic itself is the environment: it may still deliver what it has      *)
(* received after a shutdown was asked for, until SHUTDOWN_COMPLETE.       *)
(***************************************************************************)
EXTENDS Integers, Sequences, FiniteSets

CONSTANTS
    QuicPeers,      \* peers that dial this listener, once each
    MaxConns,       \* max_sessions
    EventCapacity,  \* event_capacity_
    MaxOut,         \* max_pending_output_bytes, in frames
    QuicFrames,     \* bound: how many frames each peer sends
    TooLong,        \* for each peer the frame above max_payload_size, 0 for none
    Roaming         \* peers whose address may change, once each

ASSUME QuicAssumption ==
    /\ MaxConns \in Nat \ {0}
    /\ EventCapacity \in Nat \ {0}
    /\ MaxOut \in Nat \ {0}
    /\ QuicFrames \in [QuicPeers -> Nat]
    /\ Roaming \subseteq QuicPeers

VARIABLES
    states,   \* ConnectionState by session, with what its peer did
    events    \* events_

quic == <<states, events>>

NewState ==
    [stage |-> "away",       \* "known" while connections_ holds it
     connected |-> FALSE, stream |-> FALSE, closing |-> FALSE,
     reason |-> "unknown",
     shut |-> FALSE,         \* a shutdown was asked for, by either side
     ended |-> FALSE,        \* SHUTDOWN_COMPLETE has told the service
     sent |-> 0,             \* frames the peer sent
     input |-> 0,            \* frames handed to RECEIVE so far
     decoded |-> 0,          \* frames taken out of input
     receiving |-> FALSE,    \* inside the RECEIVE callback's loop
     moved |-> FALSE,
     pending |-> 0]          \* pending_output_bytes, in frames

QuicInit(dialing) ==
    /\ states = [s \in QuicPeers |->
                   [NewState EXCEPT !.stage = IF s \in dialing THEN "away" ELSE "elsewhere"]]
    /\ events = <<>>

QuicEvent(k, s, m) == [kind |-> k, session |-> s, frame |-> m]

(* A callback finds its connection, and runs alone for it.                 *)
Callback(s) == states[s].stage = "known" /\ ~states[s].ended /\ ~states[s].receiving

Rejected(st) ==
    IF st.closing THEN st
    ELSE [st EXCEPT !.closing = TRUE, !.reason = "overloaded", !.shut = TRUE]

(* push_event, and reject_overloaded when the queue is full.               *)
Report(s, st, e) ==
    IF Len(events) < EventCapacity
    THEN /\ events' = Append(events, e)
         /\ states' = [states EXCEPT ![s] = st]
    ELSE /\ states' = [states EXCEPT ![s] = Rejected(st)]
         /\ UNCHANGED events

-----------------------------------------------------------------------------
on_new_connection(s) ==
    LET full == Cardinality({t \in QuicPeers : states[t].stage = "known"}) >= MaxConns
    IN  /\ states[s].stage = "away"
        /\ \E stage \in IF full THEN {"refused"} ELSE {"known", "unconfigured"} :
             states' = [states EXCEPT ![s].stage = stage]
        /\ UNCHANGED events

Connected(s) ==
    /\ Callback(s) /\ ~states[s].connected /\ ~states[s].shut
    /\ Report(s, [states[s] EXCEPT !.connected = TRUE], QuicEvent("Opened", s, 0))

(* Only one bidirectional stream is taken.                                 *)
StreamStarted(s, unidirectional) ==
    LET st == states[s]
    IN  /\ Callback(s) /\ st.connected
        /\ states' = [states EXCEPT ![s] =
             IF unidirectional \/ st.stream THEN Rejected(st) ELSE [st EXCEPT !.stream = TRUE]]
        /\ UNCHANGED events

PeerSends(s) ==
    /\ states[s].stage = "known" /\ states[s].stream /\ ~states[s].shut
    /\ states[s].sent < QuicFrames[s]
    /\ states' = [states EXCEPT ![s].sent = @ + 1]
    /\ UNCHANGED events

Receive(s) ==
    /\ Callback(s) /\ states[s].stream /\ states[s].input < states[s].sent
    /\ states' = [states EXCEPT ![s].input = states[s].sent, ![s].receiving = TRUE]
    /\ UNCHANGED events

(* One turn of the decoding loop.  A frame the queue refused is gone.      *)
Decode(s) ==
    LET st == states[s]
        out == [st EXCEPT !.receiving = FALSE]
        next == [st EXCEPT !.decoded = @ + 1]
    IN  /\ st.receiving
        /\ \/ /\ st.decoded = st.input
              /\ states' = [states EXCEPT ![s] = out] /\ UNCHANGED events
           \/ /\ st.decoded < st.input /\ st.decoded + 1 = TooLong[s]
              /\ states' = [states EXCEPT ![s] = Rejected(out)] /\ UNCHANGED events
           \/ /\ st.decoded < st.input /\ st.decoded + 1 # TooLong[s]
              /\ Report(s, IF Len(events) < EventCapacity THEN next ELSE [next EXCEPT !.receiving = FALSE],
                        QuicEvent("Message", s, st.decoded + 1))

PeerAddressChanged(s) ==
    /\ Callback(s) /\ states[s].connected /\ s \in Roaming /\ ~states[s].moved
    /\ Report(s, [states[s] EXCEPT !.moved = TRUE], QuicEvent("Moved", s, 0))

StreamAborted(s) ==
    /\ Callback(s) /\ states[s].stream
    /\ states' = [states EXCEPT ![s] = Rejected(@)]
    /\ UNCHANGED events

StreamShutdownComplete(s) ==
    /\ Callback(s) /\ states[s].stream
    /\ states' = [states EXCEPT ![s].stream = FALSE]
    /\ UNCHANGED events

SendComplete(s) ==
    /\ Callback(s) /\ states[s].pending > 0
    /\ states' = [states EXCEPT ![s].pending = @ - 1]
    /\ UNCHANGED events

ShutdownInitiated(s, by) ==
    /\ Callback(s) /\ ~states[s].shut
    /\ states' = [states EXCEPT ![s].shut = TRUE, ![s].reason = by]
    /\ UNCHANGED events

(* As below, but a connection that never came up is reported too.         *)
ShutdownCompleteAlways(s) ==
    LET st == [states[s] EXCEPT !.closing = TRUE, !.ended = TRUE]
    IN  /\ Callback(s) /\ states[s].shut
        /\ states' = [states EXCEPT ![s] = st]
        /\ events' = IF Len(events) < EventCapacity
                     THEN Append(events, QuicEvent("Closed", s, 0)) ELSE events

(* SHUTDOWN_COMPLETE: the service is told, if there is room, and only      *)
(* then connections_ forgets the connection.                               *)
ShutdownComplete(s) ==
    LET st == [states[s] EXCEPT !.closing = TRUE, !.ended = TRUE]
    IN  /\ Callback(s) /\ states[s].shut
        /\ states' = [states EXCEPT ![s] = st]
        /\ events' = IF st.connected /\ Len(events) < EventCapacity
                     THEN Append(events, QuicEvent("Closed", s, 0)) ELSE events

Erase(s) ==
    /\ states[s].stage = "known" /\ states[s].ended
    /\ states' = [states EXCEPT ![s].stage = "gone"]
    /\ UNCHANGED events

-----------------------------------------------------------------------------
(* The polling thread.                                                     *)

QuicPoll(Deliver(_)) ==
    /\ events # <<>>
    /\ Deliver(events)
    /\ events' = <<>>
    /\ UNCHANGED states

CanSend(st) ==
    /\ st.stage = "known" /\ st.connected /\ st.stream /\ ~st.closing
    /\ st.pending < MaxOut

(* send: StreamSend may fail after a shutdown, and the frame's share is    *)
(* given back.                                                             *)
QuicRefuses(s) == ~CanSend(states[s]) \/ states[s].shut

QuicSend(s) ==
    /\ CanSend(states[s])
    /\ states' = [states EXCEPT ![s].pending = @ + 1]
    /\ UNCHANGED events

QuicClose(s) ==
    /\ states[s].stage = "known" /\ ~states[s].closing
    /\ states' = [states EXCEPT ![s].closing = TRUE, ![s].shut = TRUE,
                                ![s].reason = "application_requested"]
    /\ UNCHANGED events
=============================================================================
