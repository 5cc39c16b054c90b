----------------------------- MODULE TlsTransport -----------------------------
(***************************************************************************)
(* TlsTcpTransport: sessions over TLS/TCP behind an event loop.            *)
(*                                                                         *)
(* poll_once takes the ready set, services one connection after another,   *)
(* gives the connections whose SSL still holds input a turn of their own,  *)
(* and closes what has to be closed last, so its steps are separate        *)
(* actions: peers write, read and break connections in between.  send and  *)
(* close run on the same thread, between two polls.  A session stands for  *)
(* its descriptor too.  Time is a choice: a connection that was not active *)
(* in this poll may have been idle for long enough.                        *)
(***************************************************************************)
EXTENDS TlsConnection, Sequences, SequencesExt

CONSTANTS
    TlsPeers,      \* peers that dial this listener, once each
    MaxSessions,   \* max_sessions
    Budget,        \* max_receive_batch_bytes, in units, where each peer dials; 0 for none
    Frames,        \* bound: how many frames each peer sends
    Oversized      \* for each peer the frame above max_payload_size, 0 for none

ASSUME TlsTransportAssumption ==
    /\ IsFiniteSet(TlsPeers)
    /\ Budget \in [TlsPeers -> Nat]
    /\ Frames \in [TlsPeers -> Nat]

VARIABLES
    conns,   \* connections_ by session
    poll     \* poll_once: where it is and what it has gathered

tls == <<conns, poll>>

NewEntry ==
    [stage |-> "away", c |-> NewConnection, wantsWrite |-> FALSE,
     closing |-> FALSE, reason |-> "unknown"]

Resting == [at |-> "rest", ready |-> <<>>, served |-> {}, active |-> {},
            closes |-> {}, batch |-> <<>>]

TlsInit(dialing) ==
    /\ conns = [s \in TlsPeers |->
                  [NewEntry EXCEPT !.stage = IF s \in dialing THEN "away" ELSE "elsewhere"]]
    /\ poll = Resting

Held == {s \in TlsPeers : conns[s].stage \in {"handshake", "open"}}

Event(k, s, m) == [kind |-> k, session |-> s, frame |-> m]

-----------------------------------------------------------------------------
(* The peers.                                                              *)

Dial(s) ==
    /\ conns[s].stage = "away"
    /\ conns' = [conns EXCEPT ![s].stage = "dialing"]
    /\ UNCHANGED poll

Write(s, n) ==
    LET c == conns[s].c
    IN  /\ s \in Held /\ ~c.fin /\ ~c.rst
        /\ c.sent + n <= Frames[s] * FrameSize
        /\ conns' = [conns EXCEPT ![s].c = PeerWrites(c, n)]
        /\ UNCHANGED poll

ShutWrite(s) ==
    /\ s \in Held /\ ~conns[s].c.fin /\ ~conns[s].c.rst
    /\ conns' = [conns EXCEPT ![s].c.fin = TRUE]
    /\ UNCHANGED poll

Break(s) ==
    /\ s \in Held /\ ~conns[s].c.rst
    /\ conns' = [conns EXCEPT ![s].c.rst = TRUE]
    /\ UNCHANGED poll

ReadReply(s) ==
    /\ conns[s].c.sock > 0
    /\ conns' = [conns EXCEPT ![s].c = PeerReads(@)]
    /\ UNCHANGED poll

-----------------------------------------------------------------------------
(* poll_once.                                                              *)

Flags(e) ==
    {f \in {"readable", "writable", "peer_closed", "error"} :
        \/ f = "readable" /\ (Readable(e.c) \/ e.c.rst)
        \/ f = "peer_closed" /\ e.c.fin
        \/ f = "writable" /\ e.wantsWrite /\ Writable(e.c)
        \/ f = "error" /\ e.c.rst}

ReadySet == {s \in Held : Flags(conns[s]) # {}}

(* accept_connections: what exceeds max_sessions is dropped at once.       *)
Accepted(room) ==
    {S \in SUBSET {s \in TlsPeers : conns[s].stage = "dialing"} :
        Cardinality(S) = Smaller(room, Cardinality({s \in TlsPeers : conns[s].stage = "dialing"}))}

Wait ==
    /\ poll.at = "rest"
    /\ \E S \in Accepted(MaxSessions - Cardinality(Held)) :
         conns' = [s \in TlsPeers |->
                     IF conns[s].stage # "dialing" THEN conns[s]
                     ELSE [conns[s] EXCEPT !.stage = IF s \in S THEN "handshake" ELSE "refused"]]
    /\ poll' = [Resting EXCEPT !.at = "serve",
                               !.ready = [s \in ReadySet |-> Flags(conns[s])]]

(* accept_handshake: done, waiting for more, or failed.                    *)
Shaken(e) ==
    IF e.stage = "open" THEN {e}
    ELSE {[e EXCEPT !.stage = "open"], e, [e EXCEPT !.reason = "tls_handshake_failed"]}

(* The reading half of service_connection: the entry, the frames it hands  *)
(* out and whether it has to be closed at once.                            *)
Received(s, e, flags) ==
    LET r == receive_frames(e.c, Budget[s], Oversized[s])
        read == [e EXCEPT !.c = r.conn]
    IN  IF e.reason = "tls_handshake_failed" THEN [e |-> e, frames |-> {}, now |-> TRUE]
        ELSE IF e.stage # "open" \/ "readable" \notin flags
        THEN [e |-> IF "peer_closed" \in flags
                    THEN [e EXCEPT !.closing = TRUE, !.reason = "peer_closed"] ELSE e,
              frames |-> {}, now |-> FALSE]
        ELSE CASE r.status = "FrameTooLarge" ->
                    [e |-> [read EXCEPT !.reason = "frame_too_large"], frames |-> {}, now |-> TRUE]
               [] r.status = "Failed" ->
                    [e |-> [read EXCEPT !.reason = "receive_failed"], frames |-> {}, now |-> TRUE]
               [] r.status = "PeerClosed" ->
                    [e |-> [read EXCEPT !.closing = TRUE, !.reason = "peer_closed"],
                     frames |-> r.frames, now |-> FALSE]
               [] r.status = "Open" -> [e |-> read, frames |-> r.frames, now |-> FALSE]

(* The writing half; a failed flush closes at once.                        *)
Flushed(x) ==
    IF x.now \/ x.e.stage # "open" THEN x
    ELSE IF FlushFails(x.e.c)
    THEN [x EXCEPT !.e.reason = "flush_failed", !.now = TRUE]
    ELSE [x EXCEPT !.e.c = flush_output(@)]

(* Mutant of CloseNow: frames that were just received keep no session. *)
CloseNowAtOnce(x) ==
    x.now \/ (x.e.closing /\ ~has_pending_output(x.e.c))

(* Closed at once, or, where the end was met, as soon as nothing has to be *)
(* written and this turn brought no frame that may be answered.            *)
CloseNow(x) ==
    x.now \/ (x.e.closing /\ ~has_pending_output(x.e.c) /\ x.frames = {})

update_interest(e) == [e EXCEPT !.wantsWrite = has_pending_output(e.c)]

Served(s, e, flags) ==
    LET x == Flushed(Received(s, e, flags))
        opened == IF e.stage = "open" /\ conns[s].stage # "open" THEN <<Event("Opened", s, 0)>> ELSE <<>>
        heard == [i \in 1..Cardinality(x.frames) |-> Event("Message", s, Min(x.frames) + i - 1)]
    IN  /\ conns' = [conns EXCEPT ![s] = IF CloseNow(x) THEN x.e ELSE update_interest(x.e)]
        /\ poll' = [poll EXCEPT
              !.ready = [t \in DOMAIN @ \ {s} |-> @[t]],
              !.served = @ \cup {s},
              !.active = IF opened # <<>> \/ x.frames # {} THEN @ \cup {s} ELSE @,
              !.closes = IF CloseNow(x) THEN @ \cup {<<s, x.e.reason>>} ELSE @,
              !.batch = @ \o opened \o heard]

service_connection(s) ==
    LET flags == poll.ready[s]
    IN  /\ poll.at = "serve" /\ s \in DOMAIN poll.ready
        /\ \/ /\ "error" \in flags
              /\ conns' = [conns EXCEPT ![s].reason = "transport_error"]
              /\ poll' = [poll EXCEPT !.ready = [t \in DOMAIN @ \ {s} |-> @[t]],
                                      !.served = @ \cup {s},
                                      !.closes = @ \cup {<<s, "transport_error">>}]
           \/ /\ "error" \notin flags
              /\ \E e \in Shaken(conns[s]) : Served(s, e, flags)

(* With a budget, SSL may hold input the descriptor no longer shows.       *)
BufferedNone == {}

Buffered ==
    {s \in Held \ poll.served :
        Budget[s] # 0 /\ conns[s].stage = "open" /\ has_pending_input(conns[s].c)}

SecondPass ==
    /\ poll.at = "serve" /\ DOMAIN poll.ready = {} /\ Buffered # {}
    /\ poll' = [poll EXCEPT !.ready = [s \in Buffered |-> {"readable"}]]
    /\ UNCHANGED conns

(* The deadlines, and close_descriptor for all that is to be closed: only  *)
(* a session that was opened is reported.                                  *)
TimedOut(s) ==
    IF conns[s].stage = "handshake" THEN "tls_handshake_timeout" ELSE "idle_timeout"

ClosedEvents(S) ==
    LET told == SetToSeq({s \in S : conns[s].stage = "open"})
    IN  [i \in DOMAIN told |-> Event("Closed", told[i], 0)]

FirstReason(s) == CHOOSE r \in {p[2] : p \in {q \in poll.closes : q[1] = s}} : TRUE

Finish(late, Deliver(_)) ==
    LET served == {p[1] : p \in poll.closes}
        gone == served \cup late
    IN  /\ poll.at = "serve" /\ DOMAIN poll.ready = {} /\ Buffered = {}
        /\ late \subseteq Held \ (poll.active \cup served)
        /\ conns' = [s \in TlsPeers |->
             IF s \in gone
             THEN [conns[s] EXCEPT !.stage = "closed",
                                   !.reason = IF s \in served THEN FirstReason(s) ELSE TimedOut(s)]
             ELSE conns[s]]
        /\ poll' = Resting
        /\ Deliver(poll.batch \o ClosedEvents(gone))

-----------------------------------------------------------------------------
(* send and close, of the thread that polls.                               *)

TlsRefuses(s) == conns[s].stage # "open" \/ ~fits_pending_output(conns[s].c)

(* A failed flush closes the session, and no event tells of it. *)
TlsSend(s) ==
    LET queued == queue_frame(conns[s].c)
        sent == update_interest([conns[s] EXCEPT !.c = flush_output(queued)])
        failed == [conns[s] EXCEPT !.stage = "closed", !.reason = "send_failed"]
    IN  /\ ~TlsRefuses(s)
        /\ conns' = [conns EXCEPT ![s] = IF FlushFails(queued) THEN failed ELSE sent]
        /\ UNCHANGED poll

TlsClose(s) ==
    /\ conns[s].stage \in {"handshake", "open"}
    /\ conns' = [conns EXCEPT ![s].stage = "closed", ![s].reason = "application_requested"]
    /\ UNCHANGED poll
=============================================================================
