------------------------------ MODULE Transports ------------------------------
(***************************************************************************)
(* The transports of one edge runtime and the thread that owns them: it    *)
(* polls one transport, hands out the events of that poll one by one, and  *)
(* polls the next.  The service behind it is abstracted to answering a     *)
(* message with one frame, at once or later, or closing the session.       *)
(***************************************************************************)
EXTENDS TlsTransport, QuicTransport

CONSTANT
    Groups   \* bound: the sets of peers of which one dials in a behaviour

ASSUME TransportsAssumption == TlsPeers \cap QuicPeers = {}

VARIABLES
    inbox,   \* events of the last poll, not handled yet
    phase,   \* history: what the events said of each session
    told,    \* history: the last frame of each session
    answered \* history: how many of its frames were answered

vars == <<conns, poll, states, events, inbox, phase, told, answered>>

Sessions == TlsPeers \cup QuicPeers

Init ==
    /\ \E group \in Groups : TlsInit(group) /\ QuicInit(group)
    /\ inbox = <<>>
    /\ phase = [s \in Sessions |-> "unknown"]
    /\ told = [s \in Sessions |-> 0]
    /\ answered = [s \in Sessions |-> 0]

history == <<phase, told, answered>>

Quiet == inbox = <<>>

Give(batch) == inbox' = batch

PollTls ==
    /\ Quiet /\ UNCHANGED <<states, events, history>>
    /\ \/ Wait /\ UNCHANGED inbox
       \/ SecondPass /\ UNCHANGED inbox
       \/ \E s \in DOMAIN poll.ready : service_connection(s) /\ UNCHANGED inbox
       \/ \E late \in SUBSET Held : Finish(late, Give)

PollQuic ==
    /\ Quiet /\ poll.at = "rest"
    /\ QuicPoll(Give)
    /\ UNCHANGED <<tls, history>>

(* poll_events: the next event is handed to the service. *)
Handle ==
    LET e == Head(inbox)
        s == e.session
    IN  /\ inbox # <<>>
        /\ inbox' = Tail(inbox)
        /\ \/ /\ e.kind = "Message"
              /\ told' = [told EXCEPT ![s] = e.frame]
              /\ UNCHANGED phase
           \/ /\ e.kind \in {"Opened", "Closed"}
              /\ phase' = [phase EXCEPT ![s] = IF e.kind = "Opened" THEN "open" ELSE "over"]
              /\ UNCHANGED told
           \/ /\ e.kind = "Moved"
              /\ UNCHANGED <<phase, told>>
        /\ UNCHANGED <<answered, tls, quic>>

(* A session is closed, if it is not already. *)
CloseTls(s) ==
    \/ TlsClose(s)
    \/ conns[s].stage \notin {"handshake", "open"} /\ UNCHANGED tls

CloseQuic(s) ==
    \/ QuicClose(s)
    \/ (states[s].stage # "known" \/ states[s].closing) /\ UNCHANGED quic

(* The service answers a frame that it was given: in the same poll, as the *)
(* chat service does, or polls later, by a command of another thread, as   *)
(* those of the edge runtime do.  A session that takes no answer is closed.*)
Answer(s) ==
    /\ poll.at = "rest" /\ phase[s] = "open" /\ answered[s] < told[s]
    /\ answered' = [answered EXCEPT ![s] = @ + 1]
    /\ \/ /\ s \in TlsPeers
          /\ TlsSend(s) \/ (TlsRefuses(s) /\ CloseTls(s))
          /\ UNCHANGED quic
       \/ /\ s \in QuicPeers
          /\ QuicSend(s) \/ (QuicRefuses(s) /\ CloseQuic(s))
          /\ UNCHANGED tls
    /\ UNCHANGED <<inbox, phase, told>>

Close ==
    /\ poll.at = "rest" /\ Quiet
    /\ \E s \in Sessions :
         /\ phase[s] = "open"
         /\ \/ s \in TlsPeers /\ TlsClose(s) /\ UNCHANGED quic
            \/ s \in QuicPeers /\ QuicClose(s) /\ UNCHANGED tls
    /\ UNCHANGED <<inbox, history>>

ReadsReply(s) == ReadReply(s) /\ UNCHANGED <<quic, inbox, history>>

TlsPeerStep ==
    /\ \E s \in TlsPeers :
         \/ Dial(s) \/ ShutWrite(s) \/ Break(s)
         \/ \E n \in 1..(Frames[s] * FrameSize) : Write(s, n)
    /\ UNCHANGED <<quic, inbox, history>>

CallbackStep ==
    /\ \E s \in QuicPeers :
         \/ on_new_connection(s) \/ Connected(s) \/ PeerSends(s) \/ Receive(s) \/ Decode(s)
         \/ \E u \in BOOLEAN : StreamStarted(s, u)
         \/ PeerAddressChanged(s) \/ StreamAborted(s) \/ StreamShutdownComplete(s)
         \/ SendComplete(s) \/ ShutdownComplete(s) \/ Erase(s)
         \/ \E by \in {"transport_error", "peer_requested"} : ShutdownInitiated(s, by)
    /\ UNCHANGED <<tls, inbox, history>>

Next ==
    \/ PollTls \/ PollQuic \/ Handle \/ Close
    \/ TlsPeerStep \/ CallbackStep
    \/ \E s \in Sessions : Answer(s)
    \/ \E s \in TlsPeers : ReadsReply(s)

(* The edge runtime polls and handles events for ever; a peer that has     *)
(* answers in its socket reads them.                                       *)
Fairness ==
    /\ WF_vars(PollTls) /\ WF_vars(Handle)
    /\ \A s \in TlsPeers : WF_vars(ReadsReply(s))

Spec == Init /\ [][Next]_vars /\ Fairness

-----------------------------------------------------------------------------
FrameNumbers ==
    UNION ({1..Frames[s] : s \in TlsPeers} \cup {1..QuicFrames[s] : s \in QuicPeers})

(* A QUIC session is given up once it is closing: by close, or by          *)
(* reject_overloaded, after which frames that came in may be dropped.      *)
Contract == INSTANCE TransportContract
    WITH Numbers <- FrameNumbers,
         givenUp <- {s \in QuicPeers : states[s].reason \in {"overloaded", "application_requested"}}

(* Both transports keep what TransportContract promises, as the service    *)
(* sees them.                                                              *)
KeepsContract == Contract!Spec

(* A session is kept until the service was given all that its peer sent    *)
(* before it closed its writing side: every complete frame was handed out  *)
(* and handled while the session could still be sent to, so a service that *)
(* answers a frame when it is handed out is heard by a half-closed peer    *)
(* (service_connection, received_messages; receive_frames reports the end  *)
(* only after reading everything).  An answer that comes polls later may   *)
(* find the session closed.                                                *)
HeardOut ==
    \A s \in TlsPeers :
      phase[s] # "unknown" /\ conns[s].stage = "closed" /\ conns[s].reason = "peer_closed"
        => told[s] = conns[s].c.sent \div FrameSize

(* Nothing gets stuck in a connection that stays: a frame that has come in *)
(* is handed out even if SSL holds it and the descriptor is quiet, and an  *)
(* answer that did not fit the socket is written when it drains.           *)
EventuallyCarried ==
    \A s \in TlsPeers :
      /\ \A k \in 1..Frames[s] :
           (conns[s].stage = "open" /\ conns[s].c.sent >= k * FrameSize)
             ~> (told[s] >= k \/ conns[s].stage = "closed")
      /\ (conns[s].c.out > 0) ~> (conns[s].c.out = 0 \/ conns[s].stage = "closed")
=============================================================================
