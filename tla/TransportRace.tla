--------------------------- MODULE TransportRace ---------------------------
(***************************************************************************)
(* PreferredTransportConnector: QUIC and TLS over TCP race for a           *)
(* connection.  A worker dials each; connect() looks at what they bring    *)
(* back, in the order in which they do, and returns only after both have   *)
(* ended.  Time is two events: the head start of QUIC is over, and the     *)
(* round is over.                                                          *)
(***************************************************************************)
EXTENDS Naturals, Sequences

CONSTANTS
    None,
    MaxFaults  \* what may go wrong: a TLS dial, a round that is over too early, and more

VARIABLES
    race,       \* the race under way, or None
    suppressed, \* the negative cache: QUIC failed in this network
    faults

raceVars == <<race, suppressed>>

Fault == faults < MaxFaults /\ faults' = faults + 1
NoFault == UNCHANGED faults

(* permits_transport_fallback: Unsupported, NetworkUnreachable and         *)
(* HandshakeTimeout do, a rejection of whatever kind does not.             *)
Fallback == {"unsupported", "network"}
Failures == Fallback \cup {"rejected", "cancelled"}
ASSUME RaceAssumption == None \notin Failures \cup {"up", "timeout", "none", "quic", "tls"}

NewRace(candidates) ==
    LET first == IF "quic" \in candidates /\ ~suppressed THEN {"quic"}
                 ELSE candidates \cap {"tls"}
    IN  [tls |-> "tls" \in candidates,
         started |-> first, dialing |-> first,
         results |-> <<>>, last |-> "timeout",
         delayed |-> FALSE, over |-> FALSE,
         verdict |-> IF candidates = {} THEN "none" ELSE None]

InitRace == race = None /\ suppressed = FALSE /\ faults = 0

Undecided == IF race = None THEN FALSE ELSE race.verdict = None

(* TlsClientStream::dial, of which a stop makes a cancellation where it    *)
(* waits; and what TlsTcpClientDialer makes of it: a handshake that fails  *)
(* or lasts too long is no failure of the network.                         *)
DialFailures(stopped) ==
    {"resolve", "socket", "configure", "connect", "connect_timeout", "ssl_setup", "handshake"}
      \cup (IF stopped THEN {"cancelled"} ELSE {})

Classify(failure) ==
    CASE failure \in {"resolve", "socket", "configure", "connect", "connect_timeout"} ->
           "network"
      [] failure = "cancelled" -> "cancelled"
      [] OTHER -> "rejected"

(* A dialer need not have QUIC; one that was asked to stop may have        *)
(* connected.  No ALPN, or another one, is a rejection.                    *)
Outcomes(p, stopped) ==
    (IF p = "tls" THEN {Classify(f) : f \in DialFailures(stopped)}
     ELSE IF stopped THEN {"cancelled"} ELSE Failures \ {"cancelled"}) \cup {"up", "rejected"}

(* A worker ends. *)
DialEnd(p) ==
    /\ race # None
    /\ p \in race.dialing
    /\ \E outcome \in Outcomes(p, race.verdict # None) :
         /\ race' = [race EXCEPT !.dialing = @ \ {p},
                                 !.results = Append(@, [by |-> p, outcome |-> outcome])]
         /\ IF outcome \in {"up", "cancelled"} \/ (p = "quic" /\ outcome \in Fallback)
               \/ race.verdict # None
              THEN NoFault ELSE Fault
    /\ UNCHANGED suppressed

Start(r, p) ==
    [r EXCEPT !.started = @ \cup {p}, !.dialing = @ \cup {p}]

(* Mutant of AfterFailure: TLS waits for its head start to be over. *)
AfterFailureIdle(r, by) == r

(* QUIC has failed: TLS does not wait any longer. *)
AfterFailure(r, by) ==
    IF by = "quic" /\ r.tls /\ "tls" \notin r.started THEN Start(r, "tls") ELSE r

(* connect() takes the next result. *)
HandleResult ==
    /\ Undecided
    /\ ~race.over
    /\ race.results # <<>>
    /\ LET result == Head(race.results)
           rest == [race EXCEPT !.results = Tail(@)] IN
       /\ race' = IF result.outcome = "up" THEN [rest EXCEPT !.verdict = result.by]
                  ELSE IF result.outcome \in Fallback
                    THEN AfterFailure([rest EXCEPT !.last = result.outcome], result.by)
                  ELSE [rest EXCEPT !.verdict = result.outcome]
       /\ suppressed' = (suppressed \/ (result.by = "quic" /\ result.outcome = "network"))
    /\ NoFault

(* The head start is over. *)
StartTls ==
    /\ Undecided
    /\ ~race.over /\ race.delayed /\ race.results = <<>>
    /\ race.tls /\ "tls" \notin race.started
    /\ race' = Start(race, "tls")
    /\ UNCHANGED <<suppressed, faults>>

(* Nothing is left to wait for, or the round is over. *)
GiveUpRace ==
    /\ Undecided
    /\ \/ race.over
       \/ race.results = <<>> /\ race.dialing = {} /\ race.started # {}
    /\ race' = [race EXCEPT !.verdict = race.last]
    /\ UNCHANGED <<suppressed, faults>>

RaceTime ==
    /\ Undecided
    /\ \/ ~race.delayed /\ NoFault /\ race' = [race EXCEPT !.delayed = TRUE]
       \/ race.delayed /\ ~race.over /\ Fault /\ race' = [race EXCEPT !.over = TRUE]
    /\ UNCHANGED suppressed

(* The entry of the cache runs out, or network_changed. *)
Unsuppress ==
    /\ suppressed
    /\ suppressed' = FALSE
    /\ UNCHANGED <<race, faults>>

(* The workers are joined; what they brought back is closed with them,     *)
(* except for the connection that won.                                     *)
Decided == IF race = None THEN FALSE ELSE race.verdict # None /\ race.dialing = {}
Won == race.verdict \in {"quic", "tls"}

RaceStep == (\E p \in {"quic", "tls"} : DialEnd(p)) \/ HandleResult \/ StartTls \/ GiveUpRace

-----------------------------------------------------------------------------
(* connect() gives up for a failure of the network only after it tried TLS *)
(* where there is a candidate, unless the round was over: a client in a    *)
(* network without QUIC gets in.                                           *)
TlsTried ==
    race # None => ~(race.verdict \in Fallback /\ race.tls /\ ~race.over
                       /\ "tls" \notin race.started)
=============================================================================
