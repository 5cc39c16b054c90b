------------------------------ MODULE HttpServer ------------------------------
(***************************************************************************)
(* HttpServer: HTTP/1.1 over TLS on one event loop, with responses that a  *)
(* handler may defer and the owner completes later by token.               *)
(*                                                                         *)
(* Connections are known by their descriptor, which the kernel gives out   *)
(* again after a close; tokens are never used twice.  A client follows a   *)
(* script of requests; a request is one unit of its stream, or two when it *)
(* has a body, so requests arrive in pieces and pipelined.  The loop       *)
(* services one event at a time; parse_and_dispatch takes one request per  *)
(* step, so that the workers and clients run in between.  Deadlines are a  *)
(* choice: any connection may be found expired by sweep_deadlines.         *)
(***************************************************************************)
EXTENDS Integers, Sequences, FiniteSets, FiniteSetsExt

CONSTANTS
    Clients,         \* clients, each connects once
    Script,          \* for each client its requests, [kind, keep]
    Descriptors,     \* what the kernel gives out, lowest first
    MaxConnections,  \* max_connections
    MaxInput,        \* max_head_bytes + max_body_bytes, in units
    MaxOutput,       \* max_pending_output_bytes, in responses
    SockRoom         \* responses the kernel takes for a client that does not read

ASSUME HttpAssumption ==
    /\ Script \in [Clients -> Seq([kind : {"verify", "plain", "bad"}, keep : BOOLEAN])]
    /\ 0 \notin Clients
    /\ Descriptors \subseteq Nat \ {0} /\ IsFiniteSet(Descriptors)
    /\ MaxConnections \in 1..Cardinality(Descriptors)
    /\ MaxInput \in Nat \ {0} /\ MaxOutput \in Nat \ {0} /\ SockRoom \in Nat \ {0}

VARIABLES
    client,       \* per client: its socket, what it sent and received
    connections,  \* connections_ by descriptor
    awaiting,     \* awaiting_: who waits for a token
    next_token,   \* next_token_
    loop,         \* the connection being serviced, and where
    asked         \* history: whose request a token stands for

http == <<client, connections, awaiting, next_token, loop, asked>>

None == 0

NewClient ==
    [stage |-> "away", sent |-> 0, fin |-> FALSE, rst |-> FALSE,
     wire |-> <<>>, got |-> <<>>, ended |-> "no"]

NewConnection(c) ==
    [client |-> c, handshake_complete |-> FALSE,
     read |-> 0,             \* units received
     input |-> 0,            \* of these, not parsed
     next |-> 1,             \* the request being parsed
     body |-> FALSE,         \* Http1Parser: Phase::Body
     awaiting |-> None, awaiting_keep |-> TRUE,
     close_after_flush |-> FALSE, peer_closed |-> FALSE,
     registered |-> TRUE, reads |-> TRUE, writes |-> FALSE,
     output |-> <<>>]

Free == [NewConnection(None) EXCEPT !.registered = FALSE]
Open == {h \in Descriptors : connections[h].client # None}

Idle == [at |-> "idle", handle |-> None]

HttpInit ==
    /\ client = [c \in Clients |-> NewClient]
    /\ connections = [h \in Descriptors |-> Free]
    /\ awaiting = {}
    /\ next_token = 1
    /\ loop = Idle
    /\ asked = <<>>

Units(r) == IF r.kind = "verify" THEN 2 ELSE 1

UnitsTo(c, n) == n + Cardinality({i \in 1..n : Script[c][i].kind = "verify"})

Answer(c, n, status) == [to |-> c, n |-> n, status |-> status]

-----------------------------------------------------------------------------
(* The clients.                                                            *)

Connect(c) ==
    /\ client[c].stage = "away"
    /\ client' = [client EXCEPT ![c].stage = "dialing"]
    /\ UNCHANGED <<connections, awaiting, next_token, loop, asked>>

Sends(c, n) ==
    /\ client[c].stage = "linked" /\ ~client[c].fin /\ ~client[c].rst
    /\ client[c].sent + n <= UnitsTo(c, Len(Script[c]))
    /\ client' = [client EXCEPT ![c].sent = @ + n]
    /\ UNCHANGED <<connections, awaiting, next_token, loop, asked>>

ShutsWrite(c) ==
    /\ client[c].stage = "linked" /\ ~client[c].fin /\ ~client[c].rst
    /\ client' = [client EXCEPT ![c].fin = TRUE]
    /\ UNCHANGED <<connections, awaiting, next_token, loop, asked>>

Breaks(c) ==
    /\ client[c].stage = "linked" /\ ~client[c].rst
    /\ client' = [client EXCEPT ![c].rst = TRUE]
    /\ UNCHANGED <<connections, awaiting, next_token, loop, asked>>

Reads(c) ==
    /\ client[c].wire # <<>>
    /\ client' = [client EXCEPT ![c].wire = Tail(@), ![c].got = Append(@, Head(client[c].wire))]
    /\ UNCHANGED <<connections, awaiting, next_token, loop, asked>>

-----------------------------------------------------------------------------
(* close_connection: the deferred response loses its connection with it,   *)
(* for the descriptor may be another client's tomorrow.                    *)

CloseKeeping(h, why) ==
    /\ connections' = [connections EXCEPT ![h] = Free]
    /\ client' = [client EXCEPT ![connections[h].client].stage = "closed",
                                ![connections[h].client].ended = why]
    /\ loop' = Idle
    /\ UNCHANGED awaiting

close_connection(h, why) ==
    /\ connections' = [connections EXCEPT ![h] = Free]
    /\ client' = [client EXCEPT ![connections[h].client].stage = "closed",
                                ![connections[h].client].ended = why]
    /\ awaiting' = {a \in awaiting : a.handle # h}
    /\ loop' = Idle

(* accept_connections: above max_connections a socket is dropped; the      *)
(* kernel gives the lowest free descriptor.                                *)
Accept(c) ==
    /\ loop = Idle /\ client[c].stage = "dialing"
    /\ \/ /\ Cardinality(Open) >= MaxConnections
          /\ client' = [client EXCEPT ![c].stage = "closed", ![c].ended = "refused"]
          /\ UNCHANGED connections
       \/ /\ Cardinality(Open) < MaxConnections
          /\ connections' = [connections EXCEPT ![Min(Descriptors \ Open)] = NewConnection(c)]
          /\ client' = [client EXCEPT ![c].stage = "linked"]
    /\ UNCHANGED <<awaiting, next_token, loop, asked>>

-----------------------------------------------------------------------------
(* poll_once: one ready event.                                             *)

Readable(h) ==
    LET cn == connections[h]
    IN  cn.reads /\ (client[cn.client].sent > cn.read \/ client[cn.client].fin)

Writable(h) == connections[h].writes /\ Len(client[connections[h].client].wire) < SockRoom

Ready(h) ==
    /\ h \in Open /\ connections[h].registered
    /\ Readable(h) \/ Writable(h) \/ client[connections[h].client].rst

(* receive_stream takes all there is.  Too much of it is refused, and not  *)
(* even that while a response is owed: the refusal would overtake it.      *)
Received(h, cn) ==
    LET c == cn.client
        more == client[c].sent - cn.read
        in == [cn EXCEPT !.read = client[c].sent, !.input = @ + more, !.peer_closed = client[c].fin]
    IN  IF in.input <= MaxInput
        THEN /\ connections' = [connections EXCEPT ![h] = in]
             /\ loop' = [at |-> "parse", handle |-> h]
             /\ UNCHANGED <<client, awaiting>>
        ELSE \/ cn.awaiting # None /\ close_connection(h, "overflow")
             \/ /\ cn.awaiting = None
                /\ connections' = [connections EXCEPT ![h] =
                     [in EXCEPT !.close_after_flush = TRUE,
                                !.output = IF Len(@) < MaxOutput THEN Append(@, Answer(c, cn.next, "431")) ELSE @]]
                /\ loop' = [at |-> "flush", handle |-> h]
                /\ UNCHANGED <<client, awaiting>>

service_connection(h) ==
    LET cn == connections[h]
        shaken == [cn EXCEPT !.handshake_complete = TRUE]
    IN  /\ loop = Idle /\ Ready(h)
        /\ UNCHANGED <<next_token, asked>>
        /\ \/ client[cn.client].rst /\ close_connection(h, "broken")
           \/ ~client[cn.client].rst /\ ~cn.handshake_complete /\ close_connection(h, "handshake")
           \/ ~client[cn.client].rst /\ Readable(h) /\ Received(h, shaken)
           \/ /\ ~client[cn.client].rst /\ ~Readable(h)
              /\ loop' = [at |-> "flush", handle |-> h]
              /\ UNCHANGED <<client, connections, awaiting>>

(* Http1Parser::try_parse: what it takes from the input, and the verdict.  *)
TryParse(cn) ==
    LET r == Script[cn.client][cn.next]
        need == IF cn.body THEN 1 ELSE Units(r)
    IN  IF cn.input = 0 THEN [verdict |-> "more", took |-> 0, body |-> cn.body]
        ELSE IF r.kind = "bad" THEN [verdict |-> "bad", took |-> 0, body |-> FALSE]
        ELSE IF cn.input < need THEN [verdict |-> "more", took |-> cn.input, body |-> TRUE]
        ELSE [verdict |-> "request", took |-> need, body |-> FALSE]

Parsed(cn, p) ==
    [cn EXCEPT !.input = @ - p.took, !.body = p.body,
               !.next = IF p.verdict = "request" THEN @ + 1 ELSE @]

(* queue_response: output above its limit closes the connection.           *)
queue_response(h, cn, answer, keep) ==
    \/ Len(cn.output) >= MaxOutput /\ close_connection(h, "overflow")
    \/ /\ Len(cn.output) < MaxOutput
       /\ connections' = [connections EXCEPT ![h] =
            [cn EXCEPT !.output = Append(@, answer),
                       !.close_after_flush = @ \/ ~keep]]
       /\ loop' = [at |-> "parse", handle |-> h]
       /\ UNCHANGED <<client, awaiting>>

(* One turn of parse_and_dispatch; Handler says what the handler does with *)
(* the request: a status, or "deferred".                                   *)
ParseStep(Handler(_, _, _)) ==
    LET h == loop.handle
        cn == connections[h]
        c == cn.client
        p == TryParse(cn)
        after == Parsed(cn, p)
        stops == cn.awaiting # None \/ cn.close_after_flush
    IN  /\ loop.at = "parse"
        /\ \/ /\ stops \/ p.verdict = "more"
              /\ connections' = [connections EXCEPT ![h] = IF stops THEN cn ELSE after]
              /\ loop' = [at |-> "flush", handle |-> h]
              /\ Handler("none", next_token, "no")
              /\ UNCHANGED <<client, awaiting, next_token, asked>>
           \/ /\ ~stops /\ p.verdict = "bad"
              /\ connections' = [connections EXCEPT ![h] =
                   [cn EXCEPT !.close_after_flush = TRUE,
                              !.output = IF Len(@) < MaxOutput THEN Append(@, Answer(c, cn.next, "400")) ELSE @]]
              /\ loop' = [at |-> "flush", handle |-> h]
              /\ Handler("none", next_token, "no")
              /\ UNCHANGED <<client, awaiting, next_token, asked>>
           \/ /\ ~stops /\ p.verdict = "request"
              /\ next_token' = next_token + 1
              /\ asked' = Append(asked, [client |-> c, n |-> cn.next])
              /\ \E status \in {"200", "503", "deferred"} :
                   /\ Handler(Script[c][cn.next].kind, next_token, status)
                   /\ \/ /\ status = "deferred"
                         /\ connections' = [connections EXCEPT ![h] =
                              [after EXCEPT !.awaiting = next_token,
                                            !.awaiting_keep = Script[c][cn.next].keep]]
                         /\ awaiting' = awaiting \cup {[token |-> next_token, handle |-> h]}
                         /\ UNCHANGED <<client, loop>>
                      \/ /\ status # "deferred"
                         /\ queue_response(h, after, Answer(c, cn.next, status), Script[c][cn.next].keep)

-----------------------------------------------------------------------------
(* flush_and_settle and update_interest.                                   *)

(* A half-closed connection that only waits for its deferred response is   *)
(* taken off the loop (end of file is readable for ever), and put back     *)
(* when there is something to write.                                       *)
InterestNoReturn(cn) ==
    LET wants_write == cn.output # <<>>
    IN  IF cn.peer_closed /\ ~wants_write THEN [cn EXCEPT !.registered = FALSE]
        ELSE [cn EXCEPT !.reads = ~cn.peer_closed, !.writes = wants_write]

update_interest(cn) ==
    LET wants_write == cn.output # <<>>
    IN  IF cn.peer_closed /\ ~wants_write THEN [cn EXCEPT !.registered = FALSE]
        ELSE [cn EXCEPT !.registered = TRUE, !.reads = ~cn.peer_closed, !.writes = wants_write]

FlushStep ==
    LET h == loop.handle
        cn == connections[h]
        wire == client[cn.client].wire
        n == Min({Len(cn.output), SockRoom - Len(wire)})
        left == SubSeq(cn.output, n + 1, Len(cn.output))
        full == wire \o SubSeq(cn.output, 1, n)
        settled == /\ cn.close_after_flush \/ cn.peer_closed
                   /\ cn.awaiting = None /\ left = <<>>
    IN  /\ loop.at = "flush"
        /\ loop' = Idle
        /\ UNCHANGED <<next_token, asked>>
        /\ \/ /\ cn.output # <<>> /\ client[cn.client].rst
              /\ close_connection(h, "broken")
           \/ /\ cn.output = <<>> \/ ~client[cn.client].rst
              /\ connections' = [connections EXCEPT ![h] =
                   IF settled THEN Free ELSE update_interest([cn EXCEPT !.output = left])]
              /\ client' = [client EXCEPT ![cn.client].wire = full,
                                          ![cn.client].stage = IF settled THEN "closed" ELSE @,
                                          ![cn.client].ended = IF settled THEN "done" ELSE @]
              /\ UNCHANGED awaiting

(* complete: the answer to whoever is behind the token's descriptor.       *)
complete(token) ==
    LET h == (CHOOSE a \in awaiting : a.token = token).handle
        cn == connections[h]
    IN  /\ loop = Idle
        /\ \/ /\ \A a \in awaiting : a.token # token
              /\ UNCHANGED http
           \/ /\ \E a \in awaiting : a.token = token
              /\ connections[h].client = None
              /\ awaiting' = {a \in awaiting : a.token # token}
              /\ UNCHANGED <<client, connections, next_token, loop, asked>>
           \/ /\ \E a \in awaiting : a.token = token
              /\ connections[h].client # None
              /\ UNCHANGED <<next_token, asked>>
              /\ \/ /\ Len(cn.output) >= MaxOutput
                    /\ close_connection(h, "overflow")
                 \/ /\ Len(cn.output) < MaxOutput
                    /\ awaiting' = {a \in awaiting : a.token # token}
                    /\ connections' = [connections EXCEPT ![h] =
                         [cn EXCEPT !.awaiting = None,
                                    !.close_after_flush = @ \/ ~cn.awaiting_keep,
                                    !.output = Append(@, Answer(asked[token].client, asked[token].n, "200"))]]
                    /\ loop' = [at |-> "parse", handle |-> h]
                    /\ UNCHANGED client

(* sweep_deadlines: parse_timeout or idle_timeout has passed.              *)
Sweep(h) ==
    /\ loop = Idle /\ h \in Open
    /\ close_connection(h, "expired")
    /\ UNCHANGED <<next_token, asked>>
=============================================================================
