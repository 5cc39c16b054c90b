---------------------------- MODULE ChatService -----------------------------
(***************************************************************************)
(* The chat service: ChatChannels, single threaded, under ChatModule::tick.*)
(* A tick takes transport events, runs a round over the queued requests,   *)
(* and then sends replies before pushes.  One channel is modelled: the     *)
(* channels of a service share nothing but the queues.                     *)
(*                                                                         *)
(* A connection is a pair of FIFO streams; a closed end is an element of   *)
(* the stream behind everything sent before it.                            *)
(***************************************************************************)
EXTENDS Naturals, Sequences, SequencesExt, FiniteSets

CONSTANTS
    None,
    MaxPeers,        \* bound on the connections dialled
    MaxConnections,  \* chat_transport_connections_max
    MaxMembers,      \* the capacity of the channel
    MaxPushes,       \* pending_pushes
    PushesPerRound,  \* chat_pushes_per_round_max
    QueuedPerLink    \* queued_per_link

ASSUME ServiceAssumption ==
    /\ MaxPeers \in Nat \ {0} /\ MaxConnections \in Nat \ {0}
    /\ MaxMembers \in Nat \ {0} /\ MaxPushes \in Nat \ {0}
    /\ PushesPerRound \in Nat \ {0} /\ QueuedPerLink \in Nat \ {0}

VARIABLES
    chat,      \* ChatChannels and the tick, see NewService
    toChat,    \* what is under way to the service on a connection
    toRealm,   \* and back
    log        \* every message accepted: whose, and its channel_seq

Peers == 1..MaxPeers

(* inc is incarnation_; links holds, for an open connection, its link (its *)
(* generation, or 0 before HELLO), highest_generation and requests.        *)
NewService(inc) ==
    [inc |-> inc, links |-> [p \in Peers |-> None], linkGen |-> 0,
     members |-> {}, sequence |-> 0, replies |-> <<>>, pushes |-> <<>>,
     replaced |-> {}, helloDue |-> {}, phase |-> "events"]

InitService ==
    /\ chat = NewService(1)
    /\ toChat = [p \in Peers |-> <<>>] /\ toRealm = [p \in Peers |-> <<>>]
    /\ log = {}

Link(c, gen) == [inc |-> c.inc, gen |-> gen]

ClosedFrame == [kind |-> "closed"]

(* What chat_reply gives for request r, and for one that succeeded. *)
ChatReply(r, status) ==
    [kind |-> "reply", id |-> r.id, op |-> r.op, link |-> r.link,
     status |-> status, member |-> None, body |-> None]

OkReply(r, body) ==
    [ChatReply(r, "OK") EXCEPT !.member = r.member, !.body = body]

-----------------------------------------------------------------------------
(* What of a sequence is in a set. *)
SelectIn(seq, set) ==
    LET upTo[n \in 0..Len(seq)] ==
            IF n = 0 THEN <<>>
            ELSE IF seq[n] \in set THEN Append(upTo[n - 1], seq[n]) ELSE upTo[n - 1]
    IN  upTo[Len(seq)]

Without(seq, ps) == SelectIn(seq, {e \in ToSet(seq) : e.peer \notin ps})

(* closed: everything that connections ps have goes with them. *)
Closed(c, ps) ==
    [c EXCEPT !.links = [q \in Peers |-> IF q \in ps THEN None ELSE c.links[q]],
              !.replies = Without(c.replies, ps),
              !.pushes = Without(c.pushes, ps),
              !.members = {m \in c.members : m.peer \notin ps}]

(* The module's close: the transport, the channels and waiting_hello_. *)
ClosePeers(c, ps) == [Closed(c, ps) EXCEPT !.helloDue = @ \ ps]

-----------------------------------------------------------------------------
(* submit. *)
SameSend(r, q) == r.op = "SEND" /\ q.op = "SEND" /\ r.member.gen = q.member.gen

Submittable(c, p, r) ==
    /\ \A i \in DOMAIN c.links[p].requests : ~SameSend(c.links[p].requests[i], r)
    /\ ~\E i \in DOMAIN c.replies :
          /\ c.replies[i].peer = p /\ c.replies[i].frame.member # None
          /\ SameSend(c.replies[i].frame, r)
    /\ Len(c.links[p].requests) < QueuedPerLink

Enqueue(c, p, r) == [c EXCEPT !.links[p].requests = Append(@, r)]

-----------------------------------------------------------------------------
(* handle: the service after request r of connection p, the reply, and the *)
(* messages accepted.                                                      *)
Handled(c, reply) == [chat |-> c, reply |-> reply, logged |-> {}]

(* HELLO: the new link closes every connection that has one. *)
Hello(c, p, r) ==
    LET old == {q \in Peers \ {p} : c.links[q] # None /\ c.links[q].link # 0}
        fresh == Closed(c, old)
        gen == c.linkGen + 1
    IN  IF c.links[p].link # 0 THEN Handled(c, ChatReply(r, "INVALID"))
        ELSE Handled([fresh EXCEPT !.links[p].link = gen, !.linkGen = gen,
                                   !.replaced = @ \cup old],
                     [ChatReply(r, "OK") EXCEPT !.link = Link(c, gen)])

MemberOf(c, p, r) == {m \in c.members : m.peer = p /\ m.member = r.member}

Leave(c, p, r) ==
    Handled([c EXCEPT !.links[p].high = IF @ < r.member.gen THEN r.member.gen ELSE @,
                      !.members = @ \ MemberOf(c, p, r)],
            OkReply(r, None))

State(m) == [inc |-> m.inc, from |-> m.from]

(* insert_or_assign: a new membership replaces the character's old one. *)
Install(c, p, r) ==
    LET old == {m \in c.members : m.member.character = r.member.character}
        m == [peer |-> p, member |-> r.member, inc |-> c.inc, from |-> c.sequence,
              last |-> 0, text |-> None, receipt |-> 0]
    IN  IF r.member.gen <= c.links[p].high
          THEN Handled(c, ChatReply(r, "STALE_MEMBERSHIP"))
        ELSE IF old = {} /\ Cardinality(c.members) >= MaxMembers
          THEN Handled(c, ChatReply(r, "BUSY"))
        ELSE Handled([c EXCEPT !.links[p].high = r.member.gen,
                               !.members = (@ \ old) \cup {m}],
                     OkReply(r, State(m)))

(* A repeated JOIN is answered with the state of the first. *)
Join(c, p, r) ==
    IF MemberOf(c, p, r) # {}
      THEN Handled(c, OkReply(r, State(CHOOSE m \in MemberOf(c, p, r) : TRUE)))
      ELSE Install(c, p, r)

Result(outcome, receipt) == [outcome |-> outcome, receipt |-> receipt]

(* A push for every member, all or none.                                   *)
Reserved(c, seq) ==
    SetToSeq({[peer |-> m.peer,
               frame |-> [kind |-> "push", link |-> Link(c, c.links[m.peer].link),
                          member |-> m.member, inc |-> c.inc, seq |-> seq]]
              : m \in c.members})

Accept(c, m, r) ==
    LET seq == c.sequence + 1
        after == [m EXCEPT !.last = r.send.seq, !.text = r.send.text, !.receipt = seq]
    IN  [chat   |-> [c EXCEPT !.sequence = seq,
                              !.members = (@ \ {m}) \cup {after},
                              !.pushes = @ \o Reserved(c, seq)],
         reply  |-> OkReply(r, Result("ACCEPTED", seq)),
         logged |-> {[inc |-> c.inc, at |-> seq, gen |-> m.member.gen,
                      seq |-> r.send.seq, text |-> r.send.text]}]

(* Mutant of Send: the last sequence number may come again. *)
SendAgain(c, m, r, limited) ==
    IF r.send.inc # c.inc \/ r.send.seq \notin {m.last, m.last + 1} \/ limited
         \/ Len(c.pushes) + Cardinality(c.members) > MaxPushes
      THEN Handled(c, OkReply(r, Result("REJECTED", 0)))
      ELSE Accept(c, m, r)

(* send; limited: the token bucket of the member is empty. *)
Send(c, m, r, limited) ==
    IF r.send.inc = c.inc /\ r.send.seq = m.last /\ m.last # 0 /\ r.send.text = m.text
      THEN Handled(c, OkReply(r, Result("ACCEPTED", m.receipt)))
    ELSE IF r.send.inc # c.inc \/ r.send.seq # m.last + 1 \/ limited
         \/ Len(c.pushes) + Cardinality(c.members) > MaxPushes
      THEN Handled(c, OkReply(r, Result("REJECTED", 0)))
    ELSE Accept(c, m, r)

Handle(c, p, r, limited) ==
    LET same == MemberOf(c, p, r)
        m == CHOOSE x \in same : TRUE
    IN  CASE r.op = "HELLO" -> Hello(c, p, r)
          [] r.op # "HELLO" /\ (c.links[p].link = 0 \/ r.link # Link(c, c.links[p].link)) ->
               Handled(c, ChatReply(r, "STALE_LINK"))
          [] OTHER ->
               CASE r.op = "LEAVE" -> Leave(c, p, r)
                 [] r.op = "JOIN" -> Join(c, p, r)
                 [] r.op \in {"SEND", "STATE"} /\ same = {} ->
                      Handled(c, ChatReply(r, "STALE_MEMBERSHIP"))
                 [] r.op = "SEND" /\ same # {} -> Send(c, m, r, limited)
                 [] r.op = "STATE" /\ same # {} -> Handled(c, OkReply(r, State(m)))

-----------------------------------------------------------------------------
(* tick, the events: one of connection p. *)
CloseNow(p) ==
    /\ chat' = ClosePeers(chat, {p})
    /\ toRealm' = [toRealm EXCEPT ![p] = Append(@, ClosedFrame)]

OpenPeers == {p \in Peers : chat.links[p] # None}

ServiceEvent(p) ==
    /\ chat.phase = "events" /\ toChat[p] # <<>>
    /\ toChat' = [toChat EXCEPT ![p] = Tail(@)]
    /\ LET r == Head(toChat[p]) IN
       CASE r.kind = "open" ->
              IF Cardinality(OpenPeers \cup chat.replaced) >= MaxConnections THEN CloseNow(p)
              ELSE /\ chat' = [chat EXCEPT
                          !.links[p] = [link |-> 0, high |-> 0, requests |-> <<>>],
                          !.helloDue = @ \cup {p}]
                   /\ UNCHANGED toRealm
         [] r.kind = "closed" -> chat' = ClosePeers(chat, {p}) /\ UNCHANGED toRealm
         [] r.kind = "request" ->
              IF chat.links[p] = None THEN UNCHANGED <<chat, toRealm>>
              ELSE IF p \in chat.helloDue /\ r.op # "HELLO" THEN CloseNow(p)
              ELSE IF Submittable(chat, p, r)
                THEN chat' = Enqueue(chat, p, r) /\ UNCHANGED toRealm
              ELSE /\ toRealm' = [toRealm EXCEPT ![p] = Append(@, ChatReply(r, "BUSY"))]
                   /\ UNCHANGED chat
    /\ UNCHANGED log

(* A connection is closed by the service: HELLO is late, too many messages *)
(* arrive in a round, or its output is over the budget.                    *)
ServiceDrops(p) ==
    /\ chat.phase = "events" /\ chat.links[p] # None
    /\ CloseNow(p)
    /\ UNCHANGED <<toChat, log>>

(* run_round, one request: the first of a connection.  A membership has at *)
(* most one SEND queued, so a round serves it once.                        *)
RunRound(p, expired, limited) ==
    /\ chat.links[p] # None /\ chat.links[p].requests # <<>>
    /\ LET r == Head(chat.links[p].requests)
           c == [chat EXCEPT !.links[p].requests = Tail(@), !.phase = "round"]
           h == IF expired THEN Handled(c, ChatReply(r, "UNAVAILABLE"))
                ELSE Handle(c, p, r, limited)
       IN  /\ chat' = [h.chat EXCEPT !.replies = Append(@, [peer |-> p, frame |-> h.reply])]
           /\ log' = log \cup h.logged
    /\ UNCHANGED <<toChat, toRealm>>

(* drain_pushes: what is still for the member it was reserved for. *)
Drained(c) ==
    LET n == IF Len(c.pushes) < PushesPerRound THEN Len(c.pushes) ELSE PushesPerRound IN
    [ready |-> SelectIn(SubSeq(c.pushes, 1, n), {e \in ToSet(c.pushes) :
                 \E m \in c.members : m.peer = e.peer /\ m.member = e.frame.member}),
     rest  |-> SubSeq(c.pushes, n + 1, Len(c.pushes))]

Frames(seq, p) ==
    LET own == SelectIn(seq, {e \in ToSet(seq) : e.peer = p})
    IN  [i \in DOMAIN own |-> own[i].frame]

(* The end of the tick: replaced connections are closed, replies and then  *)
(* pushes sent.  A connection whose HELLO failed is closed.                *)
ServiceSend ==
    /\ (chat.phase = "round" \/ chat.pushes # <<>>)
    /\ \A p \in OpenPeers : chat.links[p].requests = <<>>
    /\ LET Failed(p) == \E i \in DOMAIN chat.replies :
             /\ chat.replies[i].peer = p
             /\ chat.replies[i].frame.op = "HELLO" /\ chat.replies[i].frame.status # "OK"
           failed == {p \in OpenPeers : Failed(p)}
           greeted == {p \in OpenPeers \ failed : chat.links[p].link # 0}
           c == ClosePeers(chat, failed)
           d == Drained(c)
           Out(p) == Frames(chat.replies, p) \o Frames(d.ready, p)
                       \o (IF p \in failed \cup chat.replaced THEN <<ClosedFrame>> ELSE <<>>)
       IN  /\ chat' = [c EXCEPT !.replies = <<>>, !.pushes = d.rest, !.replaced = {},
                                !.helloDue = @ \ (greeted \cup chat.replaced),
                                !.phase = "events"]
           /\ toRealm' = [p \in Peers |-> toRealm[p] \o Out(p)]
    /\ UNCHANGED <<toChat, log>>

(* The service is killed and comes back with a new incarnation. *)
ServiceCrash ==
    /\ chat' = NewService(chat.inc + 1)
    /\ toChat' = [p \in Peers |-> <<>>]
    /\ toRealm' = [p \in Peers |->
         IF chat.links[p] # None \/ toChat[p] # <<>>
           THEN Append(toRealm[p], ClosedFrame) ELSE toRealm[p]]
    /\ UNCHANGED log
=============================================================================
