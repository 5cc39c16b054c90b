----------------------------- MODULE RealmChat ------------------------------
(***************************************************************************)
(* The realm's side of chat: RealmChat on the frame thread, and the thread *)
(* of its chat_detail::Peer that owns the connection.  The two share the   *)
(* queue of calls, the completions, the pushes received and the revision,  *)
(* which moves whenever a connection is given up.                          *)
(*                                                                         *)
(* One Peer is modelled, and one slot of a session: its binding says which *)
(* channel membership the session is entitled to (0: none), as             *)
(* RealmScenes::chat_binding does for the scene slot; the binding of the   *)
(* realm slot never changes.                                               *)
(***************************************************************************)
EXTENDS ChatService

CONSTANTS
    MaxSessions,   \* bound on the connections of clients
    Characters,
    Texts,         \* what clients say
    MaxGeneration, \* chat_counter_max for owner.generation: bounds the joins
    MaxRequests,   \* bound on the requests of clients that are submitted
    MaxFaults,     \* bound on timeouts, refused dials, expired requests,
                   \* dropped connections, crashes and
                   \* changed bindings
    MaxTogether,   \* bound on clients, faults and twice the requests together
    CallCapacity,  \* of calls_
    JoinAttempts,  \* join_attempts
    MaxBuffered,   \* chat_client_notifications_max
    PushCapacity   \* chat_pending_pushes_max of the Peer

ASSUME RealmChatAssumption ==
    /\ {MaxSessions, MaxGeneration, CallCapacity, JoinAttempts, MaxBuffered, PushCapacity}
         \subseteq Nat \ {0}
    /\ MaxFaults \in Nat /\ MaxRequests \in Nat /\ MaxTogether \in Nat

(* Connection ids, in the order in which their characters are selected. *)
Sessions == 1..MaxSessions

(* Memberships, and what the two ends send each other. *)
MemberType == [character : Characters, session : Sessions, gen : Nat, epoch : Nat]

SendType == [seq : Nat, text : Texts, inc : Nat]

LinkType == [inc : Nat, gen : Nat \ {0}]

RequestType ==
    {r \in [kind : {"request"}, id : Nat, op : {"HELLO", "JOIN", "LEAVE", "SEND", "STATE"},
            link : LinkType \cup {None}, member : MemberType \cup {None},
            send : SendType \cup {None}] :
        /\ r.op # "HELLO" => r.link \in LinkType /\ r.member \in MemberType
        /\ r.op = "SEND" => r.send \in SendType}

PushType ==
    [kind : {"push"}, link : [inc : Nat, gen : Nat], member : MemberType, inc : Nat,
     seq : Nat]

(* What is kept: an open connection of the service, the slot of a session, *)
(* a session, and a call that waits for its result.                        *)
EndType == [link : Nat, high : Nat, requests : Seq(RequestType)]

SlotType ==
    [member : MemberType, active : BOOLEAN, retiring : BOOLEAN, inc : Nat, from : Nat,
     watermark : Nat, buffered : Seq(PushType)]

SessionType ==
    [character : Characters, alive : BOOLEAN, slot : SlotType \cup {None},
     attempts : Nat, desired : Nat]

CallType ==
    [op : {"JOIN", "LEAVE", "SEND", "STATE"}, member : MemberType,
     send : SendType \cup {None}, revision : Nat, result : {None}]

ASSUME NoneAssumption ==
    None \notin Nat \cup EndType \cup SlotType \cup SessionType \cup CallType

VARIABLES
    realm,     \* RealmChat, see InitRealm
    peer,      \* the Peer, see NewPeer
    binding,   \* the scene binding epoch of a session, 0 when it has none
    told,      \* the outcome told to the sender of each SEND submitted
    faults

-----------------------------------------------------------------------------
(* RealmChat.  sessions: None or the session; its slot is None or holds a  *)
(* membership.  pending: None, or the call of the session (slot.busy).     *)
(* calls is the queue to the Peer: the sessions whose call waits.          *)
InitRealm ==
    [sessions |-> [s \in Sessions |-> None],
     deferred |-> [s \in Sessions |-> None],
     pending |-> [s \in Sessions |-> None],
     calls |-> <<>>, generation |-> 0, revision |-> 0,
     frame |-> "events", requests |-> 0, opened |-> 0]

NewSession(c) ==
    [character |-> c, alive |-> TRUE, slot |-> None, attempts |-> JoinAttempts,
     desired |-> 0]

NewSlot(member) ==
    [member |-> member, active |-> FALSE, retiring |-> FALSE, inc |-> 0,
     from |-> 0, watermark |-> 0, buffered |-> <<>>]

NewPeer ==
    [stream |-> None, link |-> None, revision |-> 0, reset |-> FALSE,
     call |-> None, hello |-> FALSE, retried |-> FALSE, nextId |-> 1,
     dialled |-> 0, pushes |-> <<>>]

Slot(r, s) == r.sessions[s].slot

Busy(r, s) == r.pending[s] # None

Clear(r, s) == [r EXCEPT !.sessions[s].slot = None]

(* The client is notified once; late messages are dropped from now on. *)
Retire(r, s) ==
    IF Slot(r, s) = None THEN r
    ELSE [r EXCEPT !.sessions[s].slot =
            [@ EXCEPT !.active = FALSE, !.retiring = TRUE, !.buffered = <<>>]]

CanSubmit(r, s) == Slot(r, s) # None /\ ~Busy(r, s) /\ Len(r.calls) < CallCapacity

Submit(r, s, op, send) ==
    [r EXCEPT !.calls = Append(@, s),
              !.pending[s] = [op |-> op, member |-> Slot(r, s).member, send |-> send,
                              revision |-> peer.revision, result |-> None]]

(* reconcile; due: next_attempt of the slot has come. *)
Reconcile(r, s, due) ==
    LET session == r.sessions[s]
        epoch == binding[s]
        known == [r EXCEPT !.sessions[s].desired = epoch,
                           !.sessions[s].attempts =
                              IF session.desired = epoch THEN @ ELSE JoinAttempts]
        kept == IF session.slot # None
                     /\ (~session.alive \/ session.slot.member.epoch # epoch)
                  THEN Retire(known, s) ELSE known
        member == [character |-> session.character, session |-> s,
                   gen |-> r.generation + 1, epoch |-> epoch]
        joining == [kept EXCEPT !.generation = @ + 1,
                                !.sessions[s].attempts = @ - 1,
                                !.sessions[s].slot = NewSlot(member)]
    IN  IF /\ session.alive /\ session.slot = None /\ epoch # 0 /\ due
           /\ r.generation < MaxGeneration
           /\ kept.sessions[s].attempts > 0
          THEN IF CanSubmit(joining, s) THEN Submit(joining, s, "JOIN", None)
               ELSE Clear(joining, s)
          ELSE kept

(* selected, after closed(id): a session that the character still holds a  *)
(* membership in, and the limit on sessions, put the new one off.          *)
Selected(r, s, c) ==
    IF \E t \in Sessions : r.sessions[t] # None /\ r.sessions[t].character = c
      THEN [r EXCEPT !.deferred[s] = c]
      ELSE Reconcile([r EXCEPT !.sessions[s] = NewSession(c)], s, TRUE)

CloseSession(r, s) ==
    LET gone == [r EXCEPT !.deferred[s] = None] IN
    IF r.sessions[s] = None THEN gone
    ELSE Retire([gone EXCEPT !.sessions[s].alive = FALSE], s)

-----------------------------------------------------------------------------
(* finish. *)
Reply(s) == realm.pending[s].result.reply

(* What the sender of a SEND is told.  An outcome other than UNKNOWN that  *)
(* no result of the service states is REJECTED, UNAVAILABLE.               *)
Outcome(s) ==
    LET p == realm.pending[s] IN
    CASE Reply(s) # None /\ Reply(s).status = "OK" -> Reply(s).body.outcome
      [] Reply(s) = None /\ p.result.dispatched -> "UNKNOWN"
      [] OTHER -> "UNAVAILABLE"

Telling(s) ==
    LET p == realm.pending[s] IN
    IF p.op = "SEND" /\ realm.sessions[s].alive
      THEN {[gen |-> p.member.gen, seq |-> p.send.seq, text |-> p.send.text,
             inc |-> p.send.inc, outcome |-> Outcome(s),
             receipt |-> IF Outcome(s) = "ACCEPTED" THEN Reply(s).body.receipt ELSE 0]}
      ELSE {}

Current(s) ==
    /\ Slot(realm, s).member = realm.pending[s].member
    /\ realm.pending[s].revision = peer.revision

Succeeded(s) == Current(s) /\ Reply(s) # None /\ Reply(s).status = "OK"

(* Mutant of Finished: a failed call gives the membership up at once. *)
FinishedForgotten(s) ==
    LET p == realm.pending[s]
        r == [realm EXCEPT !.pending[s] = None]
    IN  IF ~Succeeded(s) \/ p.op = "LEAVE" THEN Clear(r, s)
        ELSE IF Slot(r, s).retiring \/ p.op # "JOIN" THEN r
        ELSE [r EXCEPT !.sessions[s].slot =
                [@ EXCEPT !.active = TRUE, !.inc = Reply(s).body.inc,
                          !.from = Reply(s).body.from, !.watermark = Reply(s).body.from]]

(* A membership is only forgotten when its LEAVE succeeded or the link it  *)
(* was on is gone; a call that failed otherwise retires it.                *)
Finished(s) ==
    LET p == realm.pending[s]
        r == [realm EXCEPT !.pending[s] = None]
        state == Reply(s).body
    IN  CASE ~Current(s) -> Clear(r, s)
          [] Current(s) /\ p.op = "LEAVE" -> IF Succeeded(s) THEN Clear(r, s) ELSE r
          [] Current(s) /\ p.op # "LEAVE" /\ ~Succeeded(s) -> Retire(r, s)
          [] Succeeded(s) /\ p.op # "LEAVE" ->
               IF Slot(r, s).retiring \/ ~r.sessions[s].alive \/ p.op = "SEND" THEN r
               ELSE IF p.op = "JOIN"
                 THEN [r EXCEPT !.sessions[s].slot =
                         [@ EXCEPT !.active = TRUE, !.inc = state.inc,
                                   !.from = state.from, !.watermark = state.from]]
               ELSE IF state = [inc |-> Slot(r, s).inc, from |-> Slot(r, s).from]
                 THEN [r EXCEPT !.sessions[s].slot.active = TRUE]
               ELSE Retire(r, s)

-----------------------------------------------------------------------------
(* complete, from the pushes on. *)

(* Mutant of Buffer: only a slot that has its JOIN reply buffers. *)
BufferActive(r, push) ==
    LET s == push.member.session IN
    IF r.sessions[s] = None \/ Slot(r, s) = None THEN r
    ELSE IF ~Slot(r, s).active \/ Slot(r, s).member # push.member THEN r
    ELSE [r EXCEPT !.sessions[s].slot.buffered = Append(@, push)]

(* A push is buffered when the membership it is for is still the slot's,   *)
(* also before the JOIN reply is seen.                                     *)
Buffer(r, push) ==
    LET s == push.member.session IN
    IF r.sessions[s] = None \/ Slot(r, s) = None THEN r
    ELSE IF ~r.sessions[s].alive \/ Slot(r, s).retiring \/ Slot(r, s).member # push.member
      THEN r
    ELSE IF \/ Slot(r, s).active /\ Slot(r, s).inc # push.inc
            \/ Len(Slot(r, s).buffered) >= MaxBuffered
      THEN Retire(r, s)
    ELSE [r EXCEPT !.sessions[s].slot.buffered = Append(@, push)]

(* An active slot passes its buffer on, in order; a gap retires it. *)
Deliver(r, s) ==
    LET slot == Slot(r, s)
        Take(x, push) ==
            IF push.seq <= x.watermark \/ ~x.whole THEN x
            ELSE IF push.inc # slot.inc \/ push.seq # x.watermark + 1
              THEN [x EXCEPT !.whole = FALSE]
            ELSE [x EXCEPT !.watermark = push.seq]
        upTo[n \in 0..Len(slot.buffered)] ==
            IF n = 0 THEN [watermark |-> slot.watermark, whole |-> TRUE]
            ELSE Take(upTo[n - 1], slot.buffered[n])
        end == upTo[Len(slot.buffered)]
        passed == [r EXCEPT !.sessions[s].slot =
                     [@ EXCEPT !.watermark = end.watermark, !.buffered = <<>>]]
    IN  IF slot = None THEN r
        ELSE IF ~slot.active \/ ~r.sessions[s].alive THEN r
        ELSE IF end.whole THEN passed ELSE Retire(passed, s)

(* A retired membership is ended with LEAVE, or with its link. *)
Settle(r, s, due) ==
    LET d == Deliver(r, s)
        left == IF Slot(d, s) = None THEN d
                ELSE IF ~Slot(d, s).retiring \/ Busy(d, s) THEN d
                ELSE IF d.revision # peer.revision THEN Clear(d, s)
                ELSE IF due /\ CanSubmit(d, s) THEN Submit(d, s, "LEAVE", None)
                ELSE d
    IN  IF ~left.sessions[s].alive /\ Slot(left, s) = None
          THEN [left EXCEPT !.sessions[s] = None]
          ELSE Reconcile(left, s, due)

(* Each push in turn. *)
Buffered(r, pushes) ==
    LET upTo[n \in 0..Len(pushes)] ==
            IF n = 0 THEN r ELSE Buffer(upTo[n - 1], pushes[n])
    IN  upTo[Len(pushes)]

(* Each session of the set in turn. *)
ForEach(r, set, Op(_, _)) ==
    LET upTo[s \in 0..MaxSessions] ==
            IF s = 0 THEN r
            ELSE IF s \in set THEN Op(upTo[s - 1], s) ELSE upTo[s - 1]
    IN  upTo[MaxSessions]

Known(r) == {s \in Sessions : r.sessions[s] # None}

-----------------------------------------------------------------------------
(* The frame thread. *)
others == <<peer, toChat, toRealm, chat, log>>

AtEvents == realm.frame = "events"

(* Whether w more fits into MaxTogether. *)
Room(w) == realm.opened + 2 * realm.requests + faults + w <= MaxTogether

Select(s, c) ==
    /\ AtEvents /\ s = realm.opened + 1 /\ Room(1)
    /\ realm' = Selected([realm EXCEPT !.opened = s], s, c)
    /\ UNCHANGED <<others, binding, told, faults>>

Close(s) ==
    /\ AtEvents
    /\ realm.deferred[s] # None \/ (s \in Known(realm) /\ realm.sessions[s].alive)
    /\ realm' = CloseSession(realm, s)
    /\ UNCHANGED <<others, binding, told, faults>>

(* handle: a send or a query of the client that names the membership it    *)
(* has.  One that names another is refused and changes nothing; so is one  *)
(* over the rate of the character.                                         *)
Request(s, op, send) ==
    /\ AtEvents /\ s \in Known(realm) /\ realm.sessions[s].alive
    /\ realm.requests < MaxRequests /\ Room(2)
    /\ \E due \in BOOLEAN :
         LET fresh == IF op = "STATE" /\ Slot(realm, s) = None
                        THEN [realm EXCEPT !.sessions[s].attempts = JoinAttempts] ELSE realm
             r == Reconcile(fresh, s, due)
         IN  realm' = IF Slot(r, s) = None THEN r
                      ELSE IF Slot(r, s).active /\ CanSubmit(r, s)
                             /\ (op = "SEND" => send.inc = Slot(r, s).inc)
                        THEN [Submit(r, s, op, send) EXCEPT !.requests = @ + 1]
                      ELSE r
    /\ UNCHANGED <<others, binding, told, faults>>

(* A frame has something to do; one that does not changes nothing. *)
Outstanding ==
    \/ peer.pushes # <<>> \/ realm.revision # peer.revision
    \/ \E s \in Sessions :
         \/ realm.deferred[s] # None
         \/ realm.pending[s] # None /\ realm.pending[s].result # None
    \/ \E s \in Known(realm) : ~Busy(realm, s) /\
         IF Slot(realm, s) = None
           THEN ~realm.sessions[s].alive \/ binding[s] # realm.sessions[s].desired
                  \/ (realm.sessions[s].attempts > 0 /\ realm.generation < MaxGeneration)
           ELSE Slot(realm, s).retiring \/ Slot(realm, s).member.epoch # binding[s]

(* What a moved revision ends. *)
Ended(r, s) == IF Busy(r, s) THEN Retire(r, s) ELSE Clear(r, s)

Moved(r) ==
    IF r.revision = peer.revision THEN r
    ELSE ForEach([r EXCEPT !.revision = peer.revision],
                 {s \in Known(r) : Slot(r, s) # None}, Ended)

Again(r, s) == Reconcile(r, s, FALSE)

(* complete: what has ended, then reconcile. *)
CompleteStart ==
    /\ AtEvents /\ Outstanding
    /\ realm' = [ForEach(Moved(realm), Known(Moved(realm)), Again) EXCEPT !.frame = "finish"]
    /\ UNCHANGED <<others, binding, told, faults>>

(* One completion.  A LEAVE that failed makes the Peer reconnect. *)
CompleteFinish(s) ==
    /\ realm.frame = "finish" /\ realm.pending[s] # None
    /\ realm.pending[s].result # None
    /\ realm' = Finished(s)
    /\ told' = told \cup Telling(s)
    /\ peer' = [peer EXCEPT !.reset =
         @ \/ (Current(s) /\ realm.pending[s].op = "LEAVE" /\ ~Succeeded(s))]
    /\ UNCHANGED <<toChat, toRealm, chat, log, binding, faults>>

(* A session that was put off is selected, or put off again. *)
SelectDeferred(r, s) == Selected([r EXCEPT !.deferred[s] = None], s, r.deferred[s])

(* Pushes, deliveries, memberships to end, and the sessions put off. *)
CompleteEnd ==
    /\ realm.frame = "finish"
    /\ \E due \in SUBSET Known(realm) :
         LET One(r, s) == Settle(r, s, s \in due)
             settled == ForEach(Buffered(realm, peer.pushes), Known(realm), One)
             waiting == {s \in Sessions : settled.deferred[s] # None}
         IN  realm' = [ForEach(settled, waiting, SelectDeferred) EXCEPT !.frame = "events"]
    /\ peer' = [peer EXCEPT !.pushes = <<>>]
    /\ UNCHANGED <<toChat, toRealm, chat, log, binding, told, faults>>

-----------------------------------------------------------------------------
(* The thread of the Peer.  calls is the frame's end of the queue. *)

(* disconnect. *)
Disconnected ==
    [peer EXCEPT !.stream = None, !.link = None, !.revision = @ + 1, !.pushes = <<>>,
                 !.call = None, !.hello = FALSE]

Hangup ==
    toChat' = IF peer.stream = None THEN toChat
              ELSE [toChat EXCEPT ![peer.stream] = Append(@, ClosedFrame)]

Completed(s, reply, dispatched) ==
    realm' = [realm EXCEPT !.pending[s].result = [reply |-> reply, dispatched |-> dispatched]]

Frame(op, member, send) ==
    [kind |-> "request", id |-> peer.nextId, op |-> op, link |-> peer.link,
     member |-> member, send |-> send]

Write(p, frame) == toChat' = [toChat EXCEPT ![p] = Append(@, frame)]

(* The call is given up, the connection with it. *)
GiveUp(dispatched) ==
    /\ Completed(peer.call, None, dispatched)
    /\ peer' = Disconnected /\ Hangup
    /\ UNCHANGED <<toRealm, chat, log, binding, told>>

PeerReset ==
    /\ peer.reset /\ peer.call = None
    /\ peer' = [Disconnected EXCEPT !.reset = FALSE] /\ Hangup
    /\ UNCHANGED <<realm, toRealm, chat, log, binding, told, faults>>

(* A call of an older revision is not made, nor one that is late. *)
PeerSkip(late) ==
    /\ ~peer.reset /\ peer.call = None /\ realm.calls # <<>>
    /\ LET s == Head(realm.calls) IN
       /\ late \/ realm.pending[s].revision # peer.revision
       /\ realm' = [realm EXCEPT !.calls = Tail(@),
              !.pending[s].result = [reply |-> None, dispatched |-> FALSE]]
    /\ UNCHANGED <<others, binding, told>>

(* The call is made on the connection; only JOIN dials a new one. *)
PeerCall(dials) ==
    /\ ~peer.reset /\ peer.call = None /\ realm.calls # <<>>
    /\ LET s == Head(realm.calls)
           p == realm.pending[s]
           rest == [realm EXCEPT !.calls = Tail(@)]
           failed == [rest EXCEPT !.pending[s].result = [reply |-> None, dispatched |-> FALSE]]
           dialled == peer.dialled + 1
       IN
       /\ p.revision = peer.revision
       /\ CASE peer.stream # None ->
                 /\ Write(peer.stream, Frame(p.op, p.member, p.send))
                 /\ peer' = [peer EXCEPT !.call = s, !.nextId = @ + 1, !.retried = FALSE]
                 /\ realm' = rest
            [] peer.stream = None /\ p.op = "JOIN" /\ dials ->
                 /\ dialled \in Peers
                 /\ toChat' = [toChat EXCEPT ![dialled] =
                      <<[kind |-> "open"], Frame("HELLO", None, None)>>]
                 /\ peer' = [peer EXCEPT !.call = s, !.hello = TRUE, !.retried = TRUE,
                                         !.stream = dialled, !.dialled = dialled,
                                         !.nextId = @ + 1]
                 /\ realm' = rest
            [] OTHER ->   \* no connection, or it could not be made
                 /\ realm' = failed /\ peer' = Disconnected
                 /\ UNCHANGED toChat
    /\ UNCHANGED <<toRealm, chat, log, binding, told>>

(* Half of the time has passed: the same frame once more. *)
PeerRetry ==
    /\ peer.call # None /\ ~peer.retried
    /\ LET p == realm.pending[peer.call] IN
       Write(peer.stream, [Frame(p.op, p.member, p.send) EXCEPT !.id = peer.nextId - 1])
    /\ peer' = [peer EXCEPT !.retried = TRUE]
    /\ UNCHANGED <<realm, toRealm, chat, log, binding, told>>

(* The deadline has passed, or the connection failed to write. *)
PeerTimeout ==
    /\ peer.call # None
    /\ GiveUp(~peer.hello)

Taken == toRealm' = [toRealm EXCEPT ![peer.stream] = Tail(@)]

Pushed(frame) == [peer EXCEPT !.pushes = Append(@, frame)]

PushTaken(frame) == frame.link = peer.link /\ Len(peer.pushes) < PushCapacity

(* receive during a call. *)
PeerReceive ==
    /\ peer.call # None /\ toRealm[peer.stream] # <<>>
    /\ LET f == Head(toRealm[peer.stream])
           s == peer.call
           p == realm.pending[s]
           op == IF peer.hello THEN "HELLO" ELSE p.op
           id == peer.nextId - 1
           old == f.kind = "reply" /\ f.id < id /\ f.link = peer.link
           answer == /\ f.kind = "reply" /\ ~old /\ f.id = id /\ f.op = op
                     /\ (~peer.hello => f.link = peer.link)
                     /\ (f.status = "OK" /\ ~peer.hello => f.member = p.member)
       IN
       CASE f.kind = "push" /\ PushTaken(f) ->
              Taken /\ peer' = Pushed(f) /\ UNCHANGED <<realm, toChat>>
         [] old -> Taken /\ UNCHANGED <<peer, realm, toChat>>
         [] answer /\ peer.hello /\ f.status = "OK" ->
              /\ Taken
              /\ Write(peer.stream, [Frame(p.op, p.member, p.send) EXCEPT !.link = f.link])
              /\ peer' = [peer EXCEPT !.link = f.link, !.hello = FALSE, !.retried = FALSE,
                                      !.nextId = @ + 1]
              /\ UNCHANGED realm
         [] answer /\ ~peer.hello ->
              /\ Taken /\ Completed(s, f, TRUE)
              /\ peer' = [peer EXCEPT !.call = None]
              /\ UNCHANGED toChat
         [] OTHER ->   \* closed, over the capacity, or out of the protocol
              /\ Completed(s, None, ~peer.hello)
              /\ peer' = Disconnected /\ Hangup
              /\ UNCHANGED toRealm
    /\ UNCHANGED <<chat, log, binding, told, faults>>

(* receive between calls. *)
PeerIdle ==
    /\ ~peer.reset /\ peer.call = None /\ realm.calls = <<>>
    /\ peer.stream # None /\ toRealm[peer.stream] # <<>>
    /\ LET f == Head(toRealm[peer.stream]) IN
       CASE f.kind = "push" /\ PushTaken(f) ->
              Taken /\ peer' = Pushed(f) /\ UNCHANGED toChat
         [] f.kind = "reply" /\ f.link = peer.link /\ f.id < peer.nextId ->
              Taken /\ UNCHANGED <<peer, toChat>>
         [] OTHER -> peer' = Disconnected /\ Hangup /\ UNCHANGED toRealm
    /\ UNCHANGED <<realm, chat, log, binding, told, faults>>

-----------------------------------------------------------------------------
(* The whole. *)
realmSide == <<realm, peer, binding, told>>
vars == <<chat, toChat, toRealm, log, realmSide, faults>>

Init ==
    /\ InitService
    /\ realm = InitRealm /\ peer = NewPeer
    /\ binding \in [Sessions -> {1}]
    /\ told = {} /\ faults = 0

(* The scene service binds the session anew, or ends its binding. *)
Rebind(s) ==
    /\ AtEvents /\ s \in Known(realm)
    /\ binding' = [binding EXCEPT ![s] = IF @ = 0 THEN 2 ELSE 0]
    /\ UNCHANGED <<realm, others, told>>

RealmFault ==
    \/ PeerTimeout
    \/ PeerRetry
    \/ PeerSkip(TRUE)
    \/ PeerCall(FALSE)
    \/ \E s \in Sessions : Rebind(s)

ServiceFault ==
    \/ \E p \in Peers :
         \/ ServiceDrops(p)
         \/ RunRound(p, TRUE, FALSE)
         \/ RunRound(p, FALSE, TRUE)
    \/ ServiceCrash

FrameStep ==
    \/ \E s \in Sessions :
         \/ \E c \in Characters : Select(s, c)
         \/ Close(s)
         \/ CompleteFinish(s)
         \/ Request(s, "STATE", None)
         \/ \E q \in 1..(realm.requests + 1), x \in Texts, i \in 1..(MaxFaults + 1) :
              Request(s, "SEND", [seq |-> q, text |-> x, inc |-> i])
    \/ CompleteStart
    \/ CompleteEnd

PeerStep == PeerReset \/ PeerReceive \/ PeerIdle

ServiceStep ==
    \/ \E p \in Peers : ServiceEvent(p) \/ RunRound(p, FALSE, FALSE)
    \/ ServiceSend

Next ==
    \/ FrameStep
    \/ PeerStep
    \/ (PeerSkip(FALSE) \/ PeerCall(TRUE)) /\ UNCHANGED faults
    \/ ServiceStep /\ UNCHANGED <<realmSide, faults>>
    \/ /\ faults < MaxFaults /\ Room(1) /\ faults' = faults + 1
       /\ RealmFault
    \/ /\ faults < MaxFaults /\ Room(1) /\ faults' = faults + 1
       /\ ServiceFault /\ UNCHANGED realmSide

Spec == Init /\ [][Next]_vars

-----------------------------------------------------------------------------
(* The two ends agree on the link, and nothing that ends it is under way.  *)
Linked ==
    /\ peer.link # None
    /\ chat.links[peer.stream] # None
    /\ peer.link = Link(chat, chat.links[peer.stream].link)
    /\ \A i \in DOMAIN toRealm[peer.stream] : toRealm[peer.stream][i] # ClosedFrame

(* No member that is active, and was not told of a gap, misses a message:  *)
(* what is on the way to it is exactly what the channel accepted after the *)
(* last message it was given, in order, from the watermark it joined at.   *)
(* Retried JOINs, rounds cut short and pushes that race the JOIN reply     *)
(* leave no hole.                                                          *)
NothingMissed ==
    \A s \in Known(realm) :
        LET slot == Slot(realm, s)
            Own(seq) == SelectSeq(seq, LAMBDA f :
                f.kind = "push" /\ f.member = slot.member /\ f.seq > slot.watermark)
            way == Own(slot.buffered \o peer.pushes \o toRealm[peer.stream]
                         \o [i \in DOMAIN chat.pushes |-> chat.pushes[i].frame])
        IN  /\ slot # None /\ Linked /\ realm.revision = peer.revision
            /\ slot.active /\ realm.pending[s] = None
            => /\ Len(way) = chat.sequence - slot.watermark
               /\ \A i \in DOMAIN way : way[i].seq = slot.watermark + i

(* A send is accepted at most once, however often its frame was sent, and  *)
(* a client that is told ACCEPTED holds the receipt of its own message.    *)
AcceptedOnce ==
    /\ \A e, f \in log : e.gen = f.gen /\ e.seq = f.seq => e = f
    /\ \A t \in told : t.outcome = "ACCEPTED" =>
          [inc |-> t.inc, at |-> t.receipt, gen |-> t.gen, seq |-> t.seq,
           text |-> t.text] \in log

(* The realm keeps a membership until the service has ended it: every      *)
(* member the service has on the common link is the slot of a session,     *)
(* whatever timed out, so none receives messages that nobody will end.     *)
NoOrphanMember ==
    Linked => \A m \in chat.members :
        m.peer = peer.stream =>
            /\ m.member.session \in Known(realm)
            /\ Slot(realm, m.member.session) # None
            /\ Slot(realm, m.member.session).member = m.member

(* REJECTED says that the message was surely not accepted (section on      *)
(* receipts of the chat specification).  The code does not keep this: of a *)
(* frame that Peer::exchange sends twice, submit refuses the second copy   *)
(* while the first is in flight, and finish passes that answer on.         *)
RejectedNotAccepted ==
    \A t \in told : t.outcome = "UNAVAILABLE" =>
        ~\E e \in log : e.gen = t.gen /\ e.seq = t.seq /\ e.text = t.text
=============================================================================
