---------------------------- MODULE RealmClient ----------------------------
(***************************************************************************)
(* WireRealmSession: the client's end of a realm connection, after login.  *)
(* One thread calls, and waits for the answer or for a notice until its    *)
(* deadline; answers that come too late, and pushes, are in between.       *)
(*                                                                         *)
(* The realm and the chat service are reduced to one slot: what the client *)
(* asks of it, what it is answered and what is pushed (module RealmChat    *)
(* has them whole).  One of the two chat channels is modelled: they share  *)
(* nothing but the budget.                                                 *)
(***************************************************************************)
EXTENDS Naturals, SequencesExt

CONSTANTS
    Nobody,          \* no membership, no call
    MaxGenerations,  \* memberships
    MaxSeq,          \* channel messages
    MaxCalls,        \* calls of the application
    MaxNotices,      \* chat_client_notifications_max
    MaxStream,       \* frames under way
    MaxMissing       \* pushes that do not arrive

(* Nobody is neither a membership, nor its generation, nor a send or call. *)
Memberships == [gen : Nat, wm : Nat]
Sends == [gen : Nat, seq : Nat]
Calls == [kind : {"state", "send", "ask"}, id : Nat, send : Sends \cup {Nobody}]
ASSUME NobodyAssumption == Nobody \notin Nat \cup Memberships \cup Sends \cup Calls

VARIABLES
    stream,     \* frames to the client
    requests,   \* frames to the realm
    member,     \* the membership: generation and join watermark, or Nobody
    marks,      \* the join watermark of each membership so far
    seq,        \* of the last channel message
    pending,    \* the request whose send is submitted (slot.busy), if any
    taken,      \* last_client_send_seq of the membership
    missing,
    chat,       \* the session: stream, states, watermark, buffer, notices
    call,       \* the call that waits, or Nobody
    nextId,     \* next_request_id_
    sent,       \* the last send: its membership_generation and client_send_seq
    unknown,    \* chat_unknown_: a send, or Nobody
    said,       \* what send_chat returned last, or Nobody
    heard,      \* what the application was given last
    skipped     \* whether it was given a message that does not follow

server == <<member, marks, seq, pending, taken, missing>>
caller == <<call, nextId, sent, unknown, said>>
app == <<heard, skipped>>
sessionVars == <<stream, requests, server, chat, caller, app>>

(* A session after close(); state is chat_states_: the generation of the   *)
(* active membership, or Nobody.                                           *)
Shut == [open |-> FALSE, state |-> Nobody, watermark |-> 0,
         buffered |-> <<>>, notices |-> <<>>]

InitSession ==
    /\ stream = <<>> /\ requests = <<>>
    /\ member = Nobody /\ marks = <<>> /\ seq = 0 /\ pending = {} /\ taken = 0
    /\ missing = 0
    /\ chat = [Shut EXCEPT !.open = TRUE]
    /\ call = Nobody /\ nextId = 1
    /\ sent = Nobody /\ unknown = Nobody /\ said = Nobody
    /\ heard = [gen |-> 0, seq |-> 0] /\ skipped = FALSE

-----------------------------------------------------------------------------
(* The realm. *)
Room == chat.open /\ Len(stream) < MaxStream

Push(frames) == stream' = stream \o frames
Message(n) == [kind |-> "message", gen |-> member.gen, seq |-> n]
Sent(id, outcome) == [kind |-> "sent", id |-> id, outcome |-> outcome]

(* JOIN succeeds; the slot is free, so it is not busy either. *)
Join ==
    /\ Room /\ member = Nobody /\ pending = {} /\ Len(marks) < MaxGenerations
    /\ marks' = Append(marks, seq)
    /\ member' = [gen |-> Len(marks) + 1, wm |-> seq]
    /\ taken' = 0
    /\ UNCHANGED <<stream, requests, seq, pending, missing, chat, caller, app>>

(* The membership ends, be a send pending or not.  retire tells the client; *)
(* finish, which finds that the revision has moved, does not.               *)
Leave ==
    /\ Room /\ member # Nobody
    /\ member' = Nobody
    /\ Push(<<[kind |-> "unavailable"]>>) \/ UNCHANGED stream
    /\ UNCHANGED <<requests, marks, seq, pending, taken, missing, chat, caller, app>>

(* Another member speaks; a push may be missing for a member. *)
Broadcast ==
    /\ Room /\ seq < MaxSeq
    /\ seq' = seq + 1
    /\ \/ member # Nobody /\ Push(<<Message(seq + 1)>>) /\ UNCHANGED missing
       \/ member # Nobody /\ missing < MaxMissing /\ missing' = missing + 1 /\ UNCHANGED stream
       \/ member = Nobody /\ UNCHANGED <<stream, missing>>
    /\ UNCHANGED <<requests, member, marks, pending, taken, chat, caller, app>>

Displace ==
    /\ Room
    /\ Push(<<[kind |-> "displaced"]>>)
    /\ UNCHANGED <<requests, server, chat, caller, app>>

(* A send of another membership, one that meets a call of the slot, one    *)
(* over the rate or the limits of a queue is rejected, also if an earlier  *)
(* copy of it was accepted or will be.  Otherwise it is submitted.         *)
ServeSend(r) ==
    \/ Push(<<Sent(r.id, "rejected")>>) /\ UNCHANGED pending
    \/ /\ member # Nobody /\ r.send.gen = member.gen /\ pending = {}
       /\ pending' = {r} /\ UNCHANGED stream

(* A query is answered with the membership, or that it is unavailable: the *)
(* slot is not active, or busy.                                            *)
ServeState(r) ==
    \E known \in {member, Nobody} : Push(<<[kind |-> "state", id |-> r.id, member |-> known]>>)

Serve ==
    /\ Room /\ requests # <<>>
    /\ LET r == Head(requests) IN
       \/ r.kind = "state" /\ ServeState(r) /\ UNCHANGED pending
       \/ r.kind = "send" /\ ServeSend(r)
       \/ r.kind = "ask" /\ Push(<<[kind |-> "ask", id |-> r.id]>>) /\ UNCHANGED pending
    /\ requests' = Tail(requests)
    /\ UNCHANGED <<member, marks, seq, taken, missing, chat, caller, app>>

(* What the channel makes of the send of a member: the next one is a       *)
(* message of the channel, unless the member is over its rate; the last    *)
(* one again has its receipt; any other is rejected.                       *)
Receipt(r) ==
    \/ /\ r.send.seq = taken + 1 /\ seq < MaxSeq
       /\ taken' = r.send.seq /\ seq' = seq + 1
       /\ Push(<<Sent(r.id, "accepted"), Message(seq + 1)>>)
    \/ /\ r.send.seq = taken
       /\ Push(<<Sent(r.id, "accepted")>>) /\ UNCHANGED <<taken, seq>>
    \/ /\ r.send.seq # taken
       /\ Push(<<Sent(r.id, "rejected")>>) /\ UNCHANGED <<taken, seq>>

(* No result of the channel: a copy that meets the first one there, a call *)
(* that was late or whose connection was given up.  The send may have been *)
(* taken; the membership ends, and any receipt is passed on after its end. *)
NoReceipt(r) ==
    /\ \/ /\ member # Nobody
          /\ Push(<<Sent(r.id, "rejected"), [kind |-> "unavailable"]>>)
       \/ /\ member = Nobody
          /\ \E outcome \in {"accepted", "rejected", "unknown"} : Push(<<Sent(r.id, outcome)>>)
    /\ \/ UNCHANGED seq
       \/ r.send.seq = taken + 1 /\ seq < MaxSeq /\ seq' = seq + 1
    /\ UNCHANGED taken

(* finish. *)
Finish ==
    /\ Room
    /\ \E r \in pending :
         \/ member # Nobody /\ Receipt(r) /\ UNCHANGED member
         \/ NoReceipt(r) /\ member' = Nobody
    /\ pending' = {}
    /\ UNCHANGED <<requests, marks, missing, chat, caller, app>>

-----------------------------------------------------------------------------
(* The session.  chat_budget_allows: one that overflows is closed. *)
Budget(c) == Len(c.notices) + Len(c.buffered) < MaxNotices

QueueChat(c, notice) ==
    IF Budget(c) THEN [c EXCEPT !.notices = Append(@, notice)] ELSE Shut

Discard(c) == [c EXCEPT !.state = Nobody, !.buffered = <<>>, !.notices = <<>>]

Unavailable(c) == QueueChat(Discard(c), [kind |-> "unavailable"])

(* Mutant of ChatMessage: whatever is newer is given. *)
ChatMessageNewer(c, m) ==
    IF ~c.open THEN c
    ELSE IF c.state = Nobody
      THEN IF Budget(c) THEN [c EXCEPT !.buffered = Append(@, m)] ELSE Shut
    ELSE IF m.gen # c.state \/ m.seq <= c.watermark THEN c
    ELSE QueueChat([c EXCEPT !.watermark = m.seq], m)

(* chat_message: a message is buffered until the membership is known;      *)
(* then it is given if it follows, and a gap ends the membership.          *)
ChatMessage(c, m) ==
    IF ~c.open THEN c
    ELSE IF c.state = Nobody
      THEN IF Budget(c) THEN [c EXCEPT !.buffered = Append(@, m)] ELSE Shut
    ELSE IF m.gen # c.state \/ m.seq <= c.watermark THEN c
    ELSE IF m.seq # c.watermark + 1 THEN Unavailable(c)
    ELSE QueueChat([c EXCEPT !.watermark = m.seq], m)

(* The notices that a membership keeps: no messages of another one.        *)
Qualified(notices, gen) ==
    LET kept[i \in 0..Len(notices)] ==
          IF i = 0 THEN <<>>
          ELSE IF notices[i].kind # "message" \/ notices[i].gen = gen
            THEN Append(kept[i - 1], notices[i])
          ELSE kept[i - 1]
    IN  kept[Len(notices)]

(* The messages that waited, one after the other. *)
Replay(c, waiting) ==
    LET after[i \in 0..Len(waiting)] ==
          IF i = 0 THEN c ELSE ChatMessage(after[i - 1], waiting[i])
    IN  after[Len(waiting)]

(* apply_chat_state: what was buffered is filtered by the new membership.  *)
ApplyChatState(c, m) ==
    IF m = Nobody THEN c
    ELSE Replay([c EXCEPT !.state = m.gen, !.buffered = <<>>,
                          !.watermark = IF c.state = m.gen THEN @ ELSE m.wm,
                          !.notices = Qualified(@, m.gen)],
                c.buffered)

(* notice: what a frame that nobody asked for does. *)
Notices == {"message", "unavailable", "displaced"}

Notice(c, f) ==
    CASE f.kind = "message" -> ChatMessage(c, f)
      [] f.kind = "unavailable" -> Unavailable(c)
      [] f.kind = "displaced" -> Shut

(* The stream of a session that was closed is gone with all in it. *)
Settle(c) ==
    /\ chat' = c
    /\ IF c.open THEN UNCHANGED <<requests, server>>
       ELSE requests' = <<>> /\ pending' = {} /\ member' = Nobody
            /\ UNCHANGED <<marks, seq, taken, missing>>

(* call: a request is sent; then the frames until its answer, or the       *)
(* deadline.                                                               *)
Call(kind, send) ==
    /\ chat.open /\ call = Nobody /\ nextId <= MaxCalls
    /\ call' = [kind |-> kind, id |-> nextId, send |-> send]
    /\ requests' = Append(requests, call')
    /\ nextId' = nextId + 1
    /\ UNCHANGED <<stream, server, chat, unknown, app>>

GetChatState == Call("state", Nobody) /\ UNCHANGED <<sent, said>>

(* The next send of the membership that the application knows, or the last *)
(* send again.                                                             *)
Following(gen) ==
    [gen |-> gen,
     seq |-> IF sent = Nobody THEN 1 ELSE IF sent.gen = gen THEN sent.seq + 1 ELSE 1]

SendChat ==
    \E s \in ({sent} \cup (IF chat.state = Nobody THEN {} ELSE {Following(chat.state)})) \ {Nobody} :
        Call("send", s) /\ sent' = s /\ UNCHANGED said

(* Roster, characters, training: the answer changes nothing in the session. *)
Ask == Call("ask", Nobody) /\ UNCHANGED <<sent, said>>

(* send_chat: a send whose outcome was unknown once is not rejected.       *)
Told(f) ==
    IF unknown = call.send /\ f.outcome = "rejected" THEN "unknown" ELSE f.outcome

Returned(outcome) == said' = [send |-> call.send, outcome |-> outcome]

Answered(f) ==
    /\ call' = Nobody
    /\ IF call.kind = "state" THEN Settle(ApplyChatState(chat, f.member))
                              ELSE UNCHANGED <<chat, requests, server>>
    /\ IF call.kind = "send"
         THEN /\ unknown' = CASE f.outcome = "unknown" -> call.send
                              [] f.outcome = "accepted" /\ unknown = call.send -> Nobody
                              [] OTHER -> unknown
              /\ Returned(Told(f))
         ELSE UNCHANGED <<unknown, said>>
    /\ UNCHANGED <<nextId, sent>>

(* Disconnected: the deadline, or a session that was closed meanwhile. *)
GivenUp ==
    /\ call' = Nobody
    /\ IF call.kind = "send" THEN unknown' = call.send /\ Returned("unknown")
                             ELSE UNCHANGED <<unknown, said>>
    /\ UNCHANGED <<nextId, sent>>

(* Displaced is returned, and no outcome. *)
Refused == call' = Nobody /\ UNCHANGED <<nextId, sent, unknown, said>>

Mine(f) == IF call = Nobody THEN FALSE ELSE f.id = call.id

(* receive_frame, in a call or in poll_chat: an answer to no call is       *)
(* dropped.                                                                *)
Receive ==
    /\ chat.open /\ stream # <<>>
    /\ call = Nobody => chat.notices = <<>>
    /\ LET f == Head(stream) IN
       IF f.kind \in Notices
         THEN /\ Settle(Notice(chat, f))
              /\ CASE chat'.open \/ call = Nobody -> UNCHANGED caller
                   [] ~chat'.open /\ call # Nobody -> IF f.kind = "displaced" THEN Refused ELSE GivenUp
       ELSE IF Mine(f) THEN Answered(f)
       ELSE UNCHANGED <<caller, chat, requests, server>>
    /\ stream' = IF chat'.open THEN Tail(stream) ELSE <<>>
    /\ UNCHANGED app

Deadline ==
    /\ call # Nobody
    /\ GivenUp
    /\ UNCHANGED <<stream, requests, server, chat, app>>

(* poll_chat gives the application the next notice. *)
PollChat ==
    /\ call = Nobody /\ chat.notices # <<>>
    /\ LET n == Head(chat.notices) IN
       IF n.kind = "unavailable" THEN UNCHANGED app
       ELSE /\ heard' = [gen |-> n.gen, seq |-> n.seq]
            /\ skipped' = (skipped \/ n.gen < heard.gen
                             \/ n.seq # 1 + (IF n.gen = heard.gen THEN heard.seq
                                             ELSE marks[n.gen]))
    /\ chat' = [chat EXCEPT !.notices = Tail(@)]
    /\ UNCHANGED <<stream, requests, server, caller>>

Close ==
    /\ chat.open /\ call = Nobody
    /\ Settle(Shut)
    /\ stream' = <<>>
    /\ UNCHANGED <<caller, app>>

NextSession ==
    \/ Join \/ Leave \/ Broadcast \/ Displace \/ Serve \/ Finish
    \/ GetChatState \/ SendChat \/ Ask \/ Receive \/ Deadline \/ PollChat \/ Close

SessionSpec == InitSession /\ [][NextSession]_sessionVars

-----------------------------------------------------------------------------
(* The application is given the messages of a membership in order, none    *)
(* twice, and none left out from the join watermark on: across the         *)
(* buffering before the membership is known, states that are asked for     *)
(* again, answers that come late and memberships that change under a call. *)
NothingSkipped == ~skipped

(* An outcome that was once unknown stays unknown: a send that is tried    *)
(* again, and is rejected because its membership is over or its first copy *)
(* is still under way, is not returned as rejected (protocol.md:414).      *)
UnknownStays ==
    [][~(/\ said # Nobody /\ said.outcome = "unknown"
         /\ said' = [said EXCEPT !.outcome = "rejected"])]_said
=============================================================================
