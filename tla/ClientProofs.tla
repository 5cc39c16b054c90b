---------------------------- MODULE ClientProofs ----------------------------
(***************************************************************************)
(* The client, for any number of memberships, channel messages, calls and  *)
(* frames under way, any limit of the notices and any faults: the login    *)
(* chain shows nothing again that was refused for good, a race of the      *)
(* transports tries TLS, and a realm session tells the application the     *)
(* chat without a gap and calls no send rejected whose outcome was unknown.*)
(*                                                                         *)
(* The inductive invariant Inv is a conjunction.  ChainInv is about the    *)
(* login: the race, and the credentials the chain holds where it waits.    *)
(* SessionInv is about the realm session.  RoomInv relates what it keeps   *)
(* of the chat to what the realm did: Core for the session, with Live, that*)
(* what is queued ends at the watermark and begins where the application   *)
(* stands; After for each message that is buffered or under way, in the    *)
(* order of the channel.                                                   *)
(* The lemmas up to PollKeeps are about the pure functions of a session    *)
(* (ChatMessage, ApplyChatState, Unavailable) and hold for any arguments.  *)
(* CallInv is about the calls: what is asked or answered with the id of    *)
(* the call that waits is of its kind.  SaidInv relates what send_chat     *)
(* returned last to the send that the session remembers as unknown.        *)
(***************************************************************************)
EXTENDS Client, SequenceTheorems, WellFoundedInduction, FiniteSetTheorems, TLAPS

-----------------------------------------------------------------------------
(* The race. *)
Ways == {"quic", "tls"}
Races ==
    [tls : BOOLEAN, started : SUBSET Ways, dialing : SUBSET Ways,
     results : Seq([by : Ways, outcome : Failures \cup {"up"}]),
     last : Fallback \cup {"timeout"}, delayed : BOOLEAN, over : BOOLEAN,
     verdict : {None, "timeout", "quic", "tls"} \cup Failures]

(* Until TLS is started, QUIC is still dialled, or what it brought back is *)
(* not looked at yet.                                                      *)
QuicAlone(r) ==
    \/ r.dialing = {"quic"} /\ r.results = <<>>
    \/ Len(r.results) = 1 /\ r.results[1].by = "quic" /\ r.dialing = {}

RaceOk(r) ==
    /\ r \in Races
    /\ r.tls /\ "tls" \notin r.started /\ ~r.over =>
         r.verdict \notin Fallback /\ (r.verdict = None => QuicAlone(r))

RaceInv == race # None => RaceOk(race)

(* A step of the race, or of its time. *)
LEMMA RaceKept ==
    ASSUME RaceInv, RaceStep \/ RaceTime
    PROVE  RaceInv'
<1>1. SUFFICES ASSUME race # None, race' # None PROVE RaceOk(race')
  <2>1. race # None
    BY DEF RaceStep, RaceTime, DialEnd, HandleResult, StartTls, GiveUpRace, Undecided
  <2> QED BY <2>1 DEF RaceInv
<1>2. RaceOk(race)
  BY <1>1 DEF RaceInv
<1> USE DEF Fallback, Failures, Ways
<1>3. ASSUME NEW p \in Ways, DialEnd(p) PROVE RaceOk(race')
  <2>1. PICK outcome \in Outcomes(p, race.verdict # None) :
           race' = [race EXCEPT !.dialing = @ \ {p},
                                !.results = Append(@, [by |-> p, outcome |-> outcome])]
    BY <1>3 DEF DialEnd
  <2>2. outcome \in Failures \cup {"up"}
    BY DEF Outcomes, Classify
  <2>3. p \in race.dialing
    BY <1>3 DEF DialEnd
  <2> DEFINE x == [by |-> p, outcome |-> outcome]
             T == [by : Ways, outcome : Failures \cup {"up"}]
  <2>4. x \in T /\ x.by = p
    BY <2>2
  <2>5. race.results \in Seq(T)
    BY <1>2 DEF RaceOk, Races
  <2> HIDE DEF x, T
  <2>6. /\ Append(race.results, x) \in Seq(T)
        /\ race.results = <<>> => Len(Append(race.results, x)) = 1 /\ Append(race.results, x)[1] = x
    BY <2>4, <2>5
  <2>7. /\ race' \in Races /\ race'.tls = race.tls /\ race'.started = race.started
        /\ race'.over = race.over /\ race'.verdict = race.verdict
        /\ race'.dialing = race.dialing \ {p} /\ race'.results = Append(race.results, x)
    BY <1>2, <2>1, <2>6 DEF RaceOk, Races, x, T
  <2>8. ASSUME QuicAlone(race) PROVE QuicAlone(race')
    BY <2>3, <2>4, <2>6, <2>7, <2>8 DEF QuicAlone
  <2> QED BY <1>2, <2>7, <2>8 DEF RaceOk
<1>4. ASSUME HandleResult PROVE RaceOk(race')
  <2> DEFINE first == Head(race.results)
             rest == [race EXCEPT !.results = Tail(@)]
  <2>1. /\ race.verdict = None /\ ~race.over /\ race.results # <<>>
        /\ race' = IF first.outcome = "up" THEN [rest EXCEPT !.verdict = first.by]
                  ELSE IF first.outcome \in Fallback
                    THEN AfterFailure([rest EXCEPT !.last = first.outcome], first.by)
                  ELSE [rest EXCEPT !.verdict = first.outcome]
    BY <1>4 DEF HandleResult, Undecided
  <2>2. first \in [by : Ways, outcome : Failures \cup {"up"}] /\ first = race.results[1]
    <3> DEFINE T == [by : Ways, outcome : Failures \cup {"up"}]
    <3>1. race.results \in Seq(T)
      BY <1>2 DEF RaceOk, Races
    <3> HIDE DEF T
    <3>2. Head(race.results) \in T /\ Head(race.results) = race.results[1]
      BY <2>1, <3>1
    <3> QED BY <3>2 DEF T
  <2>3. rest \in Races /\ rest.tls = race.tls /\ rest.started = race.started /\ rest.over = race.over
    <3>1. Tail(race.results) \in Seq([by : Ways, outcome : Failures \cup {"up"}])
      BY <1>2, <2>1 DEF RaceOk, Races
    <3> QED BY <1>2, <3>1 DEF RaceOk, Races
  <2> HIDE DEF first, rest
  <2>4. CASE first.outcome \notin Fallback
    <3>1. PICK v \in {"quic", "tls", "rejected", "cancelled"} : race' = [rest EXCEPT !.verdict = v]
      BY <2>1, <2>2, <2>4
    <3>2. race' \in Races /\ race'.verdict = v
      BY <2>3, <3>1 DEF Races
    <3> QED BY <3>2, RaceAssumption DEF RaceOk
  <2>5. CASE first.outcome \in Fallback
    <3> DEFINE r == [rest EXCEPT !.last = first.outcome]
    <3>1. race' = AfterFailure(r, first.by)
      BY <2>1, <2>5
    <3>2. r \in Races /\ r.tls = rest.tls /\ r.started = rest.started
      BY <2>3, <2>5 DEF Races
    <3> HIDE DEF r
    <3>3. Start(r, "tls") \in Races /\ "tls" \in Start(r, "tls").started
      BY <3>2 DEF Start, Races
    <3>4. race.tls /\ "tls" \notin race.started => first.by = "quic"
      BY <1>2, <2>1, <2>2 DEF RaceOk, QuicAlone
    <3> QED BY <2>3, <3>1, <3>2, <3>3, <3>4 DEF AfterFailure, RaceOk
  <2> QED BY <2>4, <2>5
<1>5. ASSUME StartTls PROVE RaceOk(race')
  BY <1>2, <1>5 DEF StartTls, Start, RaceOk, Races
<1>6. ASSUME GiveUpRace PROVE RaceOk(race')
  <2>1. /\ race.verdict = None /\ race' = [race EXCEPT !.verdict = race.last]
        /\ race.over \/ (race.results = <<>> /\ race.dialing = {})
    BY <1>6 DEF GiveUpRace, Undecided
  <2>2. race' \in Races /\ race'.tls = race.tls /\ race'.started = race.started /\ race'.over = race.over
    BY <1>2, <2>1 DEF RaceOk, Races
  <2> QED BY <1>2, <2>1, <2>2 DEF RaceOk, QuicAlone
<1>7. ASSUME RaceTime PROVE RaceOk(race')
  BY <1>2, <1>7 DEF RaceTime, RaceOk, Races, QuicAlone
<1> QED BY <1>3, <1>4, <1>5, <1>6, <1>7 DEF RaceStep

(* A race begins with QUIC alone, unless QUIC is given up or has no candidate. *)
LEMMA RaceBegins ==
    ASSUME NEW candidates \in {{"tls"}, {"quic", "tls"}}
    PROVE  RaceOk(NewRace(candidates))
<1> DEFINE r == NewRace(candidates)
<1>1. /\ r \in Races /\ r.verdict = None /\ r.started = r.dialing /\ r.results = <<>>
      /\ r.started = {"quic"} \/ "tls" \in r.started
  BY DEF NewRace, Races, Ways, Fallback, Failures
<1> HIDE DEF r
<1>2. RaceOk(r)
  BY <1>1, RaceAssumption DEF RaceOk, QuicAlone, Fallback, Failures
<1> QED BY <1>2 DEF r

-----------------------------------------------------------------------------
(* The login. *)
Holds == {"gateway", "gateway wait", "attach", "handoff", "hold", "realm", "realm wait", "enter"}
Asks == {"poll", "me", "progress"}

LoginInv ==
    /\ at \in Holds => grant \in [spent : BOOLEAN, refused : {FALSE}]
    /\ at \in Asks => number \in [state : {"waiting", "released", "expired"}, refused : {FALSE}]

ChainInv == RaceInv /\ LoginInv

(* Every step of the login, of the services and of time. *)
LEMMA LoginKept == ASSUME ChainInv, NextLogin PROVE ChainInv'
<1>0. RaceInv /\ LoginInv
  BY DEF ChainInv
<1> USE DEF Holds, Asks
<1>1. ASSUME Chain PROVE ChainInv'
  <2>1. ASSUME race' = race \/ race' = None PROVE RaceInv'
    BY <1>0, <2>1 DEF RaceInv
  <2>2. CASE Verify
    BY <1>0, <2>1, <2>2 DEF Verify, VerifyAnswer, Go, End, ChainInv, LoginInv, raceVars
  <2>3. CASE Backoff
    BY <1>0, <2>1, <2>3 DEF Backoff, Go, ChainInv, LoginInv, raceVars
  <2>4. CASE TakeTicket
    <3>1. \/ at' \in {"done", "poll"} /\ number' = [state |-> "waiting", refused |-> FALSE]
          \/ at' = "done"
      BY <2>4 DEF TakeTicket, Go, End
    <3>2. race' = race
      BY <2>4 DEF TakeTicket, raceVars
    <3>3. RaceInv'
      BY <2>1, <3>2
    <3>4. [state |-> "waiting", refused |-> FALSE]
             \in [state : {"waiting", "released", "expired"}, refused : {FALSE}]
      OBVIOUS
    <3> QED BY <3>1, <3>3, <3>4 DEF ChainInv, LoginInv
  <2>5. CASE Poll
    BY <1>0, <2>1, <2>5 DEF Poll, Go, End, ChainInv, LoginInv, raceVars
  <2>6. CASE Progress
    BY <1>0, <2>1, <2>6 DEF Progress, Go, End, ChainInv, LoginInv, raceVars
  <2>7. CASE TicketMe
    <3>1. \/ at' \in {"done", "gateway"} /\ grant' = [spent |-> FALSE, refused |-> FALSE]
          \/ at' = "progress" /\ number' = number
          \/ at' = "verify"
      BY <2>7 DEF TicketMe, Admitted, Go, End
    <3>2. at = "me" /\ race' = race
      BY <2>7 DEF TicketMe, raceVars
    <3>3. RaceInv'
      BY <2>1, <3>2
    <3>4. [spent |-> FALSE, refused |-> FALSE] \in [spent : BOOLEAN, refused : {FALSE}]
      OBVIOUS
    <3> QED BY <1>0, <3>1, <3>2, <3>3, <3>4 DEF ChainInv, LoginInv
  <2>8. CASE ConnectGateway \/ ConnectRealm
    BY <1>0, <2>8, RaceBegins DEF ConnectGateway, ConnectRealm, Connect, ChainInv, LoginInv, RaceInv, chain
  <2>9. CASE Connected("gateway", "attach", "gateway wait") \/ Connected("realm", "enter", "realm wait")
    BY <1>0, <2>1, <2>9 DEF Connected, Go, ChainInv, LoginInv
  <2>10. CASE Attach
    BY <1>0, <2>1, <2>10 DEF Attach, Recovered, Recovery, Go, End, ChainInv, LoginInv, raceVars
  <2>11. CASE Handoff
    BY <1>0, <2>1, <2>11 DEF Handoff, Recovered, Recovery, Go, End, ChainInv, LoginInv, raceVars
  <2>12. CASE GatewayWait \/ TopLate \/ Hold
    BY <1>0, <2>1, <2>12 DEF GatewayWait, TopLate, Hold, Go, End, ChainInv, LoginInv, raceVars
  <2>13. CASE EnterRealm
    BY <1>0, <2>1, <2>13 DEF EnterRealm, Go, End, ChainInv, LoginInv, raceVars
  <2>14. CASE RealmWait
    BY <1>0, <2>1, <2>14 DEF RealmWait, Go, End, ChainInv, LoginInv, raceVars
  <2> QED BY <1>1, <2>2, <2>3, <2>4, <2>5, <2>6, <2>7, <2>8, <2>9, <2>10, <2>11, <2>12, <2>13, <2>14 DEF Chain
<1>2. ASSUME RaceMoves \/ RaceClock PROVE ChainInv'
  <2>1. UNCHANGED chain
    BY <1>2 DEF RaceMoves, RaceClock
  <2>2. LoginInv'
    BY <1>0, <2>1 DEF LoginInv, chain
  <2>3. RaceInv'
    BY <1>0, <1>2, RaceKept DEF RaceMoves, RaceClock, Unsuppress, RaceInv
  <2> QED BY <2>2, <2>3 DEF ChainInv
<1>3. ASSUME Release \/ ExpireNumber \/ Late \/ CloseWindow \/ Stale PROVE ChainInv'
  BY <1>0, <1>3 DEF Release, ExpireNumber, Late, CloseWindow, Stale, ChainInv, LoginInv, RaceInv, raceVars, chain
<1> QED BY <1>1, <1>2, <1>3 DEF NextLogin

-----------------------------------------------------------------------------
(* What the client knows of the chat, against what the realm did: mk are   *)
(* the join watermarks, sq the last message of the channel, h what the     *)
(* application was given last.                                             *)
Msgs == [kind : {"message"}, gen : Nat, seq : Nat]
Unav == [kind |-> "unavailable"]
Sess == [open : BOOLEAN, state : Nat \cup {Nobody}, watermark : Nat,
         buffered : Seq(Msgs), notices : Seq(Msgs \cup {Unav})]

Past(mk, sq, h) ==
    /\ mk \in Seq(Nat) /\ sq \in Nat /\ \A i \in 1..Len(mk) : mk[i] <= sq
    /\ h \in [gen : Nat, seq : Nat] /\ h.gen <= Len(mk) /\ h.seq <= sq
    /\ h.gen > 0 => h.seq > mk[h.gen]

(* The notices: at first, perhaps, that a membership is over; then messages *)
(* of the present one, up to its watermark.                                 *)
First(c) == IF c.notices = <<>> THEN 0 ELSE IF c.notices[1] = Unav THEN 1 ELSE 0
Base(g, mk, h) == IF h.gen = g THEN h.seq ELSE mk[g]

(* The next message is one that the application can be given. *)
Live(c, mk, h) == c.watermark = Base(c.state, mk, h) + Len(c.notices) - First(c)

NoticeOk(c, i, mk, h) ==
    \/ c.notices[i] = Unav /\ i = 1
    \/ /\ c.notices[i] \in Msgs /\ c.state # Nobody /\ c.notices[i].gen = c.state
       /\ c.notices[i].seq = c.watermark - (Len(c.notices) - i)
       /\ Live(c, mk, h)

ActiveOk(c, mk, sq, h) ==
    /\ c.buffered = <<>> /\ c.state \in 1..Len(mk) /\ c.state >= h.gen
    /\ c.watermark >= mk[c.state] /\ c.watermark <= sq
    /\ ~Live(c, mk, h) => c.watermark < sq

Core(c, mk, sq, h) ==
    /\ c \in Sess
    /\ \A i \in 1..Len(c.notices) : NoticeOk(c, i, mk, h)
    /\ c.state # Nobody => ActiveOk(c, mk, sq, h)

(* A message that has not been looked at yet. *)
After(c, m, mk, sq, h) ==
    /\ m \in Msgs /\ m.gen \in 1..Len(mk) /\ m.seq > mk[m.gen] /\ m.seq <= sq
    /\ m.gen = h.gen => m.seq > h.seq
    /\ m.gen = c.state => m.seq > c.watermark /\ (~Live(c, mk, h) => m.seq > c.watermark + 1)

(* A session without a membership. *)
LEMMA Silent ==
    ASSUME NEW mk, NEW sq, NEW h, NEW d \in Sess, d.state = Nobody,
           d.notices = <<>> \/ d.notices = <<Unav>>
    PROVE  /\ Core(d, mk, sq, h)
           /\ \A c, m : After(c, m, mk, sq, h) => After(d, m, mk, sq, h)
<1>1. \A i \in 1..Len(d.notices) : NoticeOk(d, i, mk, h)
  <2>1. CASE d.notices = <<>>
    BY <2>1
  <2>2. CASE d.notices = <<Unav>>
    <3>1. Len(d.notices) = 1 /\ d.notices[1] = Unav
      BY <2>2
    <3> QED BY <3>1 DEF NoticeOk
  <2> QED BY <2>1, <2>2
<1>2. \A c, m : After(c, m, mk, sq, h) => After(d, m, mk, sq, h)
  BY NobodyAssumption DEF After, Msgs
<1> QED BY <1>1, <1>2 DEF Core

(* close() leaves a session without anything. *)
LEMMA ShutIs == Shut \in Sess /\ Shut.state = Nobody /\ Shut.notices = <<>> /\ Shut.buffered = <<>> /\ ~Shut.open
BY DEF Shut, Sess

(* chat_unavailable leaves one notice of it, or closes the session. *)
LEMMA UnavailableIs ==
    ASSUME NEW c \in Sess
    PROVE  LET d == Unavailable(c) IN
           /\ d \in Sess /\ d.state = Nobody /\ d.buffered = <<>>
           /\ d.notices = <<>> \/ d.notices = <<Unav>>
<1> DEFINE x == Discard(c)
           y == [x EXCEPT !.notices = Append(@, Unav)]
<1>0. <<>> \in Seq(Msgs) /\ <<>> \in Seq(Msgs \cup {Unav})
  OBVIOUS
<1>1. x \in Sess /\ x.state = Nobody /\ x.buffered = <<>> /\ x.notices = <<>>
  BY <1>0 DEF Discard, Sess
<1>2. Append(x.notices, Unav) = <<Unav>> /\ <<Unav>> \in Seq(Msgs \cup {Unav})
  BY <1>1
<1> HIDE DEF x
<1>3. y \in Sess /\ y.state = Nobody /\ y.buffered = <<>> /\ y.notices = <<Unav>>
  BY <1>1, <1>2 DEF Sess
<1> HIDE DEF y
<1>4. Unavailable(c) \in {y, Shut}
  BY DEF Unavailable, QueueChat, x, y, Unav
<1> QED BY <1>3, <1>4, ShutIs

(* A message that follows, and finds room. *)
LEMMA Follows ==
    ASSUME NEW mk, NEW sq, NEW h, Past(mk, sq, h), NEW c, Core(c, mk, sq, h), c.state # Nobody,
           NEW m, After(c, m, mk, sq, h), m.gen = c.state, m.seq = c.watermark + 1,
           NEW e, e = [[c EXCEPT !.watermark = m.seq] EXCEPT !.notices = Append(@, m)]
    PROVE  /\ Core(e, mk, sq, h) /\ e.state = c.state /\ e.buffered = <<>>
           /\ \A n : After(c, n, mk, sq, h) /\ n.seq > m.seq => After(e, n, mk, sq, h)
<1>1. c \in Sess /\ m \in Msgs /\ ActiveOk(c, mk, sq, h) /\ Live(c, mk, h)
  BY DEF Core, After, Msgs, Sess
<1> DEFINE T == Msgs \cup {Unav}
<1>2. c.notices \in Seq(T) /\ m \in T /\ m # Unav
  BY <1>1 DEF Sess, Msgs, Unav
<1> HIDE DEF T
<1> DEFINE s == Append(c.notices, m)
<1>3. /\ s \in Seq(T) /\ Len(s) = Len(c.notices) + 1 /\ s[Len(s)] = m
      /\ \A i \in 1..Len(c.notices) : s[i] = c.notices[i]
      /\ s # <<>> /\ Len(c.notices) \in Nat /\ (c.notices = <<>> => s[1] = m)
      /\ c.notices # <<>> => 1 \in 1..Len(c.notices)
  BY <1>2
<1> HIDE DEF s
<1>4. /\ e \in Sess /\ e.state = c.state /\ e.buffered = c.buffered /\ e.notices = s
      /\ e.watermark = m.seq
  BY <1>1, <1>3 DEF Sess, Msgs, s, T
<1>5. First(e) = First(c) /\ First(c) \in Nat
  BY <1>2, <1>3, <1>4 DEF First
<1>6. Base(c.state, mk, h) \in Int /\ Live(e, mk, h)
  <2>1. Base(c.state, mk, h) \in Nat
    BY <1>1 DEF Base, ActiveOk, Past
  <2> QED BY <2>1, <1>1, <1>3, <1>4, <1>5 DEF Live, Sess, Msgs
<1>7. \A i \in 1..Len(s) : NoticeOk(e, i, mk, h)
  <2> SUFFICES ASSUME NEW i \in 1..Len(s) PROVE NoticeOk(e, i, mk, h)
    OBVIOUS
  <2>1. CASE i = Len(s)
    BY <2>1, <1>1, <1>3, <1>4, <1>6 DEF NoticeOk, Msgs
  <2>2. CASE i # Len(s)
    <3>1. i \in 1..Len(c.notices) /\ s[i] = c.notices[i]
      BY <2>2, <1>3
    <3>2. NoticeOk(c, i, mk, h)
      BY <3>1 DEF Core
    <3>3. c.watermark \in Nat
      BY <1>1 DEF Sess
    <3>4. /\ Len(s) = Len(c.notices) + 1 /\ Len(c.notices) \in Nat /\ i \in Int
          /\ e.watermark = c.watermark + 1 /\ e.state = c.state /\ e.notices[i] = c.notices[i]
          /\ Len(e.notices) = Len(s)
      BY <3>1, <1>3, <1>4
    <3>5. c.watermark - (Len(c.notices) - i) = e.watermark - (Len(e.notices) - i)
      BY <3>3, <3>4
    <3> QED BY <3>2, <3>4, <3>5, <1>6 DEF NoticeOk
  <2> QED BY <2>1, <2>2
<1>8. ActiveOk(e, mk, sq, h)
  <2>1. c.watermark \in Nat /\ e.watermark = c.watermark + 1 /\ e.watermark <= sq /\ sq \in Nat
    BY <1>1, <1>4 DEF Sess, After, Past
  <2>2. mk[c.state] \in Nat /\ c.watermark >= mk[c.state]
    BY <1>1 DEF ActiveOk, Past
  <2> QED BY <1>1, <1>4, <1>6, <2>1, <2>2 DEF ActiveOk
<1>9. Core(e, mk, sq, h)
  BY <1>4, <1>7, <1>8 DEF Core
<1>10. ASSUME NEW n, After(c, n, mk, sq, h), n.seq > m.seq PROVE After(e, n, mk, sq, h)
  BY <1>10, <1>4, <1>6 DEF After
<1> QED BY <1>1, <1>4, <1>9, <1>10 DEF ActiveOk

(* chat_message keeps the notices without a gap, and does not look at what comes later. *)
LEMMA ChatMessageKeeps ==
    ASSUME NEW mk, NEW sq, NEW h, Past(mk, sq, h), NEW c, Core(c, mk, sq, h),
           NEW m, After(c, m, mk, sq, h)
    PROVE  LET d == ChatMessage(c, m) IN
           /\ Core(d, mk, sq, h) /\ d.state \in {c.state, Nobody}
           /\ \A n : After(c, n, mk, sq, h) /\ n.seq > m.seq => After(d, n, mk, sq, h)
           /\ d.buffered \in {c.buffered, <<>>, Append(c.buffered, m)}
<1> DEFINE d == ChatMessage(c, m)
<1>1. c \in Sess /\ m \in Msgs
  BY DEF Core, After
<1>2. ASSUME d = c PROVE LET dd == d IN
           /\ Core(dd, mk, sq, h) /\ dd.state \in {c.state, Nobody}
           /\ \A n : After(c, n, mk, sq, h) /\ n.seq > m.seq => After(dd, n, mk, sq, h)
           /\ dd.buffered \in {c.buffered, <<>>, Append(c.buffered, m)}
  BY <1>2
<1>3. ASSUME d \in Sess, d.state = Nobody, d.notices = <<>> \/ d.notices = <<Unav>>, d.buffered = <<>>
      PROVE LET dd == d IN
           /\ Core(dd, mk, sq, h) /\ dd.state \in {c.state, Nobody}
           /\ \A n : After(c, n, mk, sq, h) /\ n.seq > m.seq => After(dd, n, mk, sq, h)
           /\ dd.buffered \in {c.buffered, <<>>, Append(c.buffered, m)}
  <2> HIDE DEF d
  <2> QED BY <1>3, Silent
<1>4. CASE ~c.open
  BY <1>2, <1>4 DEF ChatMessage
<1>5. CASE c.open /\ c.state = Nobody
  <2>1. CASE Budget(c)
    <3> DEFINE s == Append(c.buffered, m)
    <3>1. s \in Seq(Msgs)
      BY <1>1 DEF Sess
    <3> HIDE DEF s
    <3>2. d = [c EXCEPT !.buffered = s]
      BY <1>5, <2>1 DEF ChatMessage, s
    <3> HIDE DEF d
    <3>3. /\ d \in Sess /\ d.state = c.state /\ d.notices = c.notices /\ d.watermark = c.watermark
          /\ d.buffered = s
      BY <3>1, <3>2, <1>1 DEF Sess
    <3>4. Live(d, mk, h) = Live(c, mk, h)
      BY <3>3 DEF Live, First
    <3>5. Core(d, mk, sq, h)
      BY <3>3, <3>4, <1>5 DEF Core, NoticeOk
    <3>6. \A n : After(c, n, mk, sq, h) => After(d, n, mk, sq, h)
      BY <3>3, <3>4 DEF After
    <3> QED BY <3>3, <3>5, <3>6 DEF d, s
  <2>2. CASE ~Budget(c)
    BY <1>3, <1>5, <2>2, ShutIs DEF ChatMessage
  <2> QED BY <2>1, <2>2
<1>6. CASE c.open /\ c.state # Nobody /\ (m.gen # c.state \/ m.seq <= c.watermark)
  BY <1>2, <1>6 DEF ChatMessage
<1>7. CASE c.open /\ c.state # Nobody /\ ~(m.gen # c.state \/ m.seq <= c.watermark) /\ m.seq # c.watermark + 1
  <2>1. d = Unavailable(c)
    BY <1>7 DEF ChatMessage
  <2> HIDE DEF d
  <2> QED BY <1>1, <1>3, <2>1, UnavailableIs DEF d
<1>8. CASE c.open /\ c.state # Nobody /\ ~(m.gen # c.state \/ m.seq <= c.watermark) /\ m.seq = c.watermark + 1
  <2> DEFINE x == [c EXCEPT !.watermark = m.seq]
             e == [x EXCEPT !.notices = Append(@, m)]
  <2>1. d = QueueChat(x, m)
    BY <1>8 DEF ChatMessage
  <2>2. d = e \/ d = Shut
    BY <2>1 DEF QueueChat
  <2>3. CASE d = Shut
    BY <1>3, <2>3, ShutIs
  <2>4. CASE d = e
    <3>1. /\ Core(e, mk, sq, h) /\ e.state = c.state /\ e.buffered = <<>>
          /\ \A n : After(c, n, mk, sq, h) /\ n.seq > m.seq => After(e, n, mk, sq, h)
      <4> HIDE DEF d
      <4> QED BY <1>8, Follows
    <3> QED BY <2>4, <3>1
  <2> QED BY <2>2, <2>3, <2>4
<1> QED BY <1>4, <1>5, <1>6, <1>7, <1>8

-----------------------------------------------------------------------------
(* A nonempty set of natural numbers has a least element. *)
LEMMA LeastOf ==
    ASSUME NEW T, T \subseteq Nat, T # {}
    PROVE  \E x \in T : \A y \in T : x <= y
<1> DEFINE R == {p \in Nat \X Nat : p[1] < p[2]}
<1>1. IsWellFoundedOn(R, Nat)
  BY NatLessThanWellFounded, Zenon DEF OpToRel
<1> HIDE DEF R
<1>2. PICK x \in T : \A y \in T : ~(<<y, x>> \in R)
  BY <1>1, WFMin
<1>3. \A y \in T : ~(y < x)
  BY <1>2 DEF R
<1> QED BY <1>2, <1>3

KeptStep(f, notices, gen) ==
    [i \in 0..Len(notices) |->
       IF i = 0 THEN <<>>
       ELSE IF notices[i].kind # "message" \/ notices[i].gen = gen
         THEN Append(f[i - 1], notices[i])
       ELSE f[i - 1]]

(* A solution of the recursion of Qualified is the solution. *)
LEMMA QualifiedBy ==
    ASSUME NEW notices, Len(notices) \in Nat, NEW gen,
           NEW f, f = KeptStep(f, notices, gen)
    PROVE  Qualified(notices, gen) = f[Len(notices)]
<1> DEFINE n == Len(notices)
           K == CHOOSE k : k = KeptStep(k, notices, gen)
<1>1. K = KeptStep(K, notices, gen)
  OBVIOUS
<1>2. Qualified(notices, gen) = K[n]
  BY DEF Qualified, KeptStep
<1> HIDE DEF K, n
<1>3. \A i \in 0..n : K[i] = f[i]
  <2> SUFFICES ASSUME NEW j \in 0..n, K[j] # f[j] PROVE FALSE
    OBVIOUS
  <2> DEFINE T == {i \in 0..n : K[i] # f[i]}
  <2>1. PICK x \in T : \A y \in T : x <= y
    <3>1. j \in T /\ T \subseteq Nat
      BY DEF n
    <3> HIDE DEF T
    <3> QED BY <3>1, LeastOf
  <2>2. x \in 0..n /\ K[x] # f[x]
    OBVIOUS
  <2>3. x # 0
    <3>1. 0 \in 0..Len(notices)
      OBVIOUS
    <3>2. K[0] = <<>> /\ f[0] = <<>>
      BY <1>1, <3>1 DEF KeptStep
    <3> QED BY <2>2, <3>2
  <2>4. x - 1 \in 0..n /\ x - 1 < x /\ x \in Int
    BY <2>2, <2>3 DEF n
  <2>5. K[x - 1] = f[x - 1]
    <3>1. x - 1 \notin T
      BY <2>1, <2>4
    <3> QED BY <2>4, <3>1
  <2>6. K[x] = f[x]
    <3> HIDE DEF T
    <3>1. K[x] = KeptStep(K, notices, gen)[x] /\ f[x] = KeptStep(f, notices, gen)[x]
      BY <1>1
    <3>2. KeptStep(K, notices, gen)[x] = KeptStep(f, notices, gen)[x]
      BY <2>2, <2>3, <2>5 DEF KeptStep, n
    <3> QED BY <3>1, <3>2
  <2> QED BY <2>2, <2>6
<1> QED BY <1>2, <1>3 DEF n

(* The notices of the membership that goes on are all kept; *)
LEMMA QualifiedSame ==
    ASSUME NEW notices \in Seq(Msgs \cup {Unav}), NEW gen,
           \A i \in 1..Len(notices) : notices[i] = Unav \/ notices[i].gen = gen
    PROVE  Qualified(notices, gen) = notices
<1> DEFINE f == [i \in 0..Len(notices) |-> SubSeq(notices, 1, i)]
<1>1. \A i \in 0..Len(notices) :
        f[i] = IF i = 0 THEN <<>>
               ELSE IF notices[i].kind # "message" \/ notices[i].gen = gen
                 THEN Append(f[i - 1], notices[i])
               ELSE f[i - 1]
  <2> SUFFICES ASSUME NEW i \in 0..Len(notices)
               PROVE f[i] = IF i = 0 THEN <<>>
                            ELSE IF notices[i].kind # "message" \/ notices[i].gen = gen
                              THEN Append(f[i - 1], notices[i])
                            ELSE f[i - 1]
    OBVIOUS
  <2>1. CASE i = 0
    BY <2>1
  <2>2. CASE i # 0
    <3>1. i \in 1..Len(notices) /\ i - 1 \in 0..Len(notices)
      BY <2>2
    <3>2. notices[i].kind # "message" \/ notices[i].gen = gen
      BY <3>1 DEF Unav
    <3>3. SubSeq(notices, 1, i) = Append(SubSeq(notices, 1, i - 1), notices[i])
      BY <3>1
    <3> QED BY <2>2, <3>1, <3>2, <3>3
  <2> QED BY <2>1, <2>2
<1>2. f = KeptStep(f, notices, gen)
  <2>1. f = [i \in 0..Len(notices) |-> f[i]]
    OBVIOUS
  <2> HIDE DEF f
  <2> QED BY <1>1, <2>1 DEF KeptStep
<1>3. f[Len(notices)] = notices
  BY DEF f
<1> HIDE DEF f
<1> QED BY <1>2, <1>3, QualifiedBy

(* those of another one are not. *)
LEMMA QualifiedOther ==
    ASSUME NEW notices \in Seq(Msgs \cup {Unav}), NEW gen,
           \A i \in 1..Len(notices) :
             (notices[i] = Unav /\ i = 1) \/ (notices[i] \in Msgs /\ notices[i].gen # gen)
    PROVE  Qualified(notices, gen) \in {<<>>, <<Unav>>}
<1> DEFINE told == IF notices = <<>> THEN <<>> ELSE IF notices[1] = Unav THEN <<Unav>> ELSE <<>>
           f == [i \in 0..Len(notices) |-> IF i = 0 THEN <<>> ELSE told]
<1>1. \A i \in 0..Len(notices) :
        f[i] = IF i = 0 THEN <<>>
               ELSE IF notices[i].kind # "message" \/ notices[i].gen = gen
                 THEN Append(f[i - 1], notices[i])
               ELSE f[i - 1]
  <2> SUFFICES ASSUME NEW i \in 0..Len(notices)
               PROVE f[i] = IF i = 0 THEN <<>>
                            ELSE IF notices[i].kind # "message" \/ notices[i].gen = gen
                              THEN Append(f[i - 1], notices[i])
                            ELSE f[i - 1]
    OBVIOUS
  <2>1. CASE i = 0
    BY <2>1
  <2>2. CASE i = 1
    <3>1. 1 \in 1..Len(notices) /\ notices # <<>> /\ 0 \in 0..Len(notices) /\ 1 - 1 = 0
      BY <2>2
    <3>2. CASE notices[1] = Unav
      <4>1. Append(<<>>, Unav) = <<Unav>>
        OBVIOUS
      <4> QED BY <2>2, <3>1, <3>2, <4>1 DEF Unav
    <3>3. CASE notices[1] # Unav
      <4>1. notices[1].kind = "message" /\ notices[1].gen # gen
        BY <3>1, <3>3 DEF Msgs
      <4> QED BY <2>2, <3>1, <3>3, <4>1
    <3> QED BY <3>2, <3>3
  <2>3. CASE i > 1
    <3>1. i \in 1..Len(notices) /\ i - 1 \in 0..Len(notices) /\ i - 1 # 0 /\ i # 0 /\ i # 1
      BY <2>3
    <3>2. notices[i].kind = "message" /\ notices[i].gen # gen
      BY <3>1 DEF Msgs
    <3>3. f[i] = told /\ f[i - 1] = told
      BY <3>1
    <3> HIDE DEF f, told
    <3> QED BY <3>1, <3>2, <3>3
  <2> QED BY <2>1, <2>2, <2>3
<1>2. f = KeptStep(f, notices, gen)
  <2>1. f = [i \in 0..Len(notices) |-> f[i]]
    OBVIOUS
  <2> HIDE DEF f
  <2> QED BY <1>1, <2>1 DEF KeptStep
<1>3. f[Len(notices)] \in {<<>>, <<Unav>>} /\ Len(notices) \in Nat
  OBVIOUS
<1> HIDE DEF f, told
<1> QED BY <1>2, <1>3, QualifiedBy

-----------------------------------------------------------------------------
(* The messages that wait in a session, and those that come later. *)
Rising(s) == \A i, j \in 1..Len(s) : i < j => s[i].seq < s[j].seq

Waiting(c, later, mk, sq, h) ==
    /\ Rising(c.buffered)
    /\ \A i \in 1..Len(c.buffered) : After(c, c.buffered[i], mk, sq, h)
    /\ \A i \in 1..Len(c.buffered) : \A n \in later : c.buffered[i].seq < n.seq
    /\ \A n \in later : After(c, n, mk, sq, h)

(* A session takes the next message. *)
LEMMA MessageTaken ==
    ASSUME NEW mk, NEW sq, NEW h, Past(mk, sq, h), NEW c, Core(c, mk, sq, h),
           NEW m, NEW later, Waiting(c, {m} \cup later, mk, sq, h),
           \A n \in later : m.seq < n.seq
    PROVE  LET d == ChatMessage(c, m) IN
           /\ Core(d, mk, sq, h) /\ d.state \in {c.state, Nobody}
           /\ Waiting(d, later, mk, sq, h)
<1> DEFINE d == ChatMessage(c, m)
<1>1. /\ After(c, m, mk, sq, h)
      /\ \A n \in later : After(c, n, mk, sq, h)
      /\ \A i \in 1..Len(c.buffered) : c.buffered[i].seq < m.seq
      /\ \A i \in 1..Len(c.buffered) : \A n \in later : c.buffered[i].seq < n.seq
  BY DEF Waiting
<1>2. /\ Core(d, mk, sq, h) /\ d.state \in {c.state, Nobody}
      /\ \A n : After(c, n, mk, sq, h) /\ n.seq > m.seq => After(d, n, mk, sq, h)
      /\ d.buffered \in {c.buffered, <<>>, Append(c.buffered, m)}
  BY <1>1, ChatMessageKeeps
<1> HIDE DEF d
<1>3. m \in Msgs /\ c.buffered \in Seq(Msgs) /\ d.buffered \in Seq(Msgs)
  BY <1>1, <1>2 DEF After, Core, Sess
<1>4. \A n \in later : After(d, n, mk, sq, h)
  <2> SUFFICES ASSUME NEW n \in later PROVE After(d, n, mk, sq, h)
    OBVIOUS
  <2>1. n \in Msgs /\ m.seq < n.seq /\ m.seq \in Nat /\ n.seq \in Nat
    BY <1>1, <1>3 DEF After, Msgs
  <2> QED BY <1>1, <1>2, <2>1
<1>5. /\ \A i \in 1..Len(d.buffered) :
           \/ d.buffered[i] = m
           \/ \E k \in 1..Len(c.buffered) : d.buffered[i] = c.buffered[k]
      /\ Rising(d.buffered)
  <2>1. CASE d.buffered = c.buffered
    BY <2>1 DEF Waiting
  <2>2. CASE d.buffered = <<>>
    BY <2>2 DEF Rising
  <2>3. CASE d.buffered = Append(c.buffered, m)
    <3>1. /\ Len(d.buffered) = Len(c.buffered) + 1 /\ d.buffered[Len(d.buffered)] = m
          /\ \A i \in 1..Len(c.buffered) : d.buffered[i] = c.buffered[i]
          /\ Len(c.buffered) \in Nat
      BY <2>3, <1>3
    <3>2. \A i \in 1..Len(d.buffered) : i = Len(d.buffered) \/ i \in 1..Len(c.buffered)
      BY <3>1
    <3>3. Rising(d.buffered)
      <4> SUFFICES ASSUME NEW i \in 1..Len(d.buffered), NEW j \in 1..Len(d.buffered), i < j
                   PROVE d.buffered[i].seq < d.buffered[j].seq
        BY DEF Rising
      <4>1. i \in 1..Len(c.buffered)
        BY <3>1, <3>2
      <4>2. CASE j = Len(d.buffered)
        BY <1>1, <3>1, <4>1, <4>2
      <4>3. CASE j \in 1..Len(c.buffered)
        BY <3>1, <4>1, <4>3 DEF Waiting, Rising
      <4> QED BY <3>2, <4>2, <4>3
    <3> QED BY <3>1, <3>2, <3>3
  <2> QED BY <1>2, <2>1, <2>2, <2>3
<1>6. \A i \in 1..Len(d.buffered) : After(d, d.buffered[i], mk, sq, h)
  <2> SUFFICES ASSUME NEW i \in 1..Len(d.buffered) PROVE After(d, d.buffered[i], mk, sq, h)
    OBVIOUS
  <2>1. d.buffered # <<>>
    BY <1>3
  <2>2. d.state = Nobody
    BY <1>2, <2>1 DEF Core, ActiveOk
  <2>3. After(c, d.buffered[i], mk, sq, h)
    BY <1>1, <1>5 DEF Waiting
  <2> QED BY <2>2, <2>3, NobodyAssumption DEF After, Msgs
<1>7. \A i \in 1..Len(d.buffered) : \A n \in later : d.buffered[i].seq < n.seq
  BY <1>1, <1>5
<1> QED BY <1>2, <1>4, <1>5, <1>6, <1>7 DEF Waiting, d

ReplayStep(f, c, ms) ==
    [i \in 0..Len(ms) |-> IF i = 0 THEN c ELSE ChatMessage(f[i - 1], ms[i])]

(* The recursion of Replay has a solution. *)
LEMMA ReplayRec ==
    ASSUME NEW c, NEW ms, Len(ms) \in Nat
    PROVE  \E f : /\ Replay(c, ms) = f[Len(ms)] /\ f[0] = c
                  /\ \A i \in 1..Len(ms) : f[i] = ChatMessage(f[i - 1], ms[i])
<1> DEFINE n == Len(ms)
           Upto(g, k) == [i \in 0..k |-> IF i = 0 THEN c ELSE ChatMessage(g[i - 1], ms[i])]
           K == CHOOSE f : f = ReplayStep(f, c, ms)
<1>1. \A k \in 0..n : \E g : g = Upto(g, k)
  <2> DEFINE T == {k \in 0..n : ~\E g : g = Upto(g, k)}
  <2> SUFFICES ASSUME T # {} PROVE FALSE
    OBVIOUS
  <2>1. PICK x \in T : \A y \in T : x <= y
    <3>1. T \subseteq Nat
      OBVIOUS
    <3> HIDE DEF T
    <3> QED BY <3>1, LeastOf
  <2>2. x \in 0..n /\ ~\E g : g = Upto(g, x)
    OBVIOUS
  <2>3. x # 0
    <3> DEFINE g == [i \in 0..0 |-> c]
    <3>1. g = Upto(g, 0)
      OBVIOUS
    <3> HIDE DEF g
    <3> QED BY <2>2, <3>1
  <2>4. x - 1 \in 0..n /\ x - 1 < x /\ x \in Nat /\ x - 1 \in Nat
    BY <2>2, <2>3
  <2>5. PICK g : g = Upto(g, x - 1)
    <3>1. x - 1 \notin T
      BY <2>1, <2>4
    <3> QED BY <2>4, <3>1
  <2> DEFINE e == [i \in 0..x |-> IF i = x THEN ChatMessage(g[x - 1], ms[x]) ELSE g[i]]
  <2>6. \A i \in 0..x : e[i] = IF i = 0 THEN c ELSE ChatMessage(e[i - 1], ms[i])
    <3> SUFFICES ASSUME NEW i \in 0..x
                 PROVE e[i] = IF i = 0 THEN c ELSE ChatMessage(e[i - 1], ms[i])
      OBVIOUS
    <3>1. CASE i = x
      <4>1. i # 0 /\ i - 1 \in 0..x /\ i - 1 # x
        BY <2>3, <2>4, <3>1
      <4> QED BY <3>1, <4>1
    <3>2. CASE i # x
      <4>1. i \in 0..(x - 1) /\ (i # 0 => i - 1 \in 0..x /\ i - 1 # x)
        BY <2>4, <3>2
      <4>2. g[i] = Upto(g, x - 1)[i]
        BY <2>5
      <4>3. e[i] = g[i] /\ (i # 0 => e[i - 1] = g[i - 1])
        BY <3>2, <4>1
      <4>4. g[i] = IF i = 0 THEN c ELSE ChatMessage(g[i - 1], ms[i])
        <5> HIDE DEF e
        <5> QED BY <4>1, <4>2
      <4> HIDE DEF e
      <4> QED BY <4>3, <4>4
    <3> QED BY <3>1, <3>2
  <2>7. e = [i \in 0..x |-> e[i]]
    OBVIOUS
  <2> HIDE DEF e
  <2>8. e = Upto(e, x)
    BY <2>6, <2>7
  <2> QED BY <2>2, <2>8
<1>2. \E f : f = ReplayStep(f, c, ms)
  <2>1. PICK g : g = Upto(g, n)
    BY <1>1
  <2> QED BY <2>1 DEF ReplayStep
<1>3. K = ReplayStep(K, c, ms)
  BY <1>2
<1>4. Replay(c, ms) = K[n]
  BY DEF Replay, ReplayStep
<1> HIDE DEF K, n
<1>5. K[0] = c /\ \A i \in 1..Len(ms) : K[i] = ChatMessage(K[i - 1], ms[i])
  <2>1. 0 \in 0..Len(ms)
    OBVIOUS
  <2>2. K[0] = ReplayStep(K, c, ms)[0] /\ \A i \in 1..Len(ms) : K[i] = ReplayStep(K, c, ms)[i]
    BY <1>3
  <2>3. ReplayStep(K, c, ms)[0] = c
    BY <2>1 DEF ReplayStep
  <2>4. \A i \in 1..Len(ms) : ReplayStep(K, c, ms)[i] = ChatMessage(K[i - 1], ms[i])
    BY DEF ReplayStep
  <2> QED BY <2>2, <2>3, <2>4
<1> QED BY <1>4, <1>5 DEF n

(* What waited is taken in order. *)
LEMMA ReplayKeeps ==
    ASSUME NEW mk, NEW sq, NEW h, Past(mk, sq, h), NEW c, Core(c, mk, sq, h), c.buffered = <<>>,
           NEW ms \in Seq(Msgs), Rising(ms), \A i \in 1..Len(ms) : After(c, ms[i], mk, sq, h),
           NEW later, \A n \in later : After(c, n, mk, sq, h),
           \A i \in 1..Len(ms) : \A n \in later : ms[i].seq < n.seq
    PROVE  LET d == Replay(c, ms) IN
           /\ Core(d, mk, sq, h) /\ d.state \in {c.state, Nobody}
           /\ Waiting(d, later, mk, sq, h)
<1> DEFINE Left(k) == {ms[i] : i \in (k + 1)..Len(ms)} \cup later
           Ok(x, k) == /\ Core(x, mk, sq, h) /\ x.state \in {c.state, Nobody}
                       /\ Waiting(x, Left(k), mk, sq, h)
<1>1. PICK f : /\ Replay(c, ms) = f[Len(ms)] /\ f[0] = c
               /\ \A i \in 1..Len(ms) : f[i] = ChatMessage(f[i - 1], ms[i])
  <2>1. Len(ms) \in Nat
    OBVIOUS
  <2> HIDE DEF Left, Ok
  <2> QED BY <2>1, ReplayRec
<1>2. Ok(c, 0)
  <2>1. \A n \in Left(0) : After(c, n, mk, sq, h)
    OBVIOUS
  <2>2. Rising(c.buffered)
    BY DEF Rising
  <2> HIDE DEF Left
  <2> QED BY <2>1, <2>2 DEF Waiting
<1>3. \A k \in 0..Len(ms) : Ok(f[k], k)
  <2> SUFFICES ASSUME NEW j \in 0..Len(ms), ~Ok(f[j], j) PROVE FALSE
    OBVIOUS
  <2> DEFINE T == {k \in 0..Len(ms) : ~Ok(f[k], k)}
  <2>1. PICK x \in T : \A y \in T : x <= y
    <3>1. j \in T /\ T \subseteq Nat
      OBVIOUS
    <3> HIDE DEF T
    <3> QED BY <3>1, LeastOf
  <2>2. x \in 0..Len(ms) /\ ~Ok(f[x], x)
    OBVIOUS
  <2>3. x # 0
    BY <1>1, <1>2, <2>2
  <2>4. x \in 1..Len(ms) /\ x - 1 \in 0..Len(ms) /\ x - 1 < x
    BY <2>2, <2>3
  <2>5. Ok(f[x - 1], x - 1)
    <3> HIDE DEF Left, Ok
    <3>0. ~(x <= x - 1)
      BY <2>4
    <3>1. x - 1 \notin T
      <4> HIDE DEF T
      <4> QED BY <2>1, <3>0
    <3> QED BY <2>4, <3>1
  <2>6. Left(x - 1) = {ms[x]} \cup Left(x)
    <3>1. ((x - 1) + 1)..Len(ms) = {x} \cup ((x + 1)..Len(ms))
      BY <2>4
    <3> QED BY <3>1
  <2>7. \A n \in Left(x) : ms[x].seq < n.seq
    BY <2>4 DEF Rising
  <2> HIDE DEF Left
  <2> DEFINE p == f[x - 1]
             n == ms[x]
             after == Left(x)
  <2>p. Core(p, mk, sq, h) /\ p.state \in {c.state, Nobody} /\ Waiting(p, {n} \cup after, mk, sq, h)
    BY <2>5, <2>6
  <2>n. \A z \in after : n.seq < z.seq
    BY <2>7
  <2> HIDE DEF p, n, after
  <2>t. LET d == ChatMessage(p, n) IN
        Core(d, mk, sq, h) /\ d.state \in {p.state, Nobody} /\ Waiting(d, after, mk, sq, h)
    BY <2>p, <2>n, MessageTaken
  <2>8. Ok(ChatMessage(f[x - 1], ms[x]), x)
    BY <2>p, <2>t DEF p, n, after
  <2> HIDE DEF Ok
  <2> QED BY <1>1, <2>2, <2>4, <2>8
<1>4. Ok(f[Len(ms)], Len(ms))
  <2> HIDE DEF Ok
  <2> QED BY <1>3
<1>5. Left(Len(ms)) = later
  <2>1. (Len(ms) + 1)..Len(ms) = {}
    OBVIOUS
  <2> QED BY <2>1
<1> HIDE DEF Left
<1> QED BY <1>1, <1>4, <1>5

(* A session is told its membership: what it was told of another one goes, *)
(* and what waited is looked at.                                           *)
LEMMA StateTaken ==
    ASSUME NEW mk, NEW sq, NEW h, Past(mk, sq, h), NEW c, Core(c, mk, sq, h),
           NEW later, Waiting(c, later, mk, sq, h),
           NEW g \in 1..Len(mk), g >= h.gen, c.state # Nobody => g >= c.state
    PROVE  LET d == ApplyChatState(c, [gen |-> g, wm |-> mk[g]]) IN
           /\ Core(d, mk, sq, h) /\ d.state \in {g, Nobody}
           /\ Waiting(d, later, mk, sq, h)
<1> DEFINE m == [gen |-> g, wm |-> mk[g]]
           q == Qualified(c.notices, g)
           e == [c EXCEPT !.state = m.gen, !.buffered = <<>>,
                          !.watermark = IF c.state = m.gen THEN @ ELSE m.wm,
                          !.notices = Qualified(@, m.gen)]
<1>1. m # Nobody /\ g \in Nat /\ g > 0 /\ mk[g] \in Nat /\ mk[g] <= sq
  BY NobodyAssumption DEF Memberships, Past
<1>2. ApplyChatState(c, m) = Replay(e, c.buffered)
  BY <1>1 DEF ApplyChatState
<1>3. c \in Sess /\ c.notices \in Seq(Msgs \cup {Unav}) /\ g # Nobody
  BY <1>1, NobodyAssumption DEF Core, Sess
<1>4. /\ q \in Seq(Msgs \cup {Unav})
      /\ \/ c.state = g /\ q = c.notices
         \/ c.state # g /\ q \in {<<>>, <<Unav>>}
  <2>1. CASE c.state = g
    <3>1. \A i \in 1..Len(c.notices) : c.notices[i] = Unav \/ c.notices[i].gen = g
      BY <2>1 DEF Core, NoticeOk
    <3> QED BY <1>3, <2>1, <3>1, QualifiedSame
  <2>2. CASE c.state # g
    <3>1. \A i \in 1..Len(c.notices) :
            (c.notices[i] = Unav /\ i = 1) \/ (c.notices[i] \in Msgs /\ c.notices[i].gen # g)
      BY <2>2 DEF Core, NoticeOk
    <3>2. q \in {<<>>, <<Unav>>}
      BY <1>3, <3>1, QualifiedOther
    <3> HIDE DEF q
    <3>3. <<>> \in Seq(Msgs \cup {Unav}) /\ <<Unav>> \in Seq(Msgs \cup {Unav})
      OBVIOUS
    <3> QED BY <2>2, <3>2, <3>3
  <2> QED BY <2>1, <2>2
<1>5. /\ e \in Sess /\ e.state = g /\ e.buffered = <<>> /\ e.notices = q
      /\ e.watermark = IF c.state = g THEN c.watermark ELSE mk[g]
  <2>1. <<>> \in Seq(Msgs)
    OBVIOUS
  <2> HIDE DEF q
  <2>2. e = [c EXCEPT !.state = g, !.buffered = <<>>,
                      !.watermark = IF c.state = g THEN @ ELSE mk[g], !.notices = q]
    BY DEF q
  <2> HIDE DEF e
  <2> QED BY <1>1, <1>3, <1>4, <2>1, <2>2 DEF Sess
<1> HIDE DEF e, q, m
<1>6. Core(e, mk, sq, h) /\ \A n : After(c, n, mk, sq, h) => After(e, n, mk, sq, h)
  <2>1. CASE c.state = g
    <3>1. e.notices = c.notices /\ e.watermark = c.watermark /\ e.state = c.state
      BY <1>4, <1>5, <2>1
    <3>2. Live(e, mk, h) = Live(c, mk, h)
      BY <3>1 DEF Live, First
    <3>3. ActiveOk(c, mk, sq, h)
      BY <1>1, <1>3, <2>1 DEF Core
    <3>4. ActiveOk(e, mk, sq, h)
      BY <1>5, <3>1, <3>2, <3>3 DEF ActiveOk
    <3>5. \A i \in 1..Len(e.notices) : NoticeOk(e, i, mk, h)
      BY <3>1, <3>2 DEF Core, NoticeOk
    <3> QED BY <1>5, <3>1, <3>2, <3>4, <3>5 DEF Core, After
  <2>2. CASE c.state # g
    <3>1. e.watermark = mk[g] /\ e.notices \in {<<>>, <<Unav>>}
      BY <1>4, <1>5, <2>2
    <3>2. First(e) = Len(e.notices) /\ Len(e.notices) \in Nat
      <4>1. CASE e.notices = <<>>
        BY <4>1 DEF First
      <4>2. CASE e.notices = <<Unav>>
        BY <4>2 DEF First
      <4> QED BY <3>1, <4>1, <4>2
    <3>3. h.gen \in Nat /\ h.seq \in Nat /\ sq \in Nat /\ h.seq <= sq /\ (h.gen > 0 => h.seq > mk[h.gen])
      BY DEF Past
    <3>4. Live(e, mk, h) <=> (mk[g] = Base(g, mk, h))
      BY <1>1, <1>5, <3>1, <3>2, <3>3 DEF Live, Base
    <3>5. ~Live(e, mk, h) => h.gen = g /\ h.seq > mk[g]
      BY <1>1, <3>3, <3>4 DEF Base
    <3>6. ActiveOk(e, mk, sq, h)
      BY <1>1, <1>5, <3>1, <3>3, <3>5 DEF ActiveOk
    <3>7. \A i \in 1..Len(e.notices) : NoticeOk(e, i, mk, h)
      <4>1. CASE e.notices = <<>>
        BY <4>1
      <4>2. CASE e.notices = <<Unav>>
        <5>1. Len(e.notices) = 1 /\ e.notices[1] = Unav
          BY <4>2
        <5> QED BY <5>1 DEF NoticeOk
      <4> QED BY <3>1, <4>1, <4>2
    <3>8. \A n : After(c, n, mk, sq, h) => After(e, n, mk, sq, h)
      <4> SUFFICES ASSUME NEW n, After(c, n, mk, sq, h) PROVE After(e, n, mk, sq, h)
        OBVIOUS
      <4>1. /\ n \in Msgs /\ n.gen \in 1..Len(mk) /\ n.seq > mk[n.gen] /\ n.seq <= sq
            /\ n.gen = h.gen => n.seq > h.seq
        BY DEF After
      <4>2. n.gen = e.state => n.seq > e.watermark /\ (~Live(e, mk, h) => n.seq > e.watermark + 1)
        BY <1>1, <1>5, <3>1, <3>3, <3>5, <4>1 DEF Msgs
      <4> QED BY <4>1, <4>2 DEF After
    <3> QED BY <1>1, <1>5, <3>6, <3>7, <3>8 DEF Core
  <2> QED BY <2>1, <2>2
<1>7. LET d == Replay(e, c.buffered) IN
      Core(d, mk, sq, h) /\ d.state \in {e.state, Nobody} /\ Waiting(d, later, mk, sq, h)
  <2>1. /\ c.buffered \in Seq(Msgs) /\ Rising(c.buffered)
        /\ \A i \in 1..Len(c.buffered) : After(e, c.buffered[i], mk, sq, h)
        /\ \A n \in later : After(e, n, mk, sq, h)
        /\ \A i \in 1..Len(c.buffered) : \A n \in later : c.buffered[i].seq < n.seq
    BY <1>3, <1>6 DEF Waiting, Sess
  <2> QED BY <1>5, <1>6, <2>1, ReplayKeeps
<1> QED BY <1>2, <1>5, <1>7 DEF m

-----------------------------------------------------------------------------
(* The frames on the way to the client. *)
Outcome == {"accepted", "rejected", "unknown"}
States == [kind : {"state"}, id : Nat, member : Memberships \cup {Nobody}]
Answers == States \cup [kind : {"sent"}, id : Nat, outcome : Outcome] \cup [kind : {"ask"}, id : Nat]
Frames == Msgs \cup Answers \cup [kind : {"unavailable", "displaced"}]

Coming(s) == {s[i] : i \in {j \in 1..Len(s) : s[j].kind = "message"}}
Known(f) == f.kind = "state" /\ f.member # Nobody

(* A state names a membership no older than what the client knows of. *)
StateOk(f, state, mk, h) ==
    \E g \in 1..Len(mk) : /\ f.member = [gen |-> g, wm |-> mk[g]] /\ g >= h.gen
                          /\ state # Nobody => g >= state

InOrder(s) ==
    \A i, j \in 1..Len(s) : i < j =>
        /\ s[i].kind = "message" /\ s[j].kind = "message" => s[i].seq < s[j].seq
        /\ Known(s[i]) /\ Known(s[j]) => s[i].member.gen <= s[j].member.gen

StreamOk(c, s, mk, sq, h) ==
    /\ s \in Seq(Frames) /\ InOrder(s)
    /\ Waiting(c, Coming(s), mk, sq, h)
    /\ \A i \in 1..Len(s) : Known(s[i]) => StateOk(s[i], c.state, mk, h)

(* A frame is of one kind. *)
LEMMA Kinds ==
    ASSUME NEW f \in Frames
    PROVE  /\ f.kind = "message" <=> f \in Msgs
           /\ f.kind = "message" => f.seq \in Nat /\ f.gen \in Nat
           /\ f.kind \notin Notices <=> f \in Answers
           /\ f.kind = "state" => f \in States
           /\ Known(f) => f.member \in Memberships /\ f.member.gen \in Nat
<1>1. CASE f \in Msgs
  BY <1>1 DEF Msgs, Notices, Known, Answers, States
<1>2. CASE f \in States
  BY <1>2 DEF Msgs, Notices, Known, Answers, States, Memberships
<1>3. CASE f \in [kind : {"sent"}, id : Nat, outcome : Outcome]
  BY <1>3 DEF Msgs, Notices, Known, Answers, States
<1>4. CASE f \in [kind : {"ask"}, id : Nat]
  BY <1>4 DEF Msgs, Notices, Known, Answers, States
<1>5. CASE f \in [kind : {"unavailable", "displaced"}]
  BY <1>5 DEF Msgs, Notices, Known, Answers, States
<1> QED BY <1>1, <1>2, <1>3, <1>4, <1>5 DEF Frames, Answers

(* Frames are put behind the others. *)
LEMMA Pushed ==
    ASSUME NEW mk, NEW sq, NEW h, NEW c, NEW s, StreamOk(c, s, mk, sq, h),
           NEW t \in Seq(Frames), InOrder(t),
           \A i \in 1..Len(t) : t[i].kind = "message" =>
             /\ After(c, t[i], mk, sq, h)
             /\ \A n \in Coming(s) : n.seq < t[i].seq
             /\ \A k \in 1..Len(c.buffered) : c.buffered[k].seq < t[i].seq,
           \A i \in 1..Len(t) : Known(t[i]) =>
             /\ StateOk(t[i], c.state, mk, h)
             /\ \A j \in 1..Len(s) : Known(s[j]) => s[j].member.gen <= t[i].member.gen
    PROVE  StreamOk(c, s \o t, mk, sq, h)
<1> DEFINE u == s \o t
           m == Len(s)
           n == Len(t)
<1>1. s \in Seq(Frames) /\ InOrder(s)
  BY DEF StreamOk
<1>2. /\ u \in Seq(Frames) /\ m \in Nat /\ n \in Nat /\ Len(u) = m + n
      /\ \A i \in 1..Len(s) : u[i] = s[i]
      /\ \A i \in 1..Len(u) : i > m => u[i] = t[i - m] /\ i - m \in 1..Len(t)
  BY <1>1
<1> HIDE DEF u
<1>3. \A i \in 1..Len(u) : i \in 1..Len(s) \/ (i > m /\ i - m \in 1..Len(t))
  BY <1>2
<1>4. \A x \in Coming(u) : x \in Coming(s) \/ \E i \in 1..Len(t) : x = t[i] /\ x.kind = "message"
  <2> SUFFICES ASSUME NEW i \in 1..Len(u), u[i].kind = "message"
               PROVE u[i] \in Coming(s) \/ \E k \in 1..Len(t) : u[i] = t[k] /\ u[i].kind = "message"
    BY DEF Coming
  <2>1. CASE i \in 1..Len(s)
    BY <1>2, <2>1 DEF Coming
  <2>2. CASE i > m /\ i - m \in 1..Len(t)
    BY <1>2, <2>2
  <2> QED BY <1>3, <2>1, <2>2
<1>5. InOrder(u)
  <2> SUFFICES ASSUME NEW i \in 1..Len(u), NEW j \in 1..Len(u), i < j
               PROVE /\ u[i].kind = "message" /\ u[j].kind = "message" => u[i].seq < u[j].seq
                     /\ Known(u[i]) /\ Known(u[j]) => u[i].member.gen <= u[j].member.gen
    BY DEF InOrder
  <2>1. CASE j \in 1..Len(s)
    <3>1. i \in 1..Len(s)
      BY <1>2, <2>1
    <3> QED BY <1>1, <1>2, <2>1, <3>1 DEF InOrder
  <2>2. CASE i \in 1..Len(s) /\ j > m /\ j - m \in 1..Len(t)
    <3>1. u[i] = s[i] /\ u[j] = t[j - m]
      BY <1>2, <2>2
    <3>2. s[i].kind = "message" => s[i] \in Coming(s)
      BY <2>2 DEF Coming
    <3> QED BY <2>2, <3>1, <3>2
  <2>3. CASE i > m /\ i - m \in 1..Len(t) /\ j > m /\ j - m \in 1..Len(t)
    <3>1. u[i] = t[i - m] /\ u[j] = t[j - m] /\ i - m < j - m
      BY <1>2, <2>3
    <3> QED BY <2>3, <3>1 DEF InOrder
  <2>4. i \in 1..Len(s) \/ j \notin 1..Len(s)
    BY <1>2
  <2> QED BY <1>3, <2>1, <2>2, <2>3, <2>4
<1>6. Waiting(c, Coming(u), mk, sq, h)
  <2>1. Waiting(c, Coming(s), mk, sq, h)
    BY DEF StreamOk
  <2> QED BY <1>4, <2>1 DEF Waiting
<1>7. \A i \in 1..Len(u) : Known(u[i]) => StateOk(u[i], c.state, mk, h)
  <2> SUFFICES ASSUME NEW i \in 1..Len(u), Known(u[i]) PROVE StateOk(u[i], c.state, mk, h)
    OBVIOUS
  <2>1. CASE i \in 1..Len(s)
    BY <1>2, <2>1 DEF StreamOk
  <2>2. CASE i > m /\ i - m \in 1..Len(t)
    BY <1>2, <2>2
  <2> QED BY <1>3, <2>1, <2>2
<1> QED BY <1>2, <1>5, <1>6, <1>7 DEF StreamOk, u

(* Frames that are neither messages nor tell a membership. *)
LEMMA PushedOther ==
    ASSUME NEW mk, NEW sq, NEW h, NEW c, NEW s, StreamOk(c, s, mk, sq, h),
           NEW t \in Seq(Frames), \A i \in 1..Len(t) : t[i].kind # "message" /\ ~Known(t[i])
    PROVE  StreamOk(c, s \o t, mk, sq, h)
<1>1. InOrder(t)
  BY DEF InOrder
<1> QED BY <1>1, Pushed

(* The first frame is taken. *)
LEMMA Shorter ==
    ASSUME NEW mk, NEW sq, NEW h, NEW c, NEW s, StreamOk(c, s, mk, sq, h), s # <<>>
    PROVE  /\ StreamOk(c, Tail(s), mk, sq, h)
           /\ Head(s) \in Frames /\ Head(s) = s[1] /\ 1 \in 1..Len(s)
           /\ Head(s).kind = "message" =>
                /\ Waiting(c, {Head(s)} \cup Coming(Tail(s)), mk, sq, h)
                /\ \A n \in Coming(Tail(s)) : Head(s).seq < n.seq
           /\ \A i \in 1..Len(Tail(s)) : Known(Head(s)) /\ Known(Tail(s)[i]) =>
                Head(s).member.gen <= Tail(s)[i].member.gen
<1> DEFINE t == Tail(s)
           f == Head(s)
<1>1. s \in Seq(Frames) /\ InOrder(s)
  BY DEF StreamOk
<1>2. /\ t \in Seq(Frames) /\ Len(t) = Len(s) - 1 /\ Len(s) \in Nat /\ f \in Frames /\ f = s[1]
      /\ 1 \in 1..Len(s)
      /\ \A i \in 1..Len(t) : t[i] = s[i + 1] /\ i + 1 \in 1..Len(s)
  BY <1>1
<1> HIDE DEF t, f
<1>3. Coming(t) \subseteq Coming(s) /\ (f.kind = "message" => f \in Coming(s))
  BY <1>2 DEF Coming
<1>4. InOrder(t)
  <2> SUFFICES ASSUME NEW i \in 1..Len(t), NEW j \in 1..Len(t), i < j
               PROVE /\ t[i].kind = "message" /\ t[j].kind = "message" => t[i].seq < t[j].seq
                     /\ Known(t[i]) /\ Known(t[j]) => t[i].member.gen <= t[j].member.gen
    BY DEF InOrder
  <2>1. i + 1 < j + 1
    BY <1>2
  <2> QED BY <1>1, <1>2, <2>1 DEF InOrder
<1>5. Waiting(c, Coming(s), mk, sq, h)
  BY DEF StreamOk
<1>6. StreamOk(c, t, mk, sq, h)
  <2>1. Waiting(c, Coming(t), mk, sq, h)
    BY <1>3, <1>5 DEF Waiting
  <2>2. \A i \in 1..Len(t) : Known(t[i]) => StateOk(t[i], c.state, mk, h)
    BY <1>2 DEF StreamOk
  <2> QED BY <1>2, <1>4, <2>1, <2>2 DEF StreamOk
<1>7. ASSUME f.kind = "message"
      PROVE  /\ Waiting(c, {f} \cup Coming(t), mk, sq, h)
             /\ \A n \in Coming(t) : f.seq < n.seq
  <2>1. Waiting(c, {f} \cup Coming(t), mk, sq, h)
    BY <1>3, <1>5, <1>7 DEF Waiting
  <2>2. ASSUME NEW i \in 1..Len(t), t[i].kind = "message" PROVE f.seq < t[i].seq
    <3>1. 1 < i + 1
      BY <1>2
    <3> QED BY <1>1, <1>2, <1>7, <2>2, <3>1 DEF InOrder
  <2> QED BY <2>1, <2>2 DEF Coming
<1>8. ASSUME NEW i \in 1..Len(t), Known(f), Known(t[i]) PROVE f.member.gen <= t[i].member.gen
  <2>1. 1 < i + 1
    BY <1>2
  <2> QED BY <1>1, <1>2, <1>8, <2>1 DEF InOrder
<1> QED BY <1>2, <1>6, <1>7, <1>8 DEF t, f

-----------------------------------------------------------------------------
(* A membership begins. *)
LEMMA JoinKeeps ==
    ASSUME NEW mk, NEW sq, NEW h, Past(mk, sq, h), NEW c, Core(c, mk, sq, h),
           NEW s, StreamOk(c, s, mk, sq, h), NEW nk, nk = Append(mk, sq)
    PROVE  Past(nk, sq, h) /\ Core(c, nk, sq, h) /\ StreamOk(c, s, nk, sq, h)
<1>1. mk \in Seq(Nat) /\ sq \in Nat /\ h.gen \in Nat
  BY DEF Past
<1>2. /\ nk \in Seq(Nat) /\ Len(nk) = Len(mk) + 1 /\ Len(mk) \in Nat /\ nk[Len(nk)] = sq
      /\ \A i \in 1..Len(mk) : nk[i] = mk[i] /\ i \in 1..Len(nk)
      /\ \A i \in 1..Len(nk) : i \in 1..Len(mk) \/ i = Len(nk)
  BY <1>1
<1>3. Past(nk, sq, h)
  <2>1. h.gen > 0 => h.gen \in 1..Len(mk)
    BY <1>1, <1>2 DEF Past
  <2> QED BY <1>2, <2>1 DEF Past
<1>4. \A g \in 1..Len(mk) : Base(g, nk, h) = Base(g, mk, h)
  BY <1>2 DEF Base
<1>5. c \in Sess
  BY DEF Core
<1>6. c.state # Nobody => c.state \in 1..Len(mk)
  BY DEF Core, ActiveOk
<1>7. c.state # Nobody => Live(c, nk, h) = Live(c, mk, h)
  BY <1>4, <1>6 DEF Live
<1>8. Core(c, nk, sq, h)
  <2>1. \A i \in 1..Len(c.notices) : NoticeOk(c, i, nk, h)
    BY <1>7 DEF Core, NoticeOk
  <2>2. c.state # Nobody => ActiveOk(c, nk, sq, h)
    BY <1>2, <1>6, <1>7 DEF Core, ActiveOk
  <2> QED BY <2>1, <2>2 DEF Core
<1>9. ASSUME NEW n, After(c, n, mk, sq, h) PROVE After(c, n, nk, sq, h)
  <2>1. n.gen \in Nat /\ n.gen \in 1..Len(mk)
    BY <1>9 DEF After, Msgs
  <2>2. n.gen # Nobody
    BY <2>1, NobodyAssumption
  <2> QED BY <1>2, <1>7, <1>9, <2>1, <2>2 DEF After
<1>10. Waiting(c, Coming(s), nk, sq, h)
  <2>1. Waiting(c, Coming(s), mk, sq, h)
    BY DEF StreamOk
  <2> QED BY <1>9, <2>1 DEF Waiting
<1>11. ASSUME NEW f, StateOk(f, c.state, mk, h) PROVE StateOk(f, c.state, nk, h)
  BY <1>2, <1>11 DEF StateOk
<1> QED BY <1>3, <1>8, <1>10, <1>11 DEF StreamOk

(* The channel goes on. *)
LEMMA NextKeeps ==
    ASSUME NEW mk, NEW sq, NEW h, Past(mk, sq, h), NEW c, Core(c, mk, sq, h),
           NEW s, StreamOk(c, s, mk, sq, h)
    PROVE  Past(mk, sq + 1, h) /\ Core(c, mk, sq + 1, h) /\ StreamOk(c, s, mk, sq + 1, h)
<1>1. sq \in Nat /\ h.seq \in Nat
  BY DEF Past
<1>2. Past(mk, sq + 1, h)
  <2>1. \A i \in 1..Len(mk) : mk[i] \in Nat /\ mk[i] <= sq + 1
    BY <1>1 DEF Past
  <2> QED BY <1>1, <2>1 DEF Past
<1>3. c \in Sess
  BY DEF Core
<1>4. Core(c, mk, sq + 1, h)
  <2>1. c.watermark \in Nat
    BY <1>3 DEF Sess
  <2> QED BY <1>1, <2>1 DEF Core, ActiveOk
<1>5. ASSUME NEW n, After(c, n, mk, sq, h) PROVE After(c, n, mk, sq + 1, h)
  <2>1. n.seq \in Nat
    BY <1>5 DEF After, Msgs
  <2> QED BY <1>1, <1>5, <2>1 DEF After
<1>6. Waiting(c, Coming(s), mk, sq + 1, h)
  <2>1. Waiting(c, Coming(s), mk, sq, h)
    BY DEF StreamOk
  <2> QED BY <1>5, <2>1 DEF Waiting
<1> QED BY <1>2, <1>4, <1>6 DEF StreamOk

(* The next message of the channel, for the membership that is. *)
LEMMA Newest ==
    ASSUME NEW mk, NEW sq, NEW h, Past(mk, sq, h), NEW c, Core(c, mk, sq, h),
           NEW s, StreamOk(c, s, mk, sq, h), Len(mk) > 0,
           NEW m, m = [kind |-> "message", gen |-> Len(mk), seq |-> sq + 1],
           NEW t \in Seq(Frames), \A i \in 1..Len(t) : t[i] = m \/ (t[i].kind # "message" /\ ~Known(t[i])),
           \A i, j \in 1..Len(t) : t[i] = m /\ t[j] = m => i = j
    PROVE  Past(mk, sq + 1, h) /\ Core(c, mk, sq + 1, h) /\ StreamOk(c, s \o t, mk, sq + 1, h)
<1>1. Past(mk, sq + 1, h) /\ Core(c, mk, sq + 1, h) /\ StreamOk(c, s, mk, sq + 1, h)
  BY NextKeeps
<1>2. /\ mk \in Seq(Nat) /\ sq \in Nat /\ h \in [gen : Nat, seq : Nat] /\ h.seq <= sq /\ h.gen <= Len(mk)
      /\ Len(mk) \in 1..Len(mk) /\ Len(mk) \in Nat /\ mk[Len(mk)] \in Nat /\ mk[Len(mk)] <= sq
  BY DEF Past
<1>3. m \in Msgs /\ m.kind = "message" /\ m.gen = Len(mk) /\ m.seq = sq + 1 /\ ~Known(m)
  BY <1>2 DEF Msgs, Known
<1>4. After(c, m, mk, sq + 1, h)
  <2>1. c \in Sess
    BY DEF Core
  <2>2. c.watermark \in Nat
    BY <2>1 DEF Sess
  <2>3. m.gen = c.state => c.state # Nobody
    BY <1>2, <1>3, NobodyAssumption
  <2>4. m.gen = c.state => c.watermark <= sq /\ (~Live(c, mk, h) => c.watermark < sq)
    BY <2>3 DEF Core, ActiveOk
  <2> QED BY <1>2, <1>3, <2>2, <2>4 DEF After
<1>5. \A n : After(c, n, mk, sq, h) => n.seq < m.seq
  <2> SUFFICES ASSUME NEW n, After(c, n, mk, sq, h) PROVE n.seq < m.seq
    OBVIOUS
  <2>1. n.seq \in Nat /\ n.seq <= sq
    BY DEF After, Msgs
  <2> QED BY <1>2, <1>3, <2>1
<1>6. /\ \A n \in Coming(s) : n.seq < m.seq
      /\ \A k \in 1..Len(c.buffered) : c.buffered[k].seq < m.seq
  BY <1>5 DEF StreamOk, Waiting
<1>7. InOrder(t)
  <2> SUFFICES ASSUME NEW i \in 1..Len(t), NEW j \in 1..Len(t), i < j
               PROVE /\ t[i].kind = "message" /\ t[j].kind = "message" => t[i].seq < t[j].seq
                     /\ Known(t[i]) /\ Known(t[j]) => t[i].member.gen <= t[j].member.gen
    BY DEF InOrder
  <2>1. ~(t[i] = m /\ t[j] = m)
    OBVIOUS
  <2> QED BY <1>3, <2>1
<1> QED BY <1>1, <1>3, <1>4, <1>6, <1>7, Pushed

(* The session is another one, that knows no other membership than before. *)
LEMMA SameStates ==
    ASSUME NEW mk, NEW sq, NEW h, NEW c, NEW s, StreamOk(c, s, mk, sq, h),
           NEW d, d.state \in {c.state, Nobody}, Waiting(d, Coming(s), mk, sq, h)
    PROVE  StreamOk(d, s, mk, sq, h)
BY DEF StreamOk, StateOk

(* A session without a membership, with what it has told of the last one, is as good. *)
LEMMA SilentKeeps ==
    ASSUME NEW mk, NEW sq, NEW h, NEW c, NEW s, StreamOk(c, s, mk, sq, h),
           NEW d \in Sess, d.state = Nobody, d.notices = <<>> \/ d.notices = <<Unav>>, d.buffered = <<>>
    PROVE  Core(d, mk, sq, h) /\ StreamOk(d, s, mk, sq, h)
<1>1. Core(d, mk, sq, h) /\ \A m : After(c, m, mk, sq, h) => After(d, m, mk, sq, h)
  BY Silent
<1>2. Waiting(d, Coming(s), mk, sq, h)
  <2>1. Waiting(c, Coming(s), mk, sq, h)
    BY DEF StreamOk
  <2> QED BY <1>1, <2>1 DEF Waiting, Rising
<1> QED BY <1>1, <1>2, SameStates

(* A frame that nobody asked for. *)
LEMMA NoticeKeeps ==
    ASSUME NEW mk, NEW sq, NEW h, Past(mk, sq, h), NEW c, Core(c, mk, sq, h),
           NEW s, StreamOk(c, s, mk, sq, h), s # <<>>, Head(s).kind \in Notices
    PROVE  LET d == Notice(c, Head(s)) IN
           Core(d, mk, sq, h) /\ StreamOk(d, Tail(s), mk, sq, h)
<1> DEFINE f == Head(s)
           t == Tail(s)
<1>1. /\ StreamOk(c, t, mk, sq, h)
      /\ f.kind = "message" => /\ Waiting(c, {f} \cup Coming(t), mk, sq, h)
                               /\ \A n \in Coming(t) : f.seq < n.seq
  BY Shorter
<1>2. c \in Sess
  BY DEF Core
<1> HIDE DEF f, t
<1>3. CASE f.kind = "message"
  <2> DEFINE d == ChatMessage(c, f)
  <2>1. Core(d, mk, sq, h) /\ d.state \in {c.state, Nobody} /\ Waiting(d, Coming(t), mk, sq, h)
    BY <1>1, <1>3, MessageTaken
  <2>2. Notice(c, f) = d
    BY <1>3 DEF Notice
  <2> HIDE DEF d
  <2>3. StreamOk(d, t, mk, sq, h)
    BY <1>1, <2>1, SameStates
  <2> QED BY <2>1, <2>2, <2>3 DEF f, t
<1>4. CASE f.kind = "unavailable"
  <2> DEFINE d == Unavailable(c)
  <2>1. d \in Sess /\ d.state = Nobody /\ d.buffered = <<>> /\ (d.notices = <<>> \/ d.notices = <<Unav>>)
    BY <1>2, UnavailableIs
  <2>2. Notice(c, f) = d
    BY <1>4 DEF Notice
  <2> HIDE DEF d
  <2> QED BY <1>1, <2>1, <2>2, SilentKeeps DEF f, t
<1>5. CASE f.kind = "displaced"
  <2>1. Notice(c, f) = Shut
    BY <1>5 DEF Notice
  <2> QED BY <1>1, <2>1, ShutIs, SilentKeeps DEF f, t
<1> QED BY <1>3, <1>4, <1>5 DEF Notices, f

(* The answer that tells the membership. *)
LEMMA StateKeeps ==
    ASSUME NEW mk, NEW sq, NEW h, Past(mk, sq, h), NEW c, Core(c, mk, sq, h),
           NEW s, StreamOk(c, s, mk, sq, h), s # <<>>, Head(s).kind = "state"
    PROVE  LET d == ApplyChatState(c, Head(s).member) IN
           Core(d, mk, sq, h) /\ StreamOk(d, Tail(s), mk, sq, h)
<1> DEFINE f == Head(s)
           t == Tail(s)
<1>1. /\ StreamOk(c, t, mk, sq, h) /\ f = s[1] /\ 1 \in 1..Len(s)
      /\ \A i \in 1..Len(t) : Known(f) /\ Known(t[i]) => f.member.gen <= t[i].member.gen
  BY Shorter
<1> HIDE DEF f, t
<1>2. CASE f.member = Nobody
  <2>1. ApplyChatState(c, f.member) = c
    BY <1>2 DEF ApplyChatState
  <2> QED BY <1>1, <2>1 DEF f, t
<1>3. CASE f.member # Nobody
  <2>1. Known(f)
    BY <1>3 DEF Known, f
  <2>2. PICK g \in 1..Len(mk) : f.member = [gen |-> g, wm |-> mk[g]] /\ g >= h.gen
                                /\ (c.state # Nobody => g >= c.state)
    BY <1>1, <2>1 DEF StreamOk, StateOk
  <2> DEFINE d == ApplyChatState(c, [gen |-> g, wm |-> mk[g]])
  <2>3. Core(d, mk, sq, h) /\ d.state \in {g, Nobody} /\ Waiting(d, Coming(t), mk, sq, h)
    <3>1. Waiting(c, Coming(t), mk, sq, h)
      BY <1>1 DEF StreamOk
    <3> QED BY <2>2, <3>1, StateTaken
  <2>4. d = ApplyChatState(c, f.member)
    BY <2>2
  <2> HIDE DEF d
  <2>5. ASSUME NEW i \in 1..Len(t), Known(t[i]) PROVE StateOk(t[i], d.state, mk, h)
    <3>1. PICK k \in 1..Len(mk) : t[i].member = [gen |-> k, wm |-> mk[k]] /\ k >= h.gen
      BY <1>1, <2>5 DEF StreamOk, StateOk
    <3>2. g <= k
      BY <1>1, <2>1, <2>2, <2>5, <3>1
    <3> QED BY <2>3, <3>1, <3>2 DEF StateOk
  <2>6. StreamOk(d, t, mk, sq, h)
    BY <1>1, <2>3, <2>5 DEF StreamOk
  <2> QED BY <2>3, <2>4, <2>6 DEF f, t
<1> QED BY <1>2, <1>3

-----------------------------------------------------------------------------
(* The stream of a session that is closed. *)
LEMMA NoStream ==
    ASSUME NEW mk, NEW sq, NEW h, NEW c, NEW s, StreamOk(c, s, mk, sq, h)
    PROVE  StreamOk(c, <<>>, mk, sq, h)
<1>1. <<>> \in Seq(Frames) /\ Len(<<>>) = 0 /\ 1..0 = {}
  OBVIOUS
<1>2. Coming(<<>>) = {} /\ InOrder(<<>>)
  BY <1>1 DEF Coming, InOrder
<1>3. Waiting(c, Coming(<<>>), mk, sq, h)
  BY <1>2 DEF StreamOk, Waiting
<1> QED BY <1>1, <1>2, <1>3 DEF StreamOk

(* The application is given the next notice. *)
LEMMA PollKeeps ==
    ASSUME NEW mk, NEW sq, NEW h, Past(mk, sq, h), NEW c, Core(c, mk, sq, h),
           NEW s, StreamOk(c, s, mk, sq, h), c.notices # <<>>,
           NEW n, n = Head(c.notices),
           NEW k, k = IF n.kind = "unavailable" THEN h ELSE [gen |-> n.gen, seq |-> n.seq],
           NEW d, d = [c EXCEPT !.notices = Tail(@)]
    PROVE  /\ Past(mk, sq, k) /\ Core(d, mk, sq, k) /\ StreamOk(d, s, mk, sq, k)
           /\ n.kind # "unavailable" =>
                ~(n.gen < h.gen \/ n.seq # 1 + (IF n.gen = h.gen THEN h.seq ELSE mk[n.gen]))
<1> DEFINE T == Msgs \cup {Unav}
           t == Tail(c.notices)
           l == Len(c.notices)
<1>1. c \in Sess /\ c.notices \in Seq(T)
  BY DEF Core, Sess
<1>2. Unav \notin Msgs /\ \A m \in Msgs : m.kind # "unavailable"
  BY DEF Unav, Msgs
<1> HIDE DEF T
<1>3. /\ t \in Seq(T) /\ l \in Nat /\ l > 0 /\ Len(t) = l - 1 /\ n = c.notices[1] /\ n \in T
      /\ 1 \in 1..l
      /\ \A i \in 1..Len(t) : t[i] = c.notices[i + 1] /\ i + 1 \in 1..l /\ i + 1 # 1 /\ i \in Nat
  BY <1>1
<1> HIDE DEF t, l
<1>4. /\ d \in Sess /\ d.notices = t /\ d.state = c.state /\ d.buffered = c.buffered
      /\ d.watermark = c.watermark
  <2>1. d = [c EXCEPT !.notices = t]
    BY DEF t
  <2> QED BY <1>1, <1>3, <2>1 DEF Sess, T
<1>5. First(d) = 0
  <2>1. CASE t = <<>>
    BY <1>4, <2>1 DEF First
  <2>2. CASE t # <<>>
    <3>1. 1 \in 1..Len(t)
      BY <1>3, <2>2
    <3>2. t[1] # Unav
      BY <1>2, <1>3, <3>1 DEF Core, NoticeOk, l
    <3> QED BY <1>4, <3>2 DEF First
  <2> QED BY <2>1, <2>2
<1>6. First(c) = IF n = Unav THEN 1 ELSE 0
  BY <1>3 DEF First, l
<1>7. c.watermark \in Nat /\ (c.state # Nobody => c.state \in 1..Len(mk))
  BY <1>1 DEF Sess, Core, ActiveOk
<1>p. /\ mk \in Seq(Nat) /\ sq \in Nat /\ h \in [gen : Nat, seq : Nat] /\ h.gen <= Len(mk) /\ h.seq <= sq
      /\ h.gen > 0 => h.seq > mk[h.gen]
  BY DEF Past
<1>8. c.state # Nobody => Base(c.state, mk, h) \in Nat /\ Base(c.state, mk, h) >= mk[c.state] /\ mk[c.state] \in Nat
  BY <1>7, <1>p DEF Base
<1>9. CASE n = Unav
  <2>1. k = h /\ n.kind = "unavailable"
    BY <1>9 DEF Unav
  <2>2. c.state # Nobody => Live(d, mk, h) = Live(c, mk, h)
    BY <1>3, <1>4, <1>5, <1>6, <1>7, <1>8, <1>9 DEF Live, l
  <2>3. \A i \in 1..Len(t) : NoticeOk(d, i, mk, h)
    <3> SUFFICES ASSUME NEW i \in 1..Len(t) PROVE NoticeOk(d, i, mk, h)
      OBVIOUS
    <3>1. NoticeOk(c, i + 1, mk, h) /\ t[i] = c.notices[i + 1] /\ i + 1 # 1
      BY <1>3 DEF Core, l
    <3>2. l - (i + 1) = Len(t) - i
      BY <1>3
    <3> QED BY <1>4, <2>2, <3>1, <3>2 DEF NoticeOk, l
  <2>4. c.state # Nobody => ActiveOk(d, mk, sq, h)
    BY <1>4, <2>2 DEF Core, ActiveOk
  <2>5. Core(d, mk, sq, h)
    BY <1>4, <2>3, <2>4 DEF Core
  <2>6. ASSUME NEW m, After(c, m, mk, sq, h) PROVE After(d, m, mk, sq, h)
    <3>1. m.gen = c.state => c.state # Nobody
      BY <2>6, NobodyAssumption DEF After, Msgs
    <3> QED BY <1>4, <2>2, <2>6, <3>1 DEF After
  <2>7. StreamOk(d, s, mk, sq, h)
    <3>1. Waiting(d, Coming(s), mk, sq, h)
      <4>1. Waiting(c, Coming(s), mk, sq, h)
        BY DEF StreamOk
      <4> QED BY <1>4, <2>6, <4>1 DEF Waiting
    <3> QED BY <1>4, <3>1 DEF StreamOk
  <2> QED BY <2>1, <2>5, <2>7
<1>10. CASE n # Unav
  <2>1. n \in Msgs /\ n.kind = "message" /\ n.gen \in Nat /\ n.seq \in Nat
    BY <1>3, <1>10 DEF T, Msgs
  <2>2. /\ c.state # Nobody /\ n.gen = c.state /\ n.seq = c.watermark - (l - 1) /\ Live(c, mk, h)
    BY <1>3, <1>10 DEF Core, NoticeOk, l
  <2>3. n.seq = Base(c.state, mk, h) + 1
    BY <1>3, <1>6, <1>7, <1>8, <1>10, <2>2 DEF Live, l
  <2>4. k = [gen |-> n.gen, seq |-> n.seq] /\ k.gen = c.state /\ k.seq = n.seq
    BY <2>1, <2>2
  <2>5. ActiveOk(c, mk, sq, h)
    BY <2>2 DEF Core
  <2>6. n.seq <= c.watermark /\ n.seq > mk[c.state] /\ c.watermark <= sq
    BY <1>3, <1>7, <1>8, <2>2, <2>3, <2>5 DEF ActiveOk
  <2>7. Past(mk, sq, k)
    <3>1. c.state \in Nat /\ c.state <= Len(mk)
      BY <1>7, <1>p, <2>2
    <3>2. k \in [gen : Nat, seq : Nat]
      BY <2>1, <2>4
    <3>3. k.seq <= sq
      BY <1>7, <1>p, <2>1, <2>4, <2>6
    <3> QED BY <2>4, <2>6, <3>1, <3>2, <3>3 DEF Past
  <2>8. Live(d, mk, k)
    <3>1. Base(c.state, mk, k) = n.seq
      BY <2>4 DEF Base
    <3> QED BY <1>3, <1>4, <1>5, <1>7, <2>2, <3>1 DEF Live, l
  <2>9. \A i \in 1..Len(t) : NoticeOk(d, i, mk, k)
    <3> SUFFICES ASSUME NEW i \in 1..Len(t) PROVE NoticeOk(d, i, mk, k)
      OBVIOUS
    <3>1. NoticeOk(c, i + 1, mk, h) /\ t[i] = c.notices[i + 1] /\ i + 1 # 1
      BY <1>3 DEF Core, l
    <3>2. l - (i + 1) = Len(t) - i
      BY <1>3
    <3> QED BY <1>4, <2>8, <3>1, <3>2 DEF NoticeOk, l
  <2>10. Core(d, mk, sq, k)
    <3>1. ActiveOk(d, mk, sq, k)
      BY <1>4, <1>7, <1>p, <2>2, <2>4, <2>5, <2>8 DEF ActiveOk
    <3> QED BY <1>4, <2>9, <3>1 DEF Core
  <2>11. ASSUME NEW m, After(c, m, mk, sq, h) PROVE After(d, m, mk, sq, k)
    <3>1. m.seq \in Nat
      BY <2>11 DEF After, Msgs
    <3> QED BY <1>4, <1>7, <2>1, <2>4, <2>6, <2>8, <2>11, <3>1 DEF After
  <2>12. StreamOk(d, s, mk, sq, k)
    <3>1. Waiting(d, Coming(s), mk, sq, k)
      <4>1. Waiting(c, Coming(s), mk, sq, h)
        BY DEF StreamOk
      <4> QED BY <1>4, <2>11, <4>1 DEF Waiting
    <3>2. ASSUME NEW f, StateOk(f, c.state, mk, h) PROVE StateOk(f, d.state, mk, k)
      BY <1>4, <2>2, <2>4, <3>2 DEF StateOk
    <3> QED BY <3>1, <3>2 DEF StreamOk
  <2>13. ~(n.gen < h.gen \/ n.seq # 1 + (IF n.gen = h.gen THEN h.seq ELSE mk[n.gen]))
    <3>1. n.seq = 1 + Base(c.state, mk, h)
      BY <1>8, <2>2, <2>3
    <3>2. ~(n.gen < h.gen)
      BY <1>p, <2>1, <2>2, <2>5 DEF ActiveOk
    <3> QED BY <2>2, <3>1, <3>2 DEF Base
  <2> QED BY <2>7, <2>10, <2>12, <2>13
<1> QED BY <1>9, <1>10

-----------------------------------------------------------------------------
(* What was asked and is not answered yet: requests on their way, a send   *)
(* that is submitted.                                                      *)
Asked(rq, pd) == {rq[i] : i \in 1..Len(rq)} \cup pd

AnswerKind(k) == IF k = "send" THEN "sent" ELSE k

(* The call that waits: cl.  A request with its id is of its kind, and so  *)
(* is an answer.                                                           *)
CallOk(cl, nid) ==
    /\ nid \in Nat
    /\ cl # Nobody => cl \in Calls /\ cl.id < nid /\ (cl.kind = "send" => cl.send \in Sends)

RequestOk(r, cl, nid) ==
    r \in Calls /\ r.id < nid /\ (cl # Nobody /\ r.id = cl.id => r.kind = cl.kind)

AnswerOk(f, cl, nid) ==
    f.kind \notin Notices =>
      f.id \in Nat /\ f.id < nid /\ (cl # Nobody /\ f.id = cl.id => f.kind = AnswerKind(cl.kind))

(* The session. *)
RoomInv ==
    /\ Past(marks, seq, heard) /\ Core(chat, marks, seq, heard)
    /\ StreamOk(chat, stream, marks, seq, heard)
    /\ member # Nobody =>
         Len(marks) > 0 /\ member = [gen |-> Len(marks), wm |-> marks[Len(marks)]]
    /\ ~skipped

CallInv ==
    /\ CallOk(call, nextId)
    /\ requests \in Seq(Calls) /\ pending \subseteq Calls /\ \A r \in pending : r.kind = "send"
    /\ \A r \in Asked(requests, pending) : RequestOk(r, call, nextId)
    /\ \A i \in 1..Len(stream) : AnswerOk(stream[i], call, nextId)

SaidInv ==
    /\ sent # Nobody => sent \in Sends
    /\ said # Nobody => /\ said \in [send : Sends, outcome : Outcome]
                        /\ said.outcome = "unknown" => unknown = said.send

SessionInv == RoomInv /\ CallInv /\ SaidInv

(* What the stream brings, and what is asked, is typed. *)
LEMMA Typed ==
    ASSUME SessionInv
    PROVE  /\ stream \in Seq(Frames) /\ marks \in Seq(Nat) /\ seq \in Nat /\ chat \in Sess
           /\ requests \in Seq(Calls) /\ member \in Memberships \cup {Nobody}
<1>1. marks \in Seq(Nat) /\ seq \in Nat /\ chat \in Sess /\ stream \in Seq(Frames)
  BY DEF SessionInv, RoomInv, Past, Core, StreamOk
<1>2. member \in Memberships \cup {Nobody}
  BY <1>1 DEF SessionInv, RoomInv, Memberships
<1> QED BY <1>1, <1>2 DEF SessionInv, CallInv

(* The stream after some frames of it are gone, and others are put behind. *)
Of(s, t) == \A i \in 1..Len(s) : (\E j \in 1..Len(stream) : s[i] = stream[j])
                              \/ (\E j \in 1..Len(t) : s[i] = t[j])

LEMMA Streams ==
    ASSUME stream \in Seq(Frames), NEW t \in Seq(Frames)
    PROVE  /\ Of(stream, t) /\ Of(stream \o t, t) /\ Of(<<>>, t)
           /\ stream # <<>> => Of(Tail(stream), t)
<1>1. /\ \A i \in 1..Len(stream \o t) :
            \/ i \in 1..Len(stream) /\ (stream \o t)[i] = stream[i]
            \/ i - Len(stream) \in 1..Len(t) /\ (stream \o t)[i] = t[i - Len(stream)]
      /\ stream # <<>> =>
           \A i \in 1..Len(Tail(stream)) : Tail(stream)[i] = stream[i + 1] /\ i + 1 \in 1..Len(stream)
      /\ \A i \in 1..Len(<<>>) : FALSE
  OBVIOUS
<1> QED BY <1>1 DEF Of

LEMMA NoneBehind ==
    ASSUME SessionInv
    PROVE  /\ Of(stream, <<>>) /\ (stream # <<>> => Of(Tail(stream), <<>>))
           /\ \A i \in 1..Len(<<>>) : FALSE
<1>1. <<>> \in Seq(Frames) /\ \A i \in 1..Len(<<>>) : FALSE
  OBVIOUS
<1> QED BY <1>1, Typed, Streams

(* The call goes on, or ends; the realm has taken a request, or lost all;  *)
(* t is what it answers.                                                   *)
LEMMA CallKept ==
    ASSUME SessionInv, call' \in {call, Nobody}, nextId' = nextId,
           requests' \in Seq(Calls), pending' \subseteq Calls, \A r \in pending' : r.kind = "send",
           Asked(requests', pending') \subseteq Asked(requests, pending),
           NEW t, Of(stream', t), \A i \in 1..Len(t) : AnswerOk(t[i], call, nextId)
    PROVE  CallInv'
<1>1. CallInv
  BY DEF SessionInv
<1>2. CallOk(call', nextId)
  BY <1>1 DEF CallInv, CallOk
<1>3. ASSUME NEW r, RequestOk(r, call, nextId) PROVE RequestOk(r, call', nextId)
  BY <1>3 DEF RequestOk
<1>4. ASSUME NEW f, AnswerOk(f, call, nextId) PROVE AnswerOk(f, call', nextId)
  BY <1>4 DEF AnswerOk
<1>5. \A r \in Asked(requests', pending') : RequestOk(r, call', nextId)
  BY <1>1, <1>3 DEF CallInv
<1>6. \A i \in 1..Len(stream') : AnswerOk(stream'[i], call', nextId)
  BY <1>1, <1>4 DEF CallInv, Of
<1> QED BY <1>2, <1>5, <1>6 DEF CallInv

(* The realm asks nothing of the client: its frames leave the session be.  *)
LEMMA RoomKept ==
    ASSUME SessionInv, NEW t \in Seq(Frames), \A i \in 1..Len(t) : t[i].kind # "message" /\ ~Known(t[i]),
           stream' \in {stream, stream \o t}, seq' \in {seq, seq + 1}, member' \in {member, Nobody},
           UNCHANGED <<marks, chat, heard, skipped>>
    PROVE  RoomInv'
<1>1. RoomInv
  BY DEF SessionInv
<1>2. StreamOk(chat, stream', marks, seq, heard)
  BY <1>1, PushedOther DEF RoomInv
<1>3. Past(marks, seq', heard) /\ Core(chat, marks, seq', heard) /\ StreamOk(chat, stream', marks, seq', heard)
  <2>1. CASE seq' = seq
    BY <1>1, <1>2, <2>1 DEF RoomInv
  <2>2. CASE seq' = seq + 1
    <3> DEFINE s == stream'
    <3>1. StreamOk(chat, s, marks, seq, heard)
      BY <1>2
    <3> HIDE DEF s
    <3>2. Past(marks, seq + 1, heard) /\ Core(chat, marks, seq + 1, heard) /\ StreamOk(chat, s, marks, seq + 1, heard)
      BY <1>1, <3>1, NextKeeps DEF RoomInv
    <3> QED BY <2>2, <3>2 DEF s
  <2> QED BY <2>1, <2>2
<1> QED BY <1>1, <1>3 DEF RoomInv

(* The next message of the channel is pushed, behind an answer perhaps.    *)
LEMMA RoomTold ==
    ASSUME SessionInv, member # Nobody, NEW t \in Seq(Frames),
           \A i \in 1..Len(t) : t[i] = Message(seq + 1) \/ (t[i].kind # "message" /\ ~Known(t[i])),
           \A i, j \in 1..Len(t) : t[i] = Message(seq + 1) /\ t[j] = Message(seq + 1) => i = j,
           stream' = stream \o t, seq' = seq + 1, UNCHANGED <<member, marks, chat, heard, skipped>>
    PROVE  RoomInv'
<1>1. RoomInv
  BY DEF SessionInv
<1> DEFINE m == Message(seq + 1)
<1>2. Len(marks) > 0 /\ m = [kind |-> "message", gen |-> Len(marks), seq |-> seq + 1]
  <2>1. Len(marks) > 0 /\ member.gen = Len(marks)
    BY <1>1 DEF RoomInv
  <2> QED BY <2>1 DEF Message
<1>3. /\ \A i \in 1..Len(t) : t[i] = m \/ (t[i].kind # "message" /\ ~Known(t[i]))
      /\ \A i, j \in 1..Len(t) : t[i] = m /\ t[j] = m => i = j
  OBVIOUS
<1> HIDE DEF m
<1>4. Past(marks, seq + 1, heard) /\ Core(chat, marks, seq + 1, heard) /\ StreamOk(chat, stream \o t, marks, seq + 1, heard)
  <2>1. Past(marks, seq, heard) /\ Core(chat, marks, seq, heard) /\ StreamOk(chat, stream, marks, seq, heard)
    BY <1>1 DEF RoomInv
  <2> QED BY <1>2, <1>3, <2>1, Newest
<1> QED BY <1>1, <1>4 DEF RoomInv

(* An answer to what is asked. *)
LEMMA AnswerTo ==
    ASSUME CallInv, NEW r \in Asked(requests, pending), NEW f, f.id = r.id, f.kind = AnswerKind(r.kind)
    PROVE  AnswerOk(f, call, nextId) /\ r \in Calls /\ r.id \in Nat
<1>1. RequestOk(r, call, nextId)
  BY DEF CallInv
<1> QED BY <1>1 DEF RequestOk, AnswerOk, Calls

(* What the realm sends about a send. *)
LEMMA SentIs ==
    ASSUME CallInv, NEW r \in Asked(requests, pending), r.kind = "send", NEW outcome \in Outcome
    PROVE  LET f == Sent(r.id, outcome) IN
           f \in Frames /\ f.kind = "sent" /\ ~Known(f) /\ AnswerOk(f, call, nextId)
<1> DEFINE f == Sent(r.id, outcome)
<1>1. f.id = r.id /\ f.kind = "sent" /\ f.kind = AnswerKind(r.kind) /\ f.outcome = outcome
  BY DEF Sent, AnswerKind
<1>2. AnswerOk(f, call, nextId) /\ r.id \in Nat
  <2> HIDE DEF f
  <2> QED BY <1>1, AnswerTo
<1>3. f \in Frames
  BY <1>2 DEF Frames, Answers, Sent
<1> QED BY <1>1, <1>2, <1>3 DEF Known

(* A membership begins: the client does not know of it yet. *)
LEMMA JoinStep == ASSUME SessionInv, Join PROVE SessionInv'
<1>1. RoomInv /\ CallInv /\ SaidInv
  BY DEF SessionInv
<1>2. /\ marks' = Append(marks, seq) /\ member' = [gen |-> Len(marks) + 1, wm |-> seq]
      /\ UNCHANGED <<stream, requests, seq, pending, chat, call, nextId, sent, unknown, said,
                     heard, skipped>>
  BY DEF Join, caller, app
<1>3. Past(marks', seq, heard) /\ Core(chat, marks', seq, heard) /\ StreamOk(chat, stream, marks', seq, heard)
  BY <1>1, <1>2, JoinKeeps DEF RoomInv
<1>4. marks \in Seq(Nat) /\ seq \in Nat
  BY Typed
<1>5. Len(marks') > 0 /\ member' = [gen |-> Len(marks'), wm |-> marks'[Len(marks')]]
  BY <1>2, <1>4
<1>6. RoomInv'
  BY <1>1, <1>2, <1>3, <1>5 DEF RoomInv
<1>7. CallInv' /\ SaidInv'
  BY <1>1, <1>2 DEF CallInv, SaidInv
<1> QED BY <1>6, <1>7 DEF SessionInv

(* One ends, and the client is told or not. *)
LEMMA LeaveStep == ASSUME SessionInv, Leave PROVE SessionInv'
<1> DEFINE u == [kind |-> "unavailable"]
           t == <<u>>
<1>1. /\ member' = Nobody /\ stream' \in {stream, stream \o t}
      /\ UNCHANGED <<requests, seq, pending, marks, chat, call, nextId, sent, unknown, said, heard, skipped>>
  BY DEF Leave, caller, app, Push
<1>2. u \in Frames /\ u.kind \in Notices /\ u.kind # "message" /\ ~Known(u)
  BY DEF Frames, Notices, Known
<1> HIDE DEF u
<1>3. t \in Seq(Frames) /\ \A i \in 1..Len(t) : t[i] = u
  BY <1>2
<1> HIDE DEF t
<1>4. RoomInv'
  BY <1>1, <1>2, <1>3, RoomKept
<1>5. Of(stream', t) /\ \A i \in 1..Len(t) : AnswerOk(t[i], call, nextId)
  BY <1>1, <1>2, <1>3, Typed, Streams DEF AnswerOk
<1>6. CallInv'
  BY <1>1, <1>5, CallKept DEF SessionInv, CallInv
<1>7. SaidInv'
  BY <1>1 DEF SessionInv, SaidInv
<1> QED BY <1>4, <1>6, <1>7 DEF SessionInv

(* A message of another member, that may be lost. *)
LEMMA BroadcastStep == ASSUME SessionInv, Broadcast PROVE SessionInv'
<1> DEFINE m == Message(seq + 1)
           t == <<m>>
<1>1. /\ seq' = seq + 1
      /\ UNCHANGED <<requests, member, marks, pending, chat, call, nextId, sent, unknown, said, heard, skipped>>
      /\ (member # Nobody /\ stream' = stream \o t) \/ stream' = stream
  BY DEF Broadcast, caller, app, Push
<1>2. SaidInv'
  BY <1>1 DEF SessionInv, SaidInv
<1>3. CASE stream' = stream
  <2>1. RoomInv'
    <3>1. <<>> \in Seq(Frames) /\ \A i \in 1..Len(<<>>) : FALSE
      OBVIOUS
    <3> QED BY <1>1, <1>3, <3>1, RoomKept
  <2>2. CallInv'
    BY <1>1, <1>3 DEF SessionInv, CallInv
  <2> QED BY <1>2, <2>1, <2>2 DEF SessionInv
<1>4. CASE member # Nobody /\ stream' = stream \o t
  <2>1. m \in Frames /\ m.kind \in Notices
    <3>1. member \in Memberships /\ seq \in Nat
      BY <1>4, Typed
    <3>2. member.gen \in Nat
      BY <3>1 DEF Memberships
    <3> QED BY <3>1, <3>2 DEF Message, Frames, Msgs, Notices
  <2> HIDE DEF m
  <2>2. t \in Seq(Frames) /\ \A i \in 1..Len(t) : i = 1 /\ t[i] = m
    BY <2>1
  <2> HIDE DEF t
  <2>3. RoomInv'
    BY <1>1, <1>4, <2>2, RoomTold DEF m
  <2>4. Of(stream', t) /\ \A i \in 1..Len(t) : AnswerOk(t[i], call, nextId)
    BY <1>4, <2>1, <2>2, Typed, Streams DEF AnswerOk
  <2>5. CallInv'
    BY <1>1, <2>4, CallKept DEF SessionInv, CallInv
  <2> QED BY <1>2, <2>3, <2>5 DEF SessionInv
<1> QED BY <1>1, <1>3, <1>4

(* Another session of the account displaces this one. *)
LEMMA DisplaceStep == ASSUME SessionInv, Displace PROVE SessionInv'
<1> DEFINE u == [kind |-> "displaced"]
           t == <<u>>
<1>1. /\ stream' = stream \o t
      /\ UNCHANGED <<requests, member, marks, seq, pending, chat, call, nextId, sent, unknown, said,
                     heard, skipped>>
  BY DEF Displace, server, caller, app, Push
<1>2. u \in Frames /\ u.kind \in Notices /\ u.kind # "message" /\ ~Known(u)
  BY DEF Frames, Notices, Known
<1> HIDE DEF u
<1>3. t \in Seq(Frames) /\ \A i \in 1..Len(t) : t[i] = u
  BY <1>2
<1> HIDE DEF t
<1>4. RoomInv'
  BY <1>1, <1>2, <1>3, RoomKept
<1>5. Of(stream', t) /\ \A i \in 1..Len(t) : AnswerOk(t[i], call, nextId)
  BY <1>1, <1>2, <1>3, Typed, Streams DEF AnswerOk
<1>6. CallInv'
  BY <1>1, <1>5, CallKept DEF SessionInv, CallInv
<1>7. SaidInv'
  BY <1>1 DEF SessionInv, SaidInv
<1> QED BY <1>4, <1>6, <1>7 DEF SessionInv

(* The answer that tells the membership is behind those of earlier ones.   *)
LEMMA RoomKnown ==
    ASSUME SessionInv, NEW f \in Frames, f.kind = "state", f.member \in {member, Nobody},
           stream' = stream \o <<f>>, UNCHANGED <<member, marks, seq, chat, heard, skipped>>
    PROVE  RoomInv'
<1> DEFINE t == <<f>>
<1>1. RoomInv /\ stream \in Seq(Frames) /\ marks \in Seq(Nat)
  BY Typed DEF SessionInv
<1>2. t \in Seq(Frames) /\ Len(t) = 1 /\ \A i \in 1..Len(t) : i = 1 /\ t[i] = f
  OBVIOUS
<1>3. stream' = stream \o t
  OBVIOUS
<1> HIDE DEF t
<1>4. CASE ~Known(f)
  BY <1>2, <1>3, <1>4, RoomKept
<1>5. CASE Known(f)
  <2>1. Len(marks) \in 1..Len(marks) /\ f.member = [gen |-> Len(marks), wm |-> marks[Len(marks)]]
    BY <1>1, <1>5 DEF RoomInv, Known
  <2>2. heard.gen <= Len(marks) /\ heard.gen \in Nat /\ (chat.state # Nobody => chat.state \in 1..Len(marks))
    BY <1>1 DEF RoomInv, Past, Core, ActiveOk
  <2>3. StateOk(f, chat.state, marks, heard)
    BY <2>1, <2>2 DEF StateOk
  <2>4. ASSUME NEW j \in 1..Len(stream), Known(stream[j]) PROVE stream[j].member.gen <= f.member.gen
    <3>1. PICK g \in 1..Len(marks) : stream[j].member = [gen |-> g, wm |-> marks[g]]
      BY <1>1, <2>4 DEF RoomInv, StreamOk, StateOk
    <3> QED BY <2>1, <3>1
  <2>5. InOrder(t)
    BY <1>2 DEF InOrder
  <2>6. StreamOk(chat, stream \o t, marks, seq, heard)
    BY <1>1, <1>2, <2>3, <2>4, <2>5, Pushed DEF RoomInv
  <2> QED BY <1>1, <1>3, <2>6 DEF RoomInv
<1> QED BY <1>4, <1>5

(* The realm takes the first request. *)
LEMMA Taken ==
    ASSUME CallInv, requests # <<>>, NEW r, r = Head(requests)
    PROVE  /\ r \in Calls /\ r \in Asked(requests, pending) /\ Tail(requests) \in Seq(Calls)
           /\ Asked(Tail(requests), pending) \subseteq Asked(requests, pending)
           /\ Asked(Tail(requests), {r}) \subseteq Asked(requests, pending)
<1>1. requests \in Seq(Calls)
  BY DEF CallInv
<1> DEFINE t == Tail(requests)
<1>2. /\ r \in Calls /\ r = requests[1] /\ 1 \in 1..Len(requests) /\ t \in Seq(Calls)
      /\ \A i \in 1..Len(t) : t[i] = requests[i + 1] /\ i + 1 \in 1..Len(requests)
  BY <1>1
<1> HIDE DEF t
<1>3. r \in Asked(requests, pending)
  BY <1>2 DEF Asked
<1>4. \A x \in Asked(t, pending) \cup Asked(t, {r}) : x \in Asked(requests, pending)
  BY <1>2, <1>3 DEF Asked
<1> QED BY <1>2, <1>3, <1>4 DEF t

(* The realm serves the next request. *)
LEMMA ServeStep == ASSUME SessionInv, Serve PROVE SessionInv'
<1>1. CallInv
  BY DEF SessionInv
<1> DEFINE r == Head(requests)
           state(known) == [kind |-> "state", id |-> r.id, member |-> known]
           asked == [kind |-> "ask", id |-> r.id]
           sub == r.kind = "send" /\ pending' = {r} /\ stream' = stream
<1>2. /\ requests # <<>> /\ requests' = Tail(requests)
      /\ UNCHANGED <<member, marks, seq, chat, call, nextId, sent, unknown, said, heard, skipped>>
      /\ \/ UNCHANGED pending /\ r.kind = "state" /\ \E known \in {member, Nobody} : stream' = stream \o <<state(known)>>
         \/ UNCHANGED pending /\ r.kind = "send" /\ stream' = stream \o <<Sent(r.id, "rejected")>>
         \/ UNCHANGED pending /\ r.kind = "ask" /\ stream' = stream \o <<asked>>
         \/ sub
  BY DEF Serve, ServeState, ServeSend, caller, app, Push
<1>3. SaidInv'
  BY <1>2 DEF SessionInv, SaidInv
<1> HIDE DEF r
<1>4. /\ r \in Calls /\ r \in Asked(requests, pending) /\ requests' \in Seq(Calls) /\ r.id \in Nat
      /\ Asked(requests', pending) \subseteq Asked(requests, pending)
      /\ Asked(requests', {r}) \subseteq Asked(requests, pending)
  <2>1. r = Head(requests)
    BY DEF r
  <2>2. /\ r \in Calls /\ r \in Asked(requests, pending) /\ Tail(requests) \in Seq(Calls)
        /\ Asked(Tail(requests), pending) \subseteq Asked(requests, pending)
        /\ Asked(Tail(requests), {r}) \subseteq Asked(requests, pending)
    BY <1>1, <1>2, <2>1, Taken
  <2> QED BY <1>2, <2>2 DEF Calls
<1>5. ASSUME NEW f \in Frames, stream' = stream \o <<f>>, AnswerOk(f, call, nextId), UNCHANGED pending
      PROVE CallInv'
  <2> DEFINE t == <<f>>
  <2>1. t \in Seq(Frames) /\ \A i \in 1..Len(t) : t[i] = f
    OBVIOUS
  <2>2. stream' = stream \o t
    BY <1>5
  <2> HIDE DEF t
  <2>3. Of(stream', t) /\ \A i \in 1..Len(t) : AnswerOk(t[i], call, nextId)
    BY <1>5, <2>1, <2>2, Typed, Streams
  <2> QED BY <1>1, <1>2, <1>4, <1>5, <2>3, CallKept DEF CallInv
<1>6. ASSUME NEW f \in Frames, stream' = stream \o <<f>>, f.kind # "message", ~Known(f) PROVE RoomInv'
  <2> DEFINE t == <<f>>
  <2>1. t \in Seq(Frames) /\ \A i \in 1..Len(t) : t[i] = f
    OBVIOUS
  <2>2. stream' = stream \o t
    BY <1>6
  <2> HIDE DEF t
  <2> QED BY <1>2, <1>6, <2>1, <2>2, RoomKept
<1>7. ASSUME UNCHANGED pending, r.kind = "state", NEW known \in {member, Nobody}, stream' = stream \o <<state(known)>>
      PROVE SessionInv'
  <2> DEFINE f == state(known)
  <2>1. f \in Frames /\ f.id = r.id /\ f.kind = "state" /\ f.member = known /\ f.kind = AnswerKind(r.kind)
    <3>1. known \in Memberships \cup {Nobody}
      BY Typed
    <3> QED BY <1>4, <1>7, <3>1 DEF Frames, Answers, States, AnswerKind
  <2>2. stream' = stream \o <<f>>
    BY <1>7
  <2> HIDE DEF f
  <2>3. RoomInv'
    BY <1>2, <2>1, <2>2, RoomKnown
  <2>4. CallInv'
    BY <1>1, <1>4, <1>5, <1>7, <2>1, <2>2, AnswerTo
  <2> QED BY <1>3, <2>3, <2>4 DEF SessionInv
<1>8. CASE UNCHANGED pending /\ r.kind = "send" /\ stream' = stream \o <<Sent(r.id, "rejected")>>
  <2> DEFINE f == Sent(r.id, "rejected")
  <2>1. f \in Frames /\ f.kind = "sent" /\ ~Known(f) /\ AnswerOk(f, call, nextId)
    BY <1>1, <1>4, <1>8, SentIs DEF Outcome
  <2>2. stream' = stream \o <<f>>
    BY <1>8
  <2> HIDE DEF f
  <2>3. RoomInv' /\ CallInv'
    BY <1>5, <1>6, <1>8, <2>1, <2>2
  <2> QED BY <1>3, <2>3 DEF SessionInv
<1>9. CASE UNCHANGED pending /\ r.kind = "ask" /\ stream' = stream \o <<asked>>
  <2> DEFINE f == asked
  <2>1. f \in Frames /\ f.id = r.id /\ f.kind = "ask" /\ ~Known(f) /\ f.kind = AnswerKind(r.kind)
    BY <1>4, <1>9 DEF Frames, Answers, AnswerKind, Known
  <2>2. stream' = stream \o <<f>>
    BY <1>9
  <2> HIDE DEF f
  <2>3. AnswerOk(f, call, nextId)
    BY <1>1, <1>4, <2>1, AnswerTo
  <2>4. RoomInv' /\ CallInv'
    BY <1>5, <1>6, <1>9, <2>1, <2>2, <2>3
  <2> QED BY <1>3, <2>4 DEF SessionInv
<1>10. CASE sub
  <2>1. RoomInv'
    BY <1>2, <1>10 DEF SessionInv, RoomInv
  <2>2. Of(stream', <<>>) /\ \A i \in 1..Len(<<>>) : FALSE
    BY <1>10, NoneBehind
  <2>3. pending' \subseteq Calls /\ \A x \in pending' : x.kind = "send"
    BY <1>4, <1>10
  <2>4. CallInv'
    BY <1>2, <1>4, <1>10, <2>2, <2>3, CallKept
  <2> QED BY <1>3, <2>1, <2>4 DEF SessionInv
<1> HIDE DEF state, asked, sub
<1> QED BY <1>2, <1>7, <1>8, <1>9, <1>10

(* finish: the send is a message of the channel, or the membership ends, or neither. *)
LEMMA FinishStep == ASSUME SessionInv, Finish PROVE SessionInv'
<1>1. CallInv
  BY DEF SessionInv
<1>2. PICK r \in pending : \/ member # Nobody /\ Receipt(r) /\ UNCHANGED member
                           \/ NoReceipt(r) /\ member' = Nobody
  BY DEF Finish
<1>3. pending' = {} /\ UNCHANGED <<requests, marks, chat, call, nextId, sent, unknown, said, heard, skipped>>
  BY DEF Finish, caller, app
<1>4. SaidInv'
  BY <1>3 DEF SessionInv, SaidInv
<1>5. r \in Asked(requests, pending) /\ r.kind = "send" /\ Asked(requests', pending') \subseteq Asked(requests, pending)
  BY <1>1, <1>3 DEF CallInv, Asked
<1>6. \A outcome \in Outcome : LET f == Sent(r.id, outcome) IN
        f \in Frames /\ f.kind = "sent" /\ ~Known(f) /\ AnswerOk(f, call, nextId)
  BY <1>1, <1>5, SentIs
<1>7. ASSUME NEW t \in Seq(Frames), stream' = stream \o t, \A i \in 1..Len(t) : AnswerOk(t[i], call, nextId)
      PROVE CallInv'
  <2>1. Of(stream', t)
    BY <1>7, Typed, Streams
  <2> QED BY <1>1, <1>3, <1>5, <1>7, <2>1, CallKept DEF CallInv
<1> DEFINE m == Message(seq + 1)
           u == [kind |-> "unavailable"]
<1>8. ASSUME NEW outcome \in Outcome, member # Nobody,
             stream' = stream \o <<Sent(r.id, outcome), m>>, seq' = seq + 1, member' = member
      PROVE SessionInv'
  <2> DEFINE a == Sent(r.id, outcome)
             t == <<a, m>>
  <2>1. a \in Frames /\ a.kind = "sent" /\ ~Known(a) /\ AnswerOk(a, call, nextId)
    BY <1>6
  <2>2. m \in Frames /\ m.kind = "message" /\ m.kind \in Notices
    <3>1. member \in Memberships /\ seq \in Nat
      BY <1>8, Typed
    <3>2. member.gen \in Nat
      BY <3>1 DEF Memberships
    <3> QED BY <3>1, <3>2 DEF Message, Frames, Msgs, Notices
  <2>3. stream' = stream \o t
    BY <1>8
  <2> HIDE DEF a, m
  <2>4. /\ t \in Seq(Frames) /\ Len(t) = 2 /\ t[1] = a /\ t[2] = m /\ \A i \in 1..Len(t) : i = 1 \/ i = 2
    BY <2>1, <2>2
  <2> HIDE DEF t
  <2>5. \A i \in 1..Len(t) : AnswerOk(t[i], call, nextId)
    BY <2>1, <2>2, <2>4 DEF AnswerOk
  <2>6. /\ \A i \in 1..Len(t) : t[i] = Message(seq + 1) \/ (t[i].kind # "message" /\ ~Known(t[i]))
        /\ \A i, j \in 1..Len(t) : t[i] = Message(seq + 1) /\ t[j] = Message(seq + 1) => i = j
    BY <2>1, <2>2, <2>4 DEF m
  <2>7. RoomInv'
    BY <1>3, <1>8, <2>3, <2>4, <2>6, RoomTold
  <2>8. CallInv'
    BY <1>7, <2>3, <2>4, <2>5
  <2> QED BY <1>4, <2>7, <2>8 DEF SessionInv
<1>9. ASSUME NEW outcome \in Outcome, stream' \in {stream \o <<Sent(r.id, outcome)>>, stream \o <<Sent(r.id, outcome), u>>},
             seq' \in {seq, seq + 1}, member' \in {member, Nobody}
      PROVE SessionInv'
  <2> DEFINE a == Sent(r.id, outcome)
  <2>1. a \in Frames /\ a.kind = "sent" /\ ~Known(a) /\ AnswerOk(a, call, nextId)
    BY <1>6
  <2>2. u \in Frames /\ u.kind # "message" /\ u.kind \in Notices /\ ~Known(u) /\ AnswerOk(u, call, nextId)
    BY DEF Frames, Notices, Known, AnswerOk
  <2>3. PICK t \in {<<a>>, <<a, u>>} : stream' = stream \o t
    BY <1>9
  <2> HIDE DEF a, u
  <2>4. t \in Seq(Frames) /\ \A i \in 1..Len(t) : t[i] = a \/ t[i] = u
    <3>1. CASE t = <<a>>
      BY <2>1, <3>1
    <3>2. CASE t = <<a, u>>
      BY <2>1, <2>2, <3>2
    <3> QED BY <3>1, <3>2
  <2>5. RoomInv'
    BY <1>3, <1>9, <2>1, <2>2, <2>3, <2>4, RoomKept
  <2>6. CallInv'
    BY <1>7, <2>1, <2>2, <2>3, <2>4
  <2> QED BY <1>4, <2>5, <2>6 DEF SessionInv
<1>10. CASE member # Nobody /\ Receipt(r) /\ UNCHANGED member
  <2>1. \/ seq' = seq + 1 /\ stream' = stream \o <<Sent(r.id, "accepted"), m>>
        \/ seq' = seq /\ \E outcome \in Outcome : stream' = stream \o <<Sent(r.id, outcome)>>
    BY <1>10 DEF Receipt, Push, Outcome
  <2> HIDE DEF m, u
  <2> QED BY <1>8, <1>9, <1>10, <2>1 DEF Outcome
<1>11. CASE NoReceipt(r) /\ member' = Nobody
  <2>1. \E outcome \in Outcome :
          stream' \in {stream \o <<Sent(r.id, outcome)>>, stream \o <<Sent(r.id, outcome), u>>}
    BY <1>11 DEF NoReceipt, Push, Outcome
  <2>2. seq' \in {seq, seq + 1}
    BY <1>11 DEF NoReceipt
  <2> HIDE DEF m, u
  <2> QED BY <1>9, <1>11, <2>1, <2>2
<1> QED BY <1>2, <1>10, <1>11

(* The client calls: no request and no answer has the id of the call yet. *)
LEMMA CallStep ==
    ASSUME SessionInv, NEW kind \in {"state", "send", "ask"}, NEW send \in Sends \cup {Nobody}, Call(kind, send),
           kind = "send" => send \in Sends, sent' \in {sent, send}, said' = said
    PROVE  SessionInv'
<1>1. RoomInv /\ CallInv /\ SaidInv
  BY DEF SessionInv
<1> DEFINE cl == [kind |-> kind, id |-> nextId, send |-> send]
<1>2. /\ call = Nobody /\ call' = cl /\ requests' = Append(requests, cl) /\ nextId' = nextId + 1
      /\ UNCHANGED <<stream, member, marks, seq, pending, chat, unknown, heard, skipped>>
  BY DEF Call, server, app
<1>3. nextId \in Nat /\ requests \in Seq(Calls)
  BY <1>1 DEF CallInv, CallOk
<1>4. cl \in Calls /\ cl.id = nextId /\ cl.kind = kind /\ cl.send = send
  BY <1>3 DEF Calls
<1> HIDE DEF cl
<1>5. RoomInv'
  BY <1>1, <1>2 DEF RoomInv
<1>6. SaidInv'
  BY <1>1, <1>2 DEF SaidInv
<1>7. CallOk(cl, nextId + 1)
  BY <1>3, <1>4 DEF CallOk
<1>8. ASSUME NEW r, RequestOk(r, Nobody, nextId) PROVE RequestOk(r, cl, nextId + 1)
  <2>1. r \in Calls /\ r.id \in Nat /\ r.id < nextId
    BY <1>8 DEF RequestOk, Calls
  <2> QED BY <1>3, <1>4, <2>1 DEF RequestOk
<1>9. ASSUME NEW f, AnswerOk(f, Nobody, nextId) PROVE AnswerOk(f, cl, nextId + 1)
  BY <1>3, <1>4, <1>9 DEF AnswerOk
<1>10. Append(requests, cl) \in Seq(Calls) /\ Asked(Append(requests, cl), pending) \subseteq Asked(requests, pending) \cup {cl}
  <2> DEFINE u == Append(requests, cl)
  <2>1. /\ u \in Seq(Calls) /\ \A i \in 1..Len(u) : u[i] = cl \/ (i \in 1..Len(requests) /\ u[i] = requests[i])
    BY <1>3, <1>4
  <2> HIDE DEF u
  <2>2. \A x \in Asked(u, pending) : x \in Asked(requests, pending) \cup {cl}
    BY <2>1 DEF Asked
  <2> QED BY <2>1, <2>2 DEF u
<1>11. RequestOk(cl, cl, nextId + 1)
  BY <1>3, <1>4 DEF RequestOk
<1>12. \A r \in Asked(requests', pending) : RequestOk(r, cl, nextId + 1)
  BY <1>1, <1>2, <1>8, <1>10, <1>11 DEF CallInv
<1>13. \A i \in 1..Len(stream) : AnswerOk(stream[i], cl, nextId + 1)
  BY <1>1, <1>2, <1>9 DEF CallInv
<1>14. CallInv'
  BY <1>1, <1>2, <1>7, <1>10, <1>12, <1>13 DEF CallInv
<1> QED BY <1>5, <1>6, <1>14 DEF SessionInv

(* The calls of the application. *)
LEMMA CallsStep == ASSUME SessionInv, GetChatState \/ SendChat \/ Ask PROVE SessionInv'
<1>1. CASE GetChatState
  BY <1>1, CallStep DEF GetChatState
<1>2. CASE SendChat
  <2>1. PICK s \in ({sent} \cup (IF chat.state = Nobody THEN {} ELSE {Following(chat.state)})) \ {Nobody} :
           Call("send", s) /\ sent' = s /\ said' = said
    BY <1>2 DEF SendChat
  <2>2. s \in Sends
    <3>1. sent # Nobody => sent \in Sends
      BY DEF SessionInv, SaidInv
    <3>2. CASE s = sent
      BY <2>1, <3>1, <3>2
    <3>3. CASE chat.state # Nobody /\ s = Following(chat.state)
      <4>1. chat.state \in Nat
        BY <3>3, Typed DEF Sess
      <4>2. sent # Nobody => sent.seq \in Nat
        BY <3>1 DEF Sends
      <4> QED BY <3>3, <4>1, <4>2 DEF Following, Sends
    <3> QED BY <2>1, <3>2, <3>3
  <2> QED BY <2>1, <2>2, CallStep
<1>3. CASE Ask
  BY <1>3, CallStep DEF Ask
<1> QED BY <1>1, <1>2, <1>3

(* What a send that is given up is told. *)
LEMMA GivenUpIs ==
    ASSUME SessionInv, call # Nobody, GivenUp
    PROVE  SaidInv' /\ call' = Nobody /\ nextId' = nextId
<1>1. SaidInv /\ CallInv
  BY DEF SessionInv
<1>2. CASE call.kind = "send"
  <2>1. call.send \in Sends
    BY <1>1, <1>2 DEF CallInv, CallOk
  <2>2. unknown' = call.send /\ said' = [send |-> call.send, outcome |-> "unknown"] /\ sent' = sent
    BY <1>2 DEF GivenUp, Returned
  <2>3. said' \in [send : Sends, outcome : Outcome] /\ said'.send = call.send
    BY <2>1, <2>2 DEF Outcome
  <2> QED BY <1>1, <2>2, <2>3 DEF SaidInv, GivenUp
<1>3. CASE call.kind # "send"
  BY <1>1, <1>3 DEF SaidInv, GivenUp
<1> QED BY <1>2, <1>3

(* A call ends at its deadline: what became of a send is not known. *)
LEMMA DeadlineStep == ASSUME SessionInv, Deadline PROVE SessionInv'
<1>1. /\ call # Nobody /\ GivenUp
      /\ UNCHANGED <<stream, requests, member, marks, seq, pending, chat, heard, skipped>>
  BY DEF Deadline, server, app
<1>2. SaidInv' /\ call' = Nobody /\ nextId' = nextId
  BY <1>1, GivenUpIs
<1>3. RoomInv'
  BY <1>1 DEF SessionInv, RoomInv
<1>4. Of(stream', <<>>) /\ \A i \in 1..Len(<<>>) : FALSE
  BY <1>1, NoneBehind
<1>5. CallInv'
  BY <1>1, <1>2, <1>4, CallKept DEF SessionInv, CallInv
<1> QED BY <1>2, <1>3, <1>5 DEF SessionInv

(* poll_chat gives a message that follows the last one. *)
LEMMA PollChatStep == ASSUME SessionInv, PollChat PROVE SessionInv'
<1>1. RoomInv /\ CallInv /\ SaidInv
  BY DEF SessionInv
<1> DEFINE n == Head(chat.notices)
<1>2. /\ chat.notices # <<>> /\ chat' = [chat EXCEPT !.notices = Tail(@)]
      /\ UNCHANGED <<stream, requests, member, marks, seq, pending, call, nextId, sent, unknown, said>>
      /\ heard' = IF n.kind = "unavailable" THEN heard ELSE [gen |-> n.gen, seq |-> n.seq]
      /\ IF n.kind = "unavailable" THEN skipped' = skipped
         ELSE skipped' = (skipped \/ n.gen < heard.gen
                             \/ n.seq # 1 + (IF n.gen = heard.gen THEN heard.seq ELSE marks[n.gen]))
  BY DEF PollChat, server, caller, app
<1> HIDE DEF n
<1>3. /\ Past(marks, seq, heard') /\ Core(chat', marks, seq, heard') /\ StreamOk(chat', stream, marks, seq, heard')
      /\ n.kind # "unavailable" =>
           ~(n.gen < heard.gen \/ n.seq # 1 + (IF n.gen = heard.gen THEN heard.seq ELSE marks[n.gen]))
  BY <1>1, <1>2, PollKeeps DEF RoomInv, n
<1>4. ~skipped'
  BY <1>1, <1>2, <1>3 DEF RoomInv
<1>5. RoomInv'
  BY <1>1, <1>2, <1>3, <1>4 DEF RoomInv
<1>6. CallInv' /\ SaidInv'
  BY <1>1, <1>2 DEF CallInv, SaidInv
<1> QED BY <1>5, <1>6 DEF SessionInv

(* The session is another one, and the stream is shorter; the realm loses a session that is closed. *)
LEMMA Settled ==
    ASSUME SessionInv, NEW d, Settle(d), Core(d, marks, seq, heard),
           NEW s, StreamOk(d, s, marks, seq, heard), Of(s, <<>>), stream' \in {s, <<>>},
           call' \in {call, Nobody}, UNCHANGED <<nextId, heard, skipped>>
    PROVE  RoomInv' /\ CallInv'
<1>1. RoomInv /\ CallInv
  BY DEF SessionInv
<1>2. /\ chat' = d /\ UNCHANGED <<marks, seq>>
      /\ \/ UNCHANGED <<requests, pending, member>>
         \/ requests' = <<>> /\ pending' = {} /\ member' = Nobody
  BY DEF Settle, server
<1>3. StreamOk(d, stream', marks, seq, heard)
  BY NoStream
<1>4. RoomInv'
  BY <1>1, <1>2, <1>3 DEF RoomInv
<1>5. Of(stream', <<>>) /\ \A i \in 1..Len(<<>>) : FALSE
  <2>1. \A i \in 1..Len(<<>>) : FALSE
    OBVIOUS
  <2> QED BY <2>1 DEF Of
<1>6. requests' \in Seq(Calls) /\ pending' \subseteq pending /\ Asked(requests', pending') \subseteq Asked(requests, pending)
  <2>1. requests \in Seq(Calls)
    BY <1>1 DEF CallInv
  <2>2. CASE UNCHANGED <<requests, pending>>
    BY <2>1, <2>2
  <2>3. CASE requests' = <<>> /\ pending' = {}
    BY <2>3 DEF Asked
  <2> QED BY <1>2, <2>2, <2>3
<1>7. CallInv'
  BY <1>1, <1>5, <1>6, CallKept DEF CallInv
<1> QED BY <1>4, <1>7

(* close(). *)
LEMMA CloseStep == ASSUME SessionInv, Close PROVE SessionInv'
<1>1. /\ Settle(Shut) /\ stream' = <<>>
      /\ UNCHANGED <<call, nextId, sent, unknown, said, heard, skipped>>
  BY DEF Close, caller, app
<1>2. Core(Shut, marks, seq, heard) /\ StreamOk(Shut, stream, marks, seq, heard)
  BY ShutIs, SilentKeeps DEF SessionInv, RoomInv
<1>3. Of(stream, <<>>)
  BY NoneBehind
<1>4. RoomInv' /\ CallInv'
  BY <1>1, <1>2, <1>3, Settled
<1>5. SaidInv'
  BY <1>1 DEF SessionInv, SaidInv
<1> QED BY <1>4, <1>5 DEF SessionInv

(* The answer to a send, as the application is told. *)
LEMMA AnsweredIs ==
    ASSUME SessionInv, NEW f \in Frames, AnswerOk(f, call, nextId), f.kind \notin Notices, Mine(f), Answered(f)
    PROVE  /\ SaidInv' /\ call' = Nobody /\ nextId' = nextId /\ call # Nobody
           /\ call.kind = "state" => f.kind = "state"
<1>1. SaidInv /\ CallInv /\ call # Nobody
  BY DEF SessionInv, Mine
<1>2. f.kind = AnswerKind(call.kind)
  BY <1>1 DEF AnswerOk, Mine
<1>3. CASE call.kind = "send"
  <2>1. call.send \in Sends
    BY <1>1, <1>3 DEF CallInv, CallOk
  <2>2. f.outcome \in Outcome
    BY <1>2, <1>3 DEF AnswerKind, Frames, Msgs, Answers, States
  <2>3. /\ unknown' = CASE f.outcome = "unknown" -> call.send
                        [] f.outcome = "accepted" /\ unknown = call.send -> Nobody
                        [] OTHER -> unknown
        /\ said' = [send |-> call.send, outcome |-> Told(f)] /\ sent' = sent
    BY <1>3 DEF Answered, Returned
  <2>4. Told(f) \in Outcome /\ (Told(f) = "unknown" => unknown' = call.send)
    BY <2>2, <2>3 DEF Told, Outcome
  <2>5. said' \in [send : Sends, outcome : Outcome] /\ said'.send = call.send /\ said'.outcome = Told(f)
    BY <2>1, <2>3, <2>4
  <2> QED BY <1>1, <1>3, <2>3, <2>4, <2>5 DEF SaidInv, Answered
<1>4. CASE call.kind # "send"
  BY <1>1, <1>2, <1>4 DEF SaidInv, Answered, AnswerKind
<1> QED BY <1>3, <1>4

(* receive_frame: a notice, the answer to the call, or one that comes too late. *)
LEMMA ReceiveStep == ASSUME SessionInv, Receive PROVE SessionInv'
<1>1. RoomInv /\ CallInv /\ SaidInv
  BY DEF SessionInv
<1> DEFINE f == Head(stream)
<1>2. /\ chat.open /\ stream # <<>> /\ UNCHANGED <<heard, skipped>> /\ stream' \in {Tail(stream), <<>>}
      /\ IF f.kind \in Notices
           THEN /\ Settle(Notice(chat, f))
                /\ UNCHANGED caller \/ (call # Nobody /\ (GivenUp \/ Refused))
         ELSE IF Mine(f) THEN Answered(f)
         ELSE UNCHANGED <<caller, chat, requests, server>>
  BY DEF Receive, app
<1>3. /\ StreamOk(chat, Tail(stream), marks, seq, heard) /\ f \in Frames
      /\ AnswerOk(f, call, nextId) /\ Of(Tail(stream), <<>>)
  <2>1. StreamOk(chat, Tail(stream), marks, seq, heard) /\ f \in Frames /\ f = stream[1] /\ 1 \in 1..Len(stream)
    BY <1>1, <1>2, Shorter DEF RoomInv
  <2>2. Of(Tail(stream), <<>>)
    BY <1>2, NoneBehind
  <2> QED BY <1>1, <2>1, <2>2 DEF CallInv
<1>4. CASE f.kind \in Notices
  <2> DEFINE d == Notice(chat, f)
  <2>1. Core(d, marks, seq, heard) /\ StreamOk(d, Tail(stream), marks, seq, heard)
    BY <1>1, <1>2, <1>4, NoticeKeeps DEF RoomInv
  <2>2. Settle(d)
    BY <1>2, <1>4
  <2> HIDE DEF d, f
  <2>3. call' \in {call, Nobody} /\ nextId' = nextId /\ SaidInv'
    <3>1. CASE UNCHANGED caller
      BY <1>1, <3>1 DEF caller, SaidInv
    <3>2. CASE call # Nobody /\ GivenUp
      BY <3>2, GivenUpIs
    <3>3. CASE Refused
      BY <1>1, <3>3 DEF Refused, SaidInv
    <3> QED BY <1>2, <1>4, <3>1, <3>2, <3>3
  <2>4. RoomInv' /\ CallInv'
    BY <1>2, <1>3, <2>1, <2>2, <2>3, Settled
  <2> QED BY <2>3, <2>4 DEF SessionInv
<1>5. CASE f.kind \notin Notices /\ ~Mine(f)
  <2>1. UNCHANGED <<call, nextId, sent, unknown, said, chat, requests, server>>
    BY <1>2, <1>5 DEF caller
  <2>2. Settle(chat)
    BY <1>2, <2>1 DEF Settle
  <2>3. SaidInv'
    BY <1>1, <2>1 DEF SaidInv
  <2> HIDE DEF f
  <2>4. RoomInv' /\ CallInv'
    BY <1>1, <1>2, <1>3, <2>1, <2>2, Settled DEF RoomInv
  <2> QED BY <2>3, <2>4 DEF SessionInv
<1>6. CASE f.kind \notin Notices /\ Mine(f)
  <2>1. Answered(f)
    BY <1>2, <1>6
  <2>2. /\ SaidInv' /\ call' = Nobody /\ nextId' = nextId /\ (call.kind = "state" => f.kind = "state")
    <3> HIDE DEF f
    <3> QED BY <1>3, <1>6, <2>1, AnsweredIs
  <2>3. CASE call.kind = "state"
    <3> DEFINE d == ApplyChatState(chat, f.member)
    <3>1. Core(d, marks, seq, heard) /\ StreamOk(d, Tail(stream), marks, seq, heard)
      BY <1>1, <1>2, <2>2, <2>3, StateKeeps DEF RoomInv
    <3>2. Settle(d)
      BY <2>1, <2>3 DEF Answered
    <3> HIDE DEF d, f
    <3>3. RoomInv' /\ CallInv'
      BY <1>2, <1>3, <2>2, <3>1, <3>2, Settled
    <3> QED BY <2>2, <3>3 DEF SessionInv
  <2>4. CASE call.kind # "state"
    <3>1. UNCHANGED <<chat, requests, server>>
      BY <2>1, <2>4 DEF Answered
    <3>2. Settle(chat)
      BY <1>2, <3>1 DEF Settle
    <3> HIDE DEF f
    <3>3. RoomInv' /\ CallInv'
      BY <1>1, <1>2, <1>3, <2>2, <3>2, Settled DEF RoomInv
    <3> QED BY <2>2, <3>3 DEF SessionInv
  <2> QED BY <2>3, <2>4
<1> QED BY <1>4, <1>5, <1>6

(* Every step of the session and of the realm. *)
LEMMA SessionKept == ASSUME SessionInv, NextSession PROVE SessionInv'
BY JoinStep, LeaveStep, BroadcastStep, DisplaceStep, ServeStep, FinishStep, CallsStep, ReceiveStep,
   DeadlineStep, PollChatStep, CloseStep DEF NextSession

(* A session that was just opened. *)
LEMMA SessionBegins == InitSession => SessionInv
<1> SUFFICES ASSUME InitSession PROVE SessionInv
  OBVIOUS
<1>1. /\ stream = <<>> /\ requests = <<>> /\ member = Nobody /\ marks = <<>> /\ seq = 0 /\ pending = {}
      /\ chat = [Shut EXCEPT !.open = TRUE] /\ call = Nobody /\ nextId = 1 /\ sent = Nobody
      /\ said = Nobody /\ heard = [gen |-> 0, seq |-> 0] /\ skipped = FALSE
  BY DEF InitSession
<1>2. Past(marks, seq, heard)
  BY <1>1 DEF Past
<1>3. chat \in Sess /\ chat.state = Nobody /\ chat.notices = <<>> /\ chat.buffered = <<>>
  <2>1. <<>> \in Seq(Msgs) /\ <<>> \in Seq(Msgs \cup {Unav})
    OBVIOUS
  <2> QED BY <1>1, <2>1 DEF Shut, Sess
<1>4. Core(chat, marks, seq, heard)
  BY <1>3, Silent
<1>5. StreamOk(chat, <<>>, marks, seq, heard)
  <2>1. <<>> \in Seq(Frames) /\ Len(<<>>) = 0 /\ 1..0 = {}
    OBVIOUS
  <2>2. Coming(<<>>) = {} /\ InOrder(<<>>)
    BY <2>1 DEF Coming, InOrder
  <2>3. Waiting(chat, Coming(<<>>), marks, seq, heard)
    BY <1>3, <2>1, <2>2 DEF Waiting, Rising
  <2> QED BY <2>1, <2>2, <2>3 DEF StreamOk
<1>6. RoomInv
  BY <1>1, <1>2, <1>4, <1>5 DEF RoomInv
<1>7. /\ <<>> \in Seq(Calls) /\ Asked(<<>>, {}) = {} /\ \A i \in 1..Len(<<>>) : FALSE
  BY DEF Asked
<1>8. CallInv /\ SaidInv
  BY <1>1, <1>7 DEF CallInv, SaidInv, CallOk
<1> QED BY <1>6, <1>8 DEF SessionInv

-----------------------------------------------------------------------------
(* The client, from its login to the game. *)
Inv == ChainInv /\ SessionInv

(* A client that begins its login. *)
LEMMA Begins == Init => Inv
<1> SUFFICES ASSUME Init PROVE Inv
  OBVIOUS
<1>1. SessionInv
  BY SessionBegins DEF Init
<1>2. ChainInv
  BY DEF Init, InitLogin, InitRace, ChainInv, RaceInv, LoginInv, Holds, Asks
<1> QED BY <1>1, <1>2 DEF Inv

(* The chain is done. *)
LEMMA EnterStep == ASSUME EnterGame PROVE ChainInv'
BY DEF EnterGame, ChainInv, RaceInv, LoginInv, Holds, Asks

(* The session waits for the login, *)
LEMMA SessionRests == ASSUME SessionInv, UNCHANGED sessionVars PROVE SessionInv'
<1>1. UNCHANGED <<stream, requests, member, marks, seq, pending, chat, call, nextId, sent, unknown,
                  said, heard, skipped>>
  BY DEF sessionVars, server, caller, app
<1>2. RoomInv'
  BY <1>1 DEF SessionInv, RoomInv
<1>3. CallInv' /\ SaidInv'
  BY <1>1 DEF SessionInv, CallInv, SaidInv
<1> QED BY <1>2, <1>3 DEF SessionInv

(* and the chain is not used in the game. *)
LEMMA ChainRests == ASSUME ChainInv, UNCHANGED loginVars PROVE ChainInv'
BY DEF loginVars, chain, raceVars, ChainInv, RaceInv, LoginInv

(* Every step of the client. *)
LEMMA InvKept == Inv /\ [Next]_<<loginVars, sessionVars>> => Inv'
<1> SUFFICES ASSUME Inv, [Next]_<<loginVars, sessionVars>> PROVE Inv'
  OBVIOUS
<1>0. ChainInv /\ SessionInv
  BY DEF Inv
<1>1. CASE NextLogin /\ UNCHANGED sessionVars
  BY <1>0, <1>1, LoginKept, SessionRests DEF Inv
<1>2. CASE EnterGame
  <2>1. UNCHANGED sessionVars
    BY <1>2 DEF EnterGame
  <2> QED BY <1>0, <1>2, <2>1, EnterStep, SessionRests DEF Inv
<1>3. CASE NextSession /\ UNCHANGED loginVars
  BY <1>0, <1>3, SessionKept, ChainRests DEF Inv
<1>4. CASE UNCHANGED <<loginVars, sessionVars>>
  BY <1>0, <1>4, SessionRests, ChainRests DEF Inv
<1> QED BY <1>1, <1>2, <1>3, <1>4 DEF Next

(* Inv is an invariant of the client. *)
THEOREM InvHolds == Spec => []Inv
BY Begins, InvKept, PTL DEF Spec

(* NeverShownAgain: through all restarts and retries, the login chain never attaches with a     *)
(* grant the gateway has refused for good, nor asks the queue for a number it has refused.      *)
THEOREM NothingIsShownAgain == Spec => []NeverShownAgain
<1>1. Inv => NeverShownAgain
  <2> SUFFICES ASSUME Inv PROVE NeverShownAgain
    OBVIOUS
  <2>1. LoginInv
    BY DEF Inv, ChainInv
  <2> QED BY <2>1 DEF LoginInv, Holds, Asks, NeverShownAgain
<1> QED BY <1>1, InvHolds, PTL

(* TlsTried: connect gives up for a failure of the network only after it tried TLS where there *)
(* is a candidate, unless the round was over.                                                  *)
THEOREM TlsIsTried == Spec => []TlsTried
<1>1. Inv => TlsTried
  BY DEF Inv, ChainInv, RaceInv, RaceOk, TlsTried
<1> QED BY <1>1, InvHolds, PTL

(* NothingSkipped: poll_chat gives the application the messages of a membership in order, none  *)
(* twice, and none left out from the join watermark on.                                         *)
THEOREM NothingIsSkipped == Spec => []NothingSkipped
<1>1. Inv => NothingSkipped
  BY DEF Inv, SessionInv, RoomInv, NothingSkipped
<1> QED BY <1>1, InvHolds, PTL

(* UnknownStays: a send that send_chat has called unknown is not called rejected by its next     *)
(* try, whatever the realm answers to that one.                                                  *)
THEOREM UnknownOutcomeStays == Spec => UnknownStays
<1> DEFINE Kept == ~(/\ said # Nobody /\ said.outcome = "unknown"
                     /\ said' = [said EXCEPT !.outcome = "rejected"])
<1>1. ASSUME Inv, Inv', [Next]_<<loginVars, sessionVars>> PROVE Kept \/ UNCHANGED said
  <2> SUFFICES ASSUME said # Nobody, said.outcome = "unknown", said' = [said EXCEPT !.outcome = "rejected"]
               PROVE said' = said
    OBVIOUS
  <2>1. SessionInv
    BY <1>1 DEF Inv
  <2>2. unknown = said.send /\ said'.send = said.send /\ said'.outcome = "rejected"
    BY <2>1 DEF SessionInv, SaidInv
  <2>3. ASSUME NEW outcome, Returned(outcome), outcome = "rejected" => unknown # call.send PROVE FALSE
    <3>1. said'.send = call.send /\ said'.outcome = outcome
      BY <2>3 DEF Returned
    <3> QED BY <2>2, <2>3, <3>1
  <2>4. ASSUME NEW f, Answered(f) PROVE said' = said
    <3>1. Told(f) = "rejected" => unknown # call.send
      BY DEF Told
    <3> QED BY <2>3, <2>4, <3>1 DEF Answered
  <2>5. ASSUME GivenUp PROVE said' = said
    BY <2>3, <2>5 DEF GivenUp
  <2>6. ASSUME NextSession PROVE said' = said
    <3>1. CASE Receive
      BY <2>4, <2>5, <3>1 DEF Receive, Refused, caller
    <3>2. CASE Deadline
      BY <2>5, <3>2 DEF Deadline
    <3>3. CASE Join \/ Leave \/ Broadcast \/ Displace \/ Serve \/ Finish \/ PollChat \/ Close
      BY <3>3 DEF Join, Leave, Broadcast, Displace, Serve, Finish, PollChat, Close, caller
    <3>4. CASE GetChatState \/ SendChat \/ Ask
      BY <3>4 DEF GetChatState, SendChat, Ask
    <3> QED BY <2>6, <3>1, <3>2, <3>3, <3>4 DEF NextSession
  <2>7. ASSUME UNCHANGED sessionVars PROVE said' = said
    BY <2>7 DEF sessionVars, caller
  <2> QED BY <1>1, <2>6, <2>7 DEF Next, EnterGame
<1>2. [Next]_<<loginVars, sessionVars>> /\ Inv /\ Inv' => [Kept]_said
  BY <1>1
<1> QED BY <1>2, InvHolds, PTL DEF Spec, UnknownStays
=============================================================================
