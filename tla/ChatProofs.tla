----------------------------- MODULE ChatProofs -----------------------------
(***************************************************************************)
(* A message of the chat is accepted once: the proof of AcceptedOnce, for  *)
(* any number of sessions, connections, requests and faults.               *)
(*                                                                         *)
(* The generation of a membership is what makes a send of it unique, so    *)
(* the proof follows the generations: a JOIN that was not yet sent has one *)
(* that no message and no member of the service has (GenerationOk), and    *)
(* one that was, and took effect on its link, can not do so again, because *)
(* the link only takes higher ones (Spent).  A frame of a closed link is   *)
(* refused, as the links that were issued differ (Issued).                 *)
(***************************************************************************)
EXTENDS RealmChat, FiniteSetTheorems, NaturalsInduction, SequenceTheorems,
        WellFoundedInduction, TLAPS

Ops == {"HELLO", "JOIN", "LEAVE", "SEND", "STATE"}

StateType == [inc : Nat, from : Nat]
ResultType == [outcome : {"ACCEPTED", "REJECTED"}, receipt : Nat]

ReplyType ==
    {f \in [kind : {"reply"}, id : Nat, op : Ops, link : LinkType \cup {None},
            status : {"OK", "INVALID", "STALE_MEMBERSHIP", "BUSY", "STALE_LINK", "UNAVAILABLE"},
            member : MemberType \cup {None}, body : StateType \cup ResultType \cup {None}] :
        f.status = "OK" => /\ f.op \in {"JOIN", "STATE"} => f.body \in StateType
                           /\ f.op = "SEND" => f.body \in ResultType}

ThereType == RequestType \cup {[kind |-> "open"], ClosedFrame}
BackType == ReplyType \cup PushType \cup {ClosedFrame}

QueuedReply == [peer : Peers, frame : ReplyType]
QueuedPush == [peer : Peers, frame : PushType]

ServiceMember ==
    [peer : Peers, member : MemberType, inc : Nat, from : Nat, last : Nat,
     text : Texts \cup {None}, receipt : Nat]

ChatType ==
    [inc : Nat, links : [Peers -> EndType \cup {None}], linkGen : Nat,
     members : SUBSET ServiceMember, sequence : Nat, replies : Seq(QueuedReply),
     pushes : Seq(QueuedPush), replaced : SUBSET Peers, helloDue : SUBSET Peers,
     phase : {"events", "round"}]

LogType == [inc : Nat, at : Nat, gen : Nat, seq : Nat, text : Texts]

-----------------------------------------------------------------------------
(* The service, in a state c with the log L.                               *)
Served(c, p) == c.links[p] # None /\ c.links[p].link # 0

LinksOk(c) ==
    /\ \A p, q \in Peers : Served(c, p) /\ Served(c, q) => p = q
    /\ \A p \in Peers : Served(c, p) => c.links[p].link <= c.linkGen

(* A member has its place on the link, and its last message in the log.    *)
MemberOk(c, L, m) ==
    /\ Served(c, m.peer) /\ m.member.gen <= c.links[m.peer].high
    /\ m.last # 0 => [inc |-> c.inc, at |-> m.receipt, gen |-> m.member.gen,
                      seq |-> m.last, text |-> m.text] \in L
    /\ \A e \in L : e.gen = m.member.gen => e.seq <= m.last

OneEach(S) == \A m, n \in S : m.member.gen = n.member.gen => m = n

LogOnce(L) == \A e, f \in L : e.gen = f.gen /\ e.seq = f.seq => e = f

ServiceOk(c, L) ==
    /\ c \in ChatType /\ IsFiniteSet(c.members) /\ L \subseteq LogType
    /\ LinksOk(c) /\ OneEach(c.members) /\ LogOnce(L)
    /\ \A m \in c.members : MemberOk(c, L, m)

(* The generations that took effect.                                       *)
Installed(c, L) == {e.gen : e \in L} \cup {m.member.gen : m \in c.members}

Issued(c, l) ==
    /\ l \in LinkType /\ l.inc <= c.inc
    /\ l.inc = c.inc => l.gen <= c.linkGen

(* If generation g took effect, then connection q takes none up to g       *)
(* while it has link l.                                                    *)
Spent(c, L, q, l, g) ==
    g \in Installed(c, L) /\ c.links[q] # None /\ l = Link(c, c.links[q].link)
      => g <= c.links[q].high

-----------------------------------------------------------------------------
(* What is on its way, T to the service and B from it.                     *)
Flying(c, T, q) ==
    {r \in ToSet(T[q]) : r.kind = "request"}
      \cup (IF c.links[q] = None THEN {} ELSE ToSet(c.links[q].requests))

Replied(c, B) ==
    {e.frame : e \in ToSet(c.replies)}
      \cup {f \in UNION {ToSet(B[q]) : q \in Peers} : f.kind = "reply"}

(* The generations that took effect or may.                                *)
Spoken(c, L, T) ==
    Installed(c, L)
      \cup {j.member.gen : j \in {r \in UNION {Flying(c, T, q) : q \in Peers} : r.op = "JOIN"}}

Noted(L, p, k) ==
    [inc |-> p.send.inc, at |-> k, gen |-> p.member.gen, seq |-> p.send.seq,
     text |-> p.send.text] \in L

(* What reply f says of the message of p is so.                            *)
TrueReply(L, f, p) ==
    f.status = "OK" /\ f.body.outcome = "ACCEPTED" => Noted(L, p, f.body.receipt)

(* A connection is opened by what was sent on it first.                    *)
DialOk(c, T, w) ==
    \A q \in Peers :
        /\ q > w.dialled => T[q] = <<>> /\ c.links[q] = None
        /\ \A i \in 1..Len(T[q]) : T[q][i].kind = "open" => i = 1 /\ c.links[q] = None

-----------------------------------------------------------------------------
(* The realm r, with the Peer w.                                           *)
AnswerType == [reply : ReplyType \cup {None}, dispatched : BOOLEAN]

PendingType ==
    {p \in [op : {"JOIN", "LEAVE", "SEND", "STATE"}, member : MemberType,
            send : SendType \cup {None}, revision : Nat, result : AnswerType \cup {None}] :
        p.op = "SEND" => p.send \in SendType}

RealmType ==
    [sessions : [Sessions -> SessionType \cup {None}],
     deferred : [Sessions -> Characters \cup {None}],
     pending : [Sessions -> PendingType \cup {None}],
     calls : Seq(Sessions), generation : Nat, revision : Nat,
     frame : {"events", "finish"}, requests : Nat, opened : Nat]

PeerType ==
    [stream : Peers \cup {None}, link : LinkType \cup {None}, revision : Nat,
     reset : BOOLEAN, call : Sessions \cup {None}, hello : BOOLEAN, retried : BOOLEAN,
     nextId : Nat \ {0}, dialled : Nat, pushes : Seq(PushType)]

Waits(r, w, s) == s \in ToSet(r.calls) \/ s = w.call

CallsOk(r, w) ==
    /\ \A s \in Sessions : Waits(r, w, s) =>
         r.pending[s] \in PendingType /\ r.pending[s].result = None
    /\ w.call \notin ToSet(r.calls)
    /\ \A i, j \in 1..Len(r.calls) : r.calls[i] = r.calls[j] => i = j

Unsent(r, w, s) ==
    /\ s \in ToSet(r.calls) \/ (s = w.call /\ w.hello)
    /\ r.pending[s].op = "JOIN"

Joins(r, w, s) == Waits(r, w, s) /\ r.pending[s].op = "JOIN"

Gen(r, s) == r.pending[s].member.gen

GenerationOk(r, w, K) ==
    /\ \A g \in K : g <= r.generation
    /\ \A s \in Sessions : Unsent(r, w, s) => Gen(r, s) \notin K
    /\ \A s \in Sessions : Joins(r, w, s) =>
         /\ Gen(r, s) <= r.generation
         /\ \A t \in Sessions : Unsent(r, w, t) /\ Gen(r, t) = Gen(r, s) => t = s

(* A session with a call is there, with its slot; one that was put off is  *)
(* not.                                                                    *)
SessionsOk(r) ==
    \A s \in Sessions :
        /\ r.pending[s] # None => r.sessions[s] # None /\ r.sessions[s].slot # None
        /\ s > r.opened => r.sessions[s] = None /\ r.deferred[s] = None
        /\ r.deferred[s] # None => r.sessions[s] = None

ResultsOk(r, L) ==
    \A s \in Sessions :
        r.pending[s] # None /\ r.pending[s].result # None
          /\ r.pending[s].result.reply # None =>
            /\ r.pending[s].result.reply.op = r.pending[s].op
            /\ r.pending[s].op = "SEND" => TrueReply(L, r.pending[s].result.reply, r.pending[s])

RealmOk(r, w, K, L) ==
    /\ r \in RealmType
    /\ CallsOk(r, w) /\ GenerationOk(r, w, K) /\ SessionsOk(r) /\ ResultsOk(r, L)

(* The Peer w, for a service in state c with the log L; its call is p.     *)
Sent(w) == w.call # None /\ ~w.hello

PeerOk(w, c, L, p) ==
    /\ w \in PeerType
    /\ w.stream # None => w.stream <= w.dialled
    /\ w.stream # None /\ ~w.hello => Issued(c, w.link)
    /\ w.call # None => w.stream # None
    /\ w.hello => w.call # None /\ w.retried
    /\ Sent(w) /\ p.op = "JOIN" => Spent(c, L, w.stream, w.link, p.member.gen)

RequestOk(c, L, w, p, q, r) ==
    /\ r.id < w.nextId
    /\ r.op # "HELLO" => Issued(c, r.link)
    /\ r.op = "JOIN" => Spent(c, L, q, r.link, r.member.gen)
    /\ Sent(w) /\ r.id = w.nextId - 1 =>
         r.op = p.op /\ r.member = p.member /\ r.send = p.send

ReplyOk(c, L, w, p, f) ==
    /\ f.id < w.nextId
    /\ f.op = "HELLO" /\ f.status = "OK" => Issued(c, f.link)
    /\ Sent(w) /\ f.id = w.nextId - 1 /\ f.op = "SEND" /\ p.op = "SEND" => TrueReply(L, f, p)

WayOk(c, L, T, B, w, p) ==
    /\ \A q \in Peers : \A r \in Flying(c, T, q) : RequestOk(c, L, w, p, q, r)
    /\ \A f \in Replied(c, B) : ReplyOk(c, L, w, p, f)

(* What a sender was told holds.                                           *)
TellsTrue(S, L) ==
    \A t \in S : t.outcome = "ACCEPTED" =>
        [inc |-> t.inc, at |-> t.receipt, gen |-> t.gen, seq |-> t.seq, text |-> t.text] \in L

-----------------------------------------------------------------------------
(* The invariant.                                                          *)
Calls == realm.pending[peer.call]

StreamsOk ==
    /\ toChat \in [Peers -> Seq(ThereType)] /\ toRealm \in [Peers -> Seq(BackType)]
    /\ DialOk(chat, toChat, peer)

IInv ==
    /\ ServiceOk(chat, log)
    /\ StreamsOk
    /\ RealmOk(realm, peer, Spoken(chat, log, toChat), log)
    /\ PeerOk(peer, chat, log, Calls)
    /\ WayOk(chat, log, toChat, toRealm, peer, Calls)
    /\ binding \in [Sessions -> Nat]
    /\ TellsTrue(told, log)

-----------------------------------------------------------------------------
(* Sequences.                                                              *)

LEMMA InSeq ==
    ASSUME NEW T, NEW s \in Seq(T)
    PROVE  /\ ToSet(s) \subseteq T /\ Len(s) \in Nat
           /\ \A i \in 1..Len(s) : s[i] \in T /\ s[i] \in ToSet(s)
           /\ \A e \in ToSet(s) : \E i \in 1..Len(s) : s[i] = e
BY DEF ToSet

LEMMA InEmpty == ToSet(<<>>) = {}
BY DEF ToSet

LEMMA InAppend ==
    ASSUME NEW T, NEW s \in Seq(T), NEW x \in T
    PROVE  /\ Append(s, x) \in Seq(T)
           /\ ToSet(Append(s, x)) = ToSet(s) \cup {x}
<1> DEFINE a == Append(s, x)
<1>1. /\ a \in Seq(T) /\ Len(a) = Len(s) + 1 /\ Len(s) \in Nat
      /\ \A i \in 1..Len(s) : a[i] = s[i]
      /\ a[Len(s) + 1] = x
  BY AppendProperties
<1> HIDE DEF a
<1>2. \A e \in ToSet(a) : e \in ToSet(s) \cup {x}
  BY <1>1, InSeq
<1>3. \A e \in ToSet(s) : e \in ToSet(a)
  BY <1>1, InSeq
<1>4. x \in ToSet(a)
  BY <1>1, InSeq
<1> QED BY <1>1, <1>2, <1>3, <1>4 DEF a

LEMMA InConcat ==
    ASSUME NEW T, NEW s \in Seq(T), NEW t \in Seq(T)
    PROVE  s \o t \in Seq(T) /\ ToSet(s \o t) = ToSet(s) \cup ToSet(t)
<1> DEFINE a == s \o t
           m == Len(s)
           n == Len(t)
<1>1. /\ a \in Seq(T) /\ Len(a) = m + n /\ m \in Nat /\ n \in Nat
      /\ \A i \in 1..(m + n) : a[i] = IF i <= m THEN s[i] ELSE t[i - m]
  BY ConcatProperties
<1>2. /\ \A e \in ToSet(s) : \E i \in 1..m : s[i] = e
      /\ \A e \in ToSet(t) : \E i \in 1..n : t[i] = e
      /\ \A i \in 1..m : s[i] \in ToSet(s)
      /\ \A i \in 1..n : t[i] \in ToSet(t)
  BY InSeq
<1> HIDE DEF a, m, n
<1>3. /\ \A e \in ToSet(a) : \E i \in 1..(m + n) : a[i] = e
      /\ \A i \in 1..(m + n) : a[i] \in ToSet(a)
  BY <1>1, InSeq
<1>4. \A i \in 1..m : i \in 1..(m + n) /\ a[i] = s[i]
  BY <1>1
<1>5. \A i \in 1..n : m + i \in 1..(m + n) /\ a[m + i] = t[i]
  <2> SUFFICES ASSUME NEW i \in 1..n PROVE m + i \in 1..(m + n) /\ a[m + i] = t[i]
    OBVIOUS
  <2>1. m + i \in 1..(m + n) /\ ~(m + i <= m) /\ (m + i) - m = i
    BY <1>1
  <2> QED BY <1>1, <2>1
<1>6. \A i \in 1..(m + n) : a[i] \in ToSet(s) \cup ToSet(t)
  <2> SUFFICES ASSUME NEW i \in 1..(m + n) PROVE a[i] \in ToSet(s) \cup ToSet(t)
    OBVIOUS
  <2>1. CASE i <= m
    <3>1. i \in 1..m
      BY <1>1, <2>1
    <3> QED BY <1>2, <1>4, <3>1
  <2>2. CASE ~(i <= m)
    <3>1. i - m \in 1..n /\ a[i] = t[i - m]
      BY <1>1, <2>2
    <3> QED BY <1>2, <3>1
  <2> QED BY <2>1, <2>2
<1>7. ToSet(a) = ToSet(s) \cup ToSet(t)
  BY <1>2, <1>3, <1>4, <1>5, <1>6
<1> QED BY <1>1, <1>7 DEF a

LEMMA InTail ==
    ASSUME NEW T, NEW s \in Seq(T), s # <<>>
    PROVE  /\ Tail(s) \in Seq(T) /\ Head(s) = s[1] /\ Head(s) \in T /\ Len(s) >= 1
           /\ Len(Tail(s)) = Len(s) - 1
           /\ \A i \in 1..Len(Tail(s)) : Tail(s)[i] = s[i + 1]
           /\ ToSet(s) = {Head(s)} \cup ToSet(Tail(s))
<1> DEFINE t == Tail(s)
           h == Head(s)
           n == Len(s)
<1>1. /\ t \in Seq(T) /\ h = s[1] /\ h \in T
      /\ Len(t) = n - 1 /\ n \in Nat /\ n >= 1
      /\ \A i \in 1..Len(t) : t[i] = s[i + 1]
  BY HeadTailProperties
<1>2. /\ \A e \in ToSet(s) : \E i \in 1..n : s[i] = e
      /\ \A i \in 1..n : s[i] \in ToSet(s)
  BY InSeq
<1> HIDE DEF t, h, n
<1>3. /\ \A e \in ToSet(t) : \E i \in 1..(n - 1) : t[i] = e
      /\ \A i \in 1..(n - 1) : t[i] \in ToSet(t)
  BY <1>1, InSeq
<1>4. \A i \in 1..(n - 1) : t[i] = s[i + 1] /\ i + 1 \in 1..n
  BY <1>1
<1>5. \A i \in 1..n : s[i] \in {h} \cup ToSet(t)
  <2> SUFFICES ASSUME NEW i \in 1..n, i # 1 PROVE s[i] \in ToSet(t)
    BY <1>1
  <2>1. i - 1 \in 1..(n - 1) /\ (i - 1) + 1 = i
    BY <1>1
  <2> QED BY <1>3, <1>4, <2>1
<1>6. 1 \in 1..n
  BY <1>1
<1>7. \A e \in ToSet(s) : e \in {h} \cup ToSet(t)
  BY <1>2, <1>5
<1>8. \A e \in ToSet(t) : e \in ToSet(s)
  BY <1>2, <1>3, <1>4
<1>9. h \in ToSet(s)
  BY <1>1, <1>2, <1>6
<1> QED BY <1>1, <1>7, <1>8, <1>9 DEF t, h, n

LEMMA InPart ==
    ASSUME NEW T, NEW s \in Seq(T), NEW m \in 1..(Len(s) + 1), NEW n \in 0..Len(s)
    PROVE  SubSeq(s, m, n) \in Seq(T)
BY SubSeqProperties

-----------------------------------------------------------------------------
(* Recursion over 0..N, one step at a time.                                *)

(* A nonempty set of natural numbers has a least element. *)
LEMMA LeastOf ==
    ASSUME NEW T, T \subseteq Nat, T # {}
    PROVE  \E x \in T : \A y \in T : x <= y
<1> DEFINE R == {p \in Nat \X Nat : p[1] < p[2]}
<1>1. IsWellFoundedOn(R, Nat)
  BY NatLessThanWellFounded, Zenon DEF OpToRel
<1> HIDE DEF R
<1>2. PICK x \in T : \A y \in T : ~(<<y, x>> \in R)
  BY <1>1, WFMin
<1>3. \A y \in T : ~(y < x)
  BY <1>2 DEF R
<1> QED BY <1>2, <1>3

(* What holds at 0 and is kept by each step holds at all. *)
LEMMA Climb ==
    ASSUME NEW N \in Nat, NEW f, NEW P, f[0] \in P[0],
           \A n \in 1..N : f[n - 1] \in P[n - 1] => f[n] \in P[n]
    PROVE  \A n \in 0..N : f[n] \in P[n]
<1> SUFFICES ASSUME NEW j \in 0..N, f[j] \notin P[j] PROVE FALSE
  OBVIOUS
<1> DEFINE T == {n \in 0..N : f[n] \notin P[n]}
<1>1. PICK x \in T : \A y \in T : x <= y
  <2>1. j \in T /\ T \subseteq Nat
    OBVIOUS
  <2> HIDE DEF T
  <2> QED BY <2>1, LeastOf
<1>2. x \in 0..N /\ f[x] \notin P[x]
  OBVIOUS
<1>3. x \in 1..N /\ x - 1 \in 0..N /\ ~(x <= x - 1)
  BY <1>2
<1>4. f[x - 1] \in P[x - 1]
  BY <1>1, <1>3
<1> QED BY <1>2, <1>3, <1>4

Solves(g, N, F, r) ==
    g = [n \in 0..N |-> g[n]] /\ g[0] = r /\ \A n \in 1..N : g[n] = F[n][g[n - 1]]

(* A recursion whose step n is function F[n] has a solution. *)
LEMMA Solve ==
    ASSUME NEW N \in Nat, NEW F, NEW r
    PROVE  \E g : Solves(g, N, F, r)
<1> DEFINE Upto(g, k) == [n \in 0..k |-> IF n = 0 THEN r ELSE F[n][g[n - 1]]]
           T == {k \in 0..N : ~\E g : g = Upto(g, k)}
<1>1. ASSUME T # {} PROVE FALSE
  <2>1. PICK x \in T : \A y \in T : x <= y
    <3>1. T \subseteq Nat
      OBVIOUS
    <3> HIDE DEF T
    <3> QED BY <1>1, <3>1, LeastOf
  <2>2. x \in 0..N /\ ~\E g : g = Upto(g, x)
    OBVIOUS
  <2>3. x # 0
    <3> DEFINE g == [n \in 0..0 |-> r]
    <3>1. g = Upto(g, 0)
      OBVIOUS
    <3> HIDE DEF g
    <3> QED BY <2>2, <3>1
  <2>4. x - 1 \in 0..N /\ x - 1 < x /\ x \in Nat /\ x - 1 \in Nat
    BY <2>2, <2>3
  <2>5. PICK g : g = Upto(g, x - 1)
    <3>1. x - 1 \notin T
      BY <2>1, <2>4
    <3> QED BY <2>4, <3>1
  <2> DEFINE e == [n \in 0..x |-> IF n = x THEN F[x][g[x - 1]] ELSE g[n]]
  <2>6. \A n \in 0..x : e[n] = IF n = 0 THEN r ELSE F[n][e[n - 1]]
    <3> SUFFICES ASSUME NEW n \in 0..x PROVE e[n] = IF n = 0 THEN r ELSE F[n][e[n - 1]]
      OBVIOUS
    <3>1. CASE n = x
      <4>1. n # 0 /\ n - 1 \in 0..x /\ n - 1 # x
        BY <2>3, <2>4, <3>1
      <4> QED BY <3>1, <4>1
    <3>2. CASE n # x
      <4>1. n \in 0..(x - 1) /\ (n # 0 => n - 1 \in 0..x /\ n - 1 # x)
        BY <2>4, <3>2
      <4>2. g[n] = Upto(g, x - 1)[n]
        BY <2>5
      <4>3. e[n] = g[n] /\ (n # 0 => e[n - 1] = g[n - 1])
        BY <3>2, <4>1
      <4>4. g[n] = IF n = 0 THEN r ELSE F[n][g[n - 1]]
        <5> HIDE DEF e
        <5> QED BY <4>1, <4>2
      <4> HIDE DEF e
      <4> QED BY <4>3, <4>4
    <3> QED BY <3>1, <3>2
  <2>7. e = [n \in 0..x |-> e[n]]
    OBVIOUS
  <2> HIDE DEF e
  <2>8. e = Upto(e, x)
    BY <2>6, <2>7
  <2> QED BY <2>2, <2>8
<1>2. PICK g : g = Upto(g, N)
  <2>1. N \in 0..N
    OBVIOUS
  <2>2. N \notin T
    BY <1>1
  <2> QED BY <2>1, <2>2
<1>3. \A n \in 0..N : g[n] = IF n = 0 THEN r ELSE F[n][g[n - 1]]
  BY <1>2
<1>4. g = [n \in 0..N |-> g[n]]
  BY <1>2
<1>5. g[0] = r
  BY <1>3
<1>6. \A n \in 1..N : g[n] = F[n][g[n - 1]]
  BY <1>3
<1> QED BY <1>4, <1>5, <1>6 DEF Solves

SelectStep(f, seq, set) ==
    [n \in 0..Len(seq) |->
       IF n = 0 THEN <<>>
       ELSE IF seq[n] \in set THEN Append(f[n - 1], seq[n]) ELSE f[n - 1]]

(* SelectIn gives a sequence of elements of its argument. *)
LEMMA InSelect ==
    ASSUME NEW T, NEW seq \in Seq(T), NEW set
    PROVE  SelectIn(seq, set) \in Seq(T) /\ ToSet(SelectIn(seq, set)) \subseteq ToSet(seq)
<1> DEFINE N == Len(seq)
           S == {x \in Seq(T) : ToSet(x) \subseteq ToSet(seq)}
           P == [n \in 0..N |-> S]
           F == [n \in 1..N |-> [x \in S |-> IF seq[n] \in set THEN Append(x, seq[n]) ELSE x]]
           K == CHOOSE f : f = SelectStep(f, seq, set)
<1>1. /\ N \in Nat /\ \A n \in 1..N : seq[n] \in T /\ seq[n] \in ToSet(seq)
      /\ <<>> \in S
  BY InSeq, InEmpty
<1>2. \A n \in 1..N : \A x \in S : seq[n] \in set => Append(x, seq[n]) \in S
  BY <1>1, InAppend
<1>3. \A n \in 1..N : \A x \in S :
        F[n][x] = (IF seq[n] \in set THEN Append(x, seq[n]) ELSE x) /\ F[n][x] \in S
  BY <1>2
<1>4. /\ \A n \in 0..N : P[n] = S
      /\ \A n \in 1..N : n \in 0..N /\ n - 1 \in 0..N /\ n # 0
      /\ 0 \in 0..N
  BY <1>1
<1> HIDE DEF S, F, K, P
<1>5. PICK g : Solves(g, N, F, <<>>)
  <2>1. N \in Nat
    BY <1>1
  <2> HIDE DEF N
  <2> QED BY <2>1, Solve
<1> HIDE DEF N
<1> USE DEF Solves
<1>6. \A n \in 0..N : g[n] \in P[n]
  <2>1. g[0] \in P[0]
    BY <1>1, <1>4, <1>5
  <2>2. \A n \in 1..N : g[n] = F[n][g[n - 1]]
    BY <1>5
  <2>3. \A n \in 1..N : g[n - 1] \in P[n - 1] => g[n] \in P[n]
    BY <1>3, <1>4, <2>2
  <2> QED BY <1>1, <2>1, <2>3, Climb
<1>7. g = SelectStep(g, seq, set)
  <2>1. \A n \in 0..N : g[n] = IF n = 0 THEN <<>>
           ELSE IF seq[n] \in set THEN Append(g[n - 1], seq[n]) ELSE g[n - 1]
    <3>1. g[0] = <<>> /\ \A n \in 1..N : g[n] = F[n][g[n - 1]]
      BY <1>5
    <3>2. \A n \in 1..N : g[n - 1] \in S
      BY <1>4, <1>6
    <3>3. \A n \in 0..N : n = 0 \/ n \in 1..N
      BY <1>1
    <3> QED BY <1>3, <3>1, <3>2, <3>3
  <2>2. g = [n \in 0..N |-> g[n]]
    BY <1>5
  <2> QED BY <2>1, <2>2 DEF SelectStep, N
<1>8. K = SelectStep(K, seq, set)
  BY <1>7 DEF K
<1>9. \A n \in 0..N : K[n] \in P[n]
  <2>1. K[0] \in P[0]
    BY <1>1, <1>4, <1>8 DEF SelectStep, N
  <2>2. \A n \in 1..N : K[n - 1] \in P[n - 1] => K[n] \in P[n]
    <3> SUFFICES ASSUME NEW n \in 1..N, K[n - 1] \in P[n - 1] PROVE K[n] \in P[n]
      OBVIOUS
    <3>1. K[n] = IF seq[n] \in set THEN Append(K[n - 1], seq[n]) ELSE K[n - 1]
      BY <1>4, <1>8 DEF SelectStep, N
    <3> QED BY <1>2, <1>4, <3>1
  <2> QED BY <1>1, <2>1, <2>2, Climb
<1>10. SelectIn(seq, set) = K[N]
  BY DEF SelectIn, SelectStep, K, N
<1>11. SelectIn(seq, set) \in S
  BY <1>1, <1>4, <1>9, <1>10
<1> QED BY <1>11 DEF S

(* SetToSeq gives a sequence of the elements of a finite set. *)
LEMMA InSetToSeq ==
    ASSUME NEW S, IsFiniteSet(S)
    PROVE  SetToSeq(S) \in Seq(S)
<1> DEFINE f == SetToSeq(S)
<1>1. PICK n \in Nat : ExistsBijection(1..n, S)
  BY FS_NatBijection
<1>2. Cardinality(S) = n
  BY <1>1, FS_CountingElements
<1>3. \E g \in [1..n -> S] : IsInjective(g)
  BY <1>1 DEF ExistsBijection, Bijection, Injection
<1>4. f \in [1..n -> S]
  BY <1>2, <1>3 DEF SetToSeq
<1> HIDE DEF f
<1>5. f \in Seq(S)
  BY <1>4, SeqDef
<1> QED BY <1>5 DEF f

-----------------------------------------------------------------------------
(* One step of the service's state, from c and L to d and M.               *)
Goes(c, L, d, M, K) ==
    /\ ServiceOk(d, M) /\ L \subseteq M
    /\ \A l : Issued(c, l) => Issued(d, l)
    /\ \A l : \A q \in Peers, g \in Nat :
         Issued(c, l) /\ Spent(c, L, q, l, g) => Spent(d, M, q, l, g)
    /\ Installed(d, M) \subseteq Installed(c, L) \cup K

LEMMA GoesOn ==
    ASSUME NEW c, NEW L, NEW d, NEW M, NEW e, NEW N, NEW K,
           Goes(c, L, d, M, K), Goes(d, M, e, N, K)
    PROVE  Goes(c, L, e, N, K)
BY DEF Goes

(* The requests of connection q, when c has been taken to d. *)
Keeps(c, d) ==
    \A q \in Peers : d.links[q] # None =>
        c.links[q] # None /\ d.links[q].requests = c.links[q].requests

(* Closing connections. *)
ClosesAs(c, L, ps, d) ==
    /\ Goes(c, L, d, L, {})
    /\ ToSet(d.replies) \subseteq ToSet(c.replies)
    /\ \A q \in Peers : d.links[q] = IF q \in ps THEN None ELSE c.links[q]
    /\ d = [c EXCEPT !.links = d.links, !.replies = d.replies,
                     !.pushes = d.pushes, !.members = d.members]
    /\ d.members = {m \in c.members : m.peer \notin ps}

LEMMA ClosedGoes ==
    ASSUME NEW c, NEW L, ServiceOk(c, L), NEW ps
    PROVE  ClosesAs(c, L, ps, Closed(c, ps))
<1> DEFINE d == Closed(c, ps)
           ms == {m \in c.members : m.peer \notin ps}
           ls == [q \in Peers |-> IF q \in ps THEN None ELSE c.links[q]]
           rs == Without(c.replies, ps)
           us == Without(c.pushes, ps)
<1>1. c \in ChatType /\ IsFiniteSet(c.members) /\ L \subseteq LogType
  BY DEF ServiceOk
<1>2. /\ rs \in Seq(QueuedReply) /\ ToSet(rs) \subseteq ToSet(c.replies)
      /\ us \in Seq(QueuedPush)
  <2>1. c.replies \in Seq(QueuedReply) /\ c.pushes \in Seq(QueuedPush)
    BY <1>1 DEF ChatType
  <2> QED BY <2>1, InSelect DEF Without
<1>3. ms \subseteq ServiceMember /\ IsFiniteSet(ms)
  BY <1>1, FS_Subset DEF ChatType
<1>4. ls \in [Peers -> EndType \cup {None}]
  BY <1>1 DEF ChatType
<1>5. d = [c EXCEPT !.links = ls, !.replies = rs, !.pushes = us, !.members = ms]
  BY DEF Closed
<1> HIDE DEF ms, ls, rs, us, d
<1>6. d \in ChatType /\ d.links = ls /\ d.members = ms /\ d.replies = rs /\ d.inc = c.inc
      /\ d.linkGen = c.linkGen
      /\ d = [c EXCEPT !.links = d.links, !.replies = d.replies, !.pushes = d.pushes,
                       !.members = d.members]
  BY <1>1, <1>2, <1>3, <1>4, <1>5 DEF ChatType
<1>7. \A q \in Peers : ls[q] = IF q \in ps THEN None ELSE c.links[q]
  BY DEF ls
<1>8. \A q \in Peers : Served(d, q) => Served(c, q) /\ d.links[q] = c.links[q] /\ q \notin ps
  BY <1>6, <1>7 DEF Served
<1>9. LinksOk(d)
  BY <1>6, <1>8 DEF ServiceOk, LinksOk
<1>10. \A m \in ms : m \in c.members /\ m.peer \notin ps /\ m.peer \in Peers
  BY <1>1 DEF ms, ChatType, ServiceMember
<1>11. OneEach(ms) /\ \A m \in ms : MemberOk(d, L, m)
  <2>1. OneEach(ms)
    BY <1>10 DEF ServiceOk, OneEach
  <2>2. ASSUME NEW m \in ms PROVE MemberOk(d, L, m)
    <3>1. MemberOk(c, L, m) /\ m.peer \in Peers /\ m.peer \notin ps
      BY <1>10 DEF ServiceOk
    <3>2. d.links[m.peer] = c.links[m.peer] /\ d.inc = c.inc
      BY <1>6, <1>7, <3>1
    <3> QED BY <3>1, <3>2 DEF MemberOk, Served
  <2> QED BY <2>1, <2>2
<1>12. ServiceOk(d, L)
  BY <1>1, <1>3, <1>6, <1>9, <1>11 DEF ServiceOk
<1>13. Installed(d, L) \subseteq Installed(c, L)
  BY <1>6, <1>10 DEF Installed
<1>14. \A l : Issued(c, l) => Issued(d, l)
  BY <1>6 DEF Issued
<1>15. \A l : \A q \in Peers, g \in Nat : Spent(c, L, q, l, g) => Spent(d, L, q, l, g)
  BY <1>6, <1>7, <1>13 DEF Spent, Link
<1>16. Goes(c, L, d, L, {})
  BY <1>12, <1>13, <1>14, <1>15 DEF Goes
<1>17. ToSet(d.replies) \subseteq ToSet(c.replies)
  BY <1>2, <1>6
<1>18. d.members = {m \in c.members : m.peer \notin ps}
  BY <1>6 DEF ms
<1>19. \A q \in Peers : d.links[q] = IF q \in ps THEN None ELSE c.links[q]
  BY <1>6, <1>7
<1>20. ClosesAs(c, L, ps, d)
  BY <1>6, <1>16, <1>17, <1>18, <1>19 DEF ClosesAs
<1> QED BY <1>20 DEF d

(* A step that leaves the links alone, and makes no member. *)
LEMMA FewerGoes ==
    ASSUME NEW c, NEW L, ServiceOk(c, L), NEW d \in ChatType, NEW K,
           d.inc = c.inc, d.linkGen = c.linkGen, d.members \subseteq c.members,
           \A q \in Peers : d.links[q] = None <=> c.links[q] = None,
           \A q \in Peers : c.links[q] # None =>
             d.links[q].link = c.links[q].link /\ c.links[q].high <= d.links[q].high
    PROVE  Goes(c, L, d, L, K)
<1>1. c \in ChatType /\ IsFiniteSet(d.members) /\ L \subseteq LogType
  BY FS_Subset DEF ServiceOk
<1>2. \A q \in Peers : Served(d, q) <=> Served(c, q)
  BY DEF Served
<1>3. LinksOk(d)
  BY <1>2 DEF ServiceOk, LinksOk, Served
<1>4. \A q \in Peers : c.links[q] # None => c.links[q].high \in Nat /\ d.links[q].high \in Nat
  BY <1>1 DEF ChatType, EndType
<1>5. \A m \in d.members : MemberOk(d, L, m)
  <2> SUFFICES ASSUME NEW m \in d.members PROVE MemberOk(d, L, m)
    OBVIOUS
  <2>1. MemberOk(c, L, m) /\ m.peer \in Peers /\ m.member.gen \in Nat
    BY <1>1 DEF ServiceOk, ChatType, ServiceMember, MemberType
  <2>2. m.member.gen <= d.links[m.peer].high
    BY <1>4, <2>1 DEF MemberOk, Served
  <2> QED BY <1>2, <2>1, <2>2 DEF MemberOk
<1>6. OneEach(d.members) /\ LogOnce(L)
  BY DEF OneEach, ServiceOk
<1>7. ServiceOk(d, L)
  BY <1>1, <1>3, <1>5, <1>6 DEF ServiceOk
<1>8. Installed(d, L) \subseteq Installed(c, L)
  BY DEF Installed
<1>9. \A l : Issued(c, l) => Issued(d, l)
  BY DEF Issued
<1>10. \A l : \A q \in Peers, g \in Nat : Spent(c, L, q, l, g) => Spent(d, L, q, l, g)
  <2> SUFFICES ASSUME NEW q \in Peers, NEW l, NEW g \in Nat, Spent(c, L, q, l, g),
                      g \in Installed(d, L), d.links[q] # None, l = Link(d, d.links[q].link)
               PROVE  g <= d.links[q].high
    BY DEF Spent
  <2>1. c.links[q] # None /\ l = Link(c, c.links[q].link)
    BY DEF Link
  <2>2. g <= c.links[q].high
    BY <1>8, <2>1 DEF Spent
  <2> QED BY <1>4, <2>1, <2>2
<1> QED BY <1>7, <1>8, <1>9, <1>10 DEF Goes

(* f answers request r. *)
AnswerOk(d, M, f, r) ==
    /\ f \in ReplyType /\ f.id = r.id /\ f.op = r.op
    /\ f.op = "HELLO" /\ f.status = "OK" => Issued(d, f.link)
    /\ f.op = "SEND" => TrueReply(M, f, r)

JoinOf(r) == IF r.op = "JOIN" THEN {r.member.gen} ELSE {}

(* What request r of a connection may do to c, with reply f. *)
Does(c, L, d, M, r, f) ==
    /\ Goes(c, L, d, M, JoinOf(r))
    /\ ToSet(d.replies) \subseteq ToSet(c.replies)
    /\ Keeps(c, d)
    /\ AnswerOk(d, M, f, r)

LEMMA StaysGoes ==
    ASSUME NEW c, NEW L, ServiceOk(c, L), NEW K
    PROVE  Goes(c, L, c, L, K)
BY DEF Goes

LEMMA ReplyTypes ==
    ASSUME NEW r \in RequestType,
           NEW status \in {"OK", "INVALID", "STALE_MEMBERSHIP", "BUSY", "STALE_LINK", "UNAVAILABLE"},
           status = "OK" => r.op = "LEAVE" \/ r.op = "HELLO"
    PROVE  LET f == ChatReply(r, status) IN
           /\ f \in ReplyType /\ f.id = r.id /\ f.op = r.op /\ f.status = status
BY DEF ChatReply, ReplyType, RequestType, Ops

LEMMA RefusedDoes ==
    ASSUME NEW c, NEW L, ServiceOk(c, L), NEW r \in RequestType,
           NEW status \in {"INVALID", "STALE_MEMBERSHIP", "BUSY", "STALE_LINK", "UNAVAILABLE"}
    PROVE  Does(c, L, c, L, r, ChatReply(r, status))
<1> DEFINE f == ChatReply(r, status)
<1>1. f \in ReplyType /\ f.id = r.id /\ f.op = r.op /\ f.status = status
  BY ReplyTypes
<1> HIDE DEF f
<1>2. AnswerOk(c, L, f, r)
  BY <1>1 DEF AnswerOk, TrueReply
<1> QED BY <1>2, StaysGoes DEF Does, Keeps, f

LEMMA OkReplyTypes ==
    ASSUME NEW r \in RequestType, r.op # "HELLO", NEW b,
           r.op \in {"JOIN", "STATE"} => b \in StateType,
           r.op = "SEND" => b \in ResultType,
           r.op = "LEAVE" => b = None
    PROVE  LET f == OkReply(r, b) IN
           /\ f \in ReplyType /\ f.id = r.id /\ f.op = r.op /\ f.status = "OK"
           /\ f.body = b
<1> DEFINE f == OkReply(r, b)
<1>1. /\ r \in [kind : {"request"}, id : Nat, op : Ops,
            link : LinkType \cup {None}, member : MemberType \cup {None},
            send : SendType \cup {None}]
  BY DEF RequestType, Ops
<1>2. b \in StateType \cup ResultType \cup {None}
  BY <1>1 DEF Ops
<1> DEFINE g == ChatReply(r, "OK")
           Bodies == StateType \cup ResultType \cup {None}
           Loose == [kind : {"reply"}, id : Nat, op : Ops, link : LinkType \cup {None},
                     status : {"OK", "INVALID", "STALE_MEMBERSHIP", "BUSY", "STALE_LINK",
                               "UNAVAILABLE"},
                     member : MemberType \cup {None}, body : Bodies]
<1>3. g \in Loose /\ g.id = r.id /\ g.op = r.op /\ g.status = "OK"
  BY <1>1 DEF ChatReply
<1>4. f = [g EXCEPT !.member = r.member, !.body = b]
  BY DEF OkReply
<1> HIDE DEF f, g, Bodies
<1>5. f \in Loose /\ f.id = r.id /\ f.op = r.op /\ f.status = "OK" /\ f.body = b
  BY <1>1, <1>2, <1>3, <1>4 DEF Bodies
<1> QED BY <1>5 DEF ReplyType, Bodies, f

LEMMA HelloDoes ==
    ASSUME NEW c, NEW L, ServiceOk(c, L), NEW p \in Peers, c.links[p] # None,
           NEW r \in RequestType, r.op = "HELLO"
    PROVE  LET h == Hello(c, p, r) IN Does(c, L, h.chat, L \cup h.logged, r, h.reply)
<1> DEFINE h == Hello(c, p, r)
           old == {q \in Peers \ {p} : c.links[q] # None /\ c.links[q].link # 0}
           e == Closed(c, old)
           gen == c.linkGen + 1
           d == [e EXCEPT !.links[p].link = gen, !.linkGen = gen, !.replaced = @ \cup old]
           f == [ChatReply(r, "OK") EXCEPT !.link = Link(c, gen)]
<1>1. CASE c.links[p].link # 0
  <2>1. h.chat = c /\ h.logged = {} /\ h.reply = ChatReply(r, "INVALID")
    BY <1>1 DEF Hello, Handled
  <2> HIDE DEF h
  <2>2. L \cup h.logged = L
    BY <2>1
  <2> QED BY <2>1, <2>2, RefusedDoes DEF h
<1>2. CASE c.links[p].link = 0
  <2>1. h.chat = d /\ h.logged = {} /\ h.reply = f
    BY <1>2 DEF Hello, Handled
  <2>2. /\ Goes(c, L, e, L, {}) /\ ToSet(e.replies) \subseteq ToSet(c.replies)
        /\ \A q \in Peers : e.links[q] = IF q \in old THEN None ELSE c.links[q]
        /\ e.inc = c.inc /\ e.linkGen = c.linkGen /\ e \in ChatType
        /\ e.members = {m \in c.members : m.peer \notin old}
    <3>1. c \in ChatType
      BY DEF ServiceOk
    <3> HIDE DEF old
    <3>5. ClosesAs(c, L, old, e)
      BY ClosedGoes
    <3> HIDE DEF e
    <3>2. /\ Goes(c, L, e, L, {}) /\ ToSet(e.replies) \subseteq ToSet(c.replies)
          /\ \A q \in Peers : e.links[q] = IF q \in old THEN None ELSE c.links[q]
          /\ e = [c EXCEPT !.links = e.links, !.replies = e.replies,
                           !.pushes = e.pushes, !.members = e.members]
          /\ e.members = {m \in c.members : m.peer \notin old}
      BY <3>5 DEF ClosesAs
    <3>3. e.inc = c.inc /\ e.linkGen = c.linkGen
      BY <3>1, <3>2 DEF ChatType
    <3>4. e \in ChatType
      BY <3>2 DEF Goes, ServiceOk
    <3> QED BY <3>2, <3>3, <3>4
  <2>3. e.links[p] = c.links[p] /\ p \notin old /\ e.links[p] \in EndType
        /\ e.links[p].high \in Nat
    <3>1. p \notin old
      OBVIOUS
    <3>2. e.links[p] \in EndType \cup {None}
      BY <2>2 DEF ChatType
    <3> HIDE DEF old
    <3>3. e.links[p] = c.links[p]
      BY <2>2, <3>1
    <3> QED BY <3>1, <3>2, <3>3 DEF EndType
  <2>4. \A q \in Peers \ {p} : ~Served(e, q)
    <3> SUFFICES ASSUME NEW q \in Peers \ {p}, Served(e, q) PROVE FALSE
      OBVIOUS
    <3>1. q \notin old /\ e.links[q] = c.links[q]
      <4> HIDE DEF old
      <4> QED BY <2>2 DEF Served
    <3> QED BY <3>1 DEF Served
  <2>5. e.members = {}
    <3> SUFFICES ASSUME NEW m \in e.members PROVE FALSE
      OBVIOUS
    <3>1. Served(e, m.peer) /\ m.peer \in Peers
      BY <2>2 DEF Goes, ServiceOk, MemberOk, ChatType, ServiceMember
    <3>2. m.peer = p
      BY <2>4, <3>1
    <3> QED BY <1>2, <2>3, <3>1, <3>2 DEF Served
  <2>6. gen \in Nat \ {0} /\ c.inc \in Nat /\ c.linkGen \in Nat
    BY DEF ServiceOk, ChatType
  <2> HIDE DEF old, e
  <2>7. /\ d \in ChatType /\ d.linkGen = gen /\ d.inc = c.inc /\ d.members = {}
        /\ d.replies = e.replies
        /\ \A q \in Peers : d.links[q] = IF q = p THEN [e.links[p] EXCEPT !.link = gen] ELSE e.links[q]
    <3>1. [e.links[p] EXCEPT !.link = gen] \in EndType
      BY <2>3, <2>6 DEF EndType
    <3>2. old \subseteq Peers
      BY DEF old
    <3> HIDE DEF gen
    <3> QED BY <2>2, <2>5, <2>6, <3>1, <3>2 DEF ChatType, gen
  <2>8. /\ d.links[p] \in EndType /\ d.links[p] # None /\ d.links[p].link = gen
        /\ d.links[p].requests = c.links[p].requests /\ d.links[p].high = c.links[p].high
    BY <2>3, <2>6, <2>7, NoneAssumption DEF EndType
  <2> HIDE DEF d, gen
  <2>9. \A q \in Peers : Served(d, q) => q = p
    BY <2>4, <2>7 DEF Served
  <2>10. LinksOk(d)
    BY <2>6, <2>7, <2>8, <2>9 DEF LinksOk
  <2>11. ServiceOk(d, L)
    <3>1. IsFiniteSet(d.members)
      BY <2>7, FS_EmptySet
    <3> QED BY <2>7, <2>10, <3>1 DEF ServiceOk, OneEach
  <2>12. Installed(d, L) \subseteq Installed(c, L)
    BY <2>7 DEF Installed
  <2>13. \A l : Issued(c, l) => Issued(d, l) /\ l # Link(d, gen)
    BY <2>6, <2>7 DEF Issued, LinkType, Link, gen
  <2>14. ASSUME NEW q \in Peers, NEW l, NEW g \in Nat, Issued(c, l), Spent(c, L, q, l, g)
         PROVE  Spent(d, L, q, l, g)
    <3>1. CASE q = p
      BY <2>8, <2>13, <2>14, <3>1 DEF Spent
    <3>2. CASE q # p
      <4>1. d.links[q] # None => d.links[q] = c.links[q]
        BY <2>2, <2>7, <3>2
      <4>2. d.inc = c.inc
        BY <2>7
      <4> QED BY <2>12, <2>14, <4>1, <4>2 DEF Spent, Link
    <3> QED BY <3>1, <3>2
  <2>15. Goes(c, L, d, L, JoinOf(r))
    BY <2>11, <2>12, <2>13, <2>14 DEF Goes
  <2>16. Keeps(c, d)
    BY <2>2, <2>7, <2>8 DEF Keeps
  <2>17. AnswerOk(d, L, f, r)
    <3>1. Link(c, gen) \in LinkType /\ Issued(d, Link(c, gen))
      BY <2>6, <2>7 DEF Link, LinkType, Issued
    <3> DEFINE b == ChatReply(r, "OK")
    <3>2. b \in ReplyType /\ b.id = r.id /\ b.op = "HELLO"
      BY ReplyTypes
    <3>3. /\ f \in ReplyType /\ f.id = r.id /\ f.op = "HELLO" /\ f.link = Link(c, gen)
      <4> HIDE DEF b
      <4> QED BY <3>1, <3>2 DEF ReplyType, b
    <3> HIDE DEF f
    <3> QED BY <3>1, <3>3 DEF AnswerOk
  <2>18. L \cup h.logged = L
    BY <2>1
  <2> HIDE DEF f, h
  <2>19. ToSet(d.replies) \subseteq ToSet(c.replies)
    BY <2>2, <2>7
  <2>20. Does(c, L, d, L, r, f)
    BY <2>15, <2>16, <2>17, <2>19 DEF Does
  <2> QED BY <2>1, <2>18, <2>20 DEF h
<1> QED BY <1>1, <1>2

(* The connection p of request r, past the checks of Handle. *)
Linking(c, p, r) ==
    /\ c.links[p] # None /\ c.links[p].link # 0
    /\ r.link = Link(c, c.links[p].link)

LEMMA LeaveDoes ==
    ASSUME NEW c, NEW L, ServiceOk(c, L), NEW p \in Peers,
           NEW r \in RequestType, r.op = "LEAVE", Linking(c, p, r)
    PROVE  LET h == Leave(c, p, r) IN Does(c, L, h.chat, L \cup h.logged, r, h.reply)
<1> DEFINE h == Leave(c, p, r)
           high == IF c.links[p].high < r.member.gen THEN r.member.gen ELSE c.links[p].high
           ms == c.members \ MemberOf(c, p, r)
           d == [c EXCEPT !.links[p].high = high, !.members = ms]
           f == OkReply(r, None)
<1>1. h.chat = d /\ h.logged = {} /\ h.reply = f
  BY DEF Leave, Handled
<1>2. c \in ChatType /\ c.links[p] \in EndType /\ r.member.gen \in Nat
  BY DEF ServiceOk, ChatType, Linking, RequestType, MemberType
<1>3. high \in Nat /\ c.links[p].high <= high
  BY <1>2 DEF EndType
<1>4. ms \subseteq c.members
  OBVIOUS
<1> HIDE DEF high, ms
<1>5. /\ d \in ChatType /\ d.inc = c.inc /\ d.linkGen = c.linkGen /\ d.members = ms
      /\ d.replies = c.replies
      /\ \A q \in Peers : d.links[q] = IF q = p THEN [c.links[p] EXCEPT !.high = high] ELSE c.links[q]
  <2>1. [c.links[p] EXCEPT !.high = high] \in EndType
    BY <1>2, <1>3 DEF EndType
  <2> QED BY <1>2, <1>4, <2>1 DEF ChatType
<1> HIDE DEF d, f, h
<1>6. /\ d.links[p] # None /\ d.links[p].link = c.links[p].link
      /\ d.links[p].requests = c.links[p].requests /\ d.links[p].high = high
  BY <1>2, <1>3, <1>5, NoneAssumption DEF EndType
<1>7. \A q \in Peers : c.links[q] # None => c.links[q].high \in Nat
  BY <1>2 DEF ChatType, EndType
<1>8. Goes(c, L, d, L, JoinOf(r))
  <2>1. \A q \in Peers : d.links[q] = None <=> c.links[q] = None
    BY <1>5, <1>6 DEF Linking
  <2>2. \A q \in Peers : c.links[q] # None =>
           d.links[q].link = c.links[q].link /\ c.links[q].high <= d.links[q].high
    BY <1>3, <1>5, <1>6, <1>7
  <2> QED BY <1>4, <1>5, <2>1, <2>2, FewerGoes
<1>9. Keeps(c, d)
  BY <1>5, <1>6 DEF Keeps, Linking
<1>10. AnswerOk(d, L, f, r)
  <2>1. f \in ReplyType /\ f.id = r.id /\ f.op = r.op
    BY OkReplyTypes DEF f
  <2> QED BY <2>1 DEF AnswerOk
<1>11. L \cup h.logged = L
  BY <1>1
<1>12. Does(c, L, d, L, r, f)
  BY <1>5, <1>8, <1>9, <1>10 DEF Does
<1> QED BY <1>1, <1>11, <1>12 DEF h

(* A membership is only taken with a generation that never took effect.    *)
LEMMA InstallDoes ==
    ASSUME NEW c, NEW L, ServiceOk(c, L), NEW p \in Peers,
           NEW r \in RequestType, r.op = "JOIN", Linking(c, p, r),
           Spent(c, L, p, r.link, r.member.gen)
    PROVE  LET h == Install(c, p, r) IN Does(c, L, h.chat, L \cup h.logged, r, h.reply)
<1> DEFINE h == Install(c, p, r)
           old == {m \in c.members : m.member.character = r.member.character}
           g == r.member.gen
           n == [peer |-> p, member |-> r.member, inc |-> c.inc, from |-> c.sequence,
                 last |-> 0, text |-> None, receipt |-> 0]
           ms == (c.members \ old) \cup {n}
           d == [c EXCEPT !.links[p].high = g, !.members = ms]
           f == OkReply(r, State(n))
<1>1. c \in ChatType /\ c.links[p] \in EndType /\ r.member \in MemberType /\ g \in Nat
  BY DEF ServiceOk, ChatType, Linking, RequestType, MemberType
<1>2. CASE ~(h.chat = d /\ h.logged = {} /\ h.reply = f /\ ~(g <= c.links[p].high))
  <2>1. \E status \in {"STALE_MEMBERSHIP", "BUSY"} :
           h.chat = c /\ h.logged = {} /\ h.reply = ChatReply(r, status)
    BY <1>2 DEF Install, Handled
  <2> HIDE DEF h
  <2>2. L \cup h.logged = L
    BY <2>1
  <2> QED BY <2>1, <2>2, RefusedDoes DEF h
<1>3. CASE h.chat = d /\ h.logged = {} /\ h.reply = f /\ ~(g <= c.links[p].high)
  <2>1. /\ n \in ServiceMember /\ n.member.gen = g /\ n.peer = p /\ n.last = 0
        /\ State(n) \in StateType
    BY <1>1 DEF ServiceMember, State, StateType, ChatType
  <2> HIDE DEF n, h
  <2>2. g \notin Installed(c, L)
    BY <1>3 DEF Spent, Linking
  <2>3. (\A e \in L : e.gen # g) /\ (\A m \in c.members : m.member.gen # g)
    BY <2>2 DEF Installed
  <2>4. \A m \in ms : m = n \/ m \in c.members
    OBVIOUS
  <2>5. n \in ms /\ ms \subseteq ServiceMember /\ IsFiniteSet(ms)
    <3>1. IsFiniteSet(c.members \ old)
      BY FS_Subset DEF ServiceOk
    <3> QED BY <1>1, <2>1, <3>1, FS_AddElement DEF ChatType
  <2> HIDE DEF ms
  <2>6. /\ d \in ChatType /\ d.inc = c.inc /\ d.linkGen = c.linkGen /\ d.members = ms
        /\ d.replies = c.replies
        /\ \A q \in Peers : d.links[q] = IF q = p THEN [c.links[p] EXCEPT !.high = g] ELSE c.links[q]
    <3>1. [c.links[p] EXCEPT !.high = g] \in EndType
      BY <1>1 DEF EndType
    <3> HIDE DEF g
    <3> QED BY <1>1, <2>5, <3>1 DEF ChatType
  <2>7. d \in ChatType /\ (\A q \in Peers : d.links[q] # None => d.links[q] \in EndType)
    BY <2>6 DEF ChatType
  <2> HIDE DEF d, f
  <2>8. /\ d.links[p] # None /\ d.links[p].link = c.links[p].link
        /\ d.links[p].requests = c.links[p].requests /\ d.links[p].high = g
    BY <1>1, <2>6, NoneAssumption DEF EndType
  <2>9. \A q \in Peers : Served(d, q) <=> Served(c, q)
    BY <2>6, <2>8 DEF Served, Linking
  <2>10. \A q \in Peers : Served(c, q) =>
            d.links[q].link = c.links[q].link /\ c.links[q].high <= d.links[q].high
              /\ c.links[q].high \in Nat /\ d.links[q].high \in Nat
    <3> SUFFICES ASSUME NEW q \in Peers, Served(c, q)
                 PROVE  d.links[q].link = c.links[q].link /\ c.links[q].high <= d.links[q].high
                          /\ c.links[q].high \in Nat /\ d.links[q].high \in Nat
      OBVIOUS
    <3>1. c.links[q] \in EndType /\ c.links[q].high \in Nat
      BY <1>1 DEF ChatType, EndType, Served
    <3>2. CASE q = p
      BY <1>1, <1>3, <2>8, <3>1, <3>2
    <3>3. CASE q # p
      BY <2>6, <3>1, <3>3
    <3> QED BY <3>2, <3>3
  <2>11. LinksOk(d)
    BY <2>6, <2>9, <2>10 DEF ServiceOk, LinksOk
  <2>12. OneEach(ms)
    BY <2>1, <2>3, <2>4 DEF ServiceOk, OneEach
  <2>13. ASSUME NEW m \in ms PROVE MemberOk(d, L, m)
    <3>1. CASE m = n
      <4>1. Served(d, p) /\ g <= d.links[p].high
        BY <1>1, <2>8 DEF Served, Linking
      <4> QED BY <2>1, <2>3, <3>1, <4>1 DEF MemberOk
    <3>2. CASE m \in c.members
      <4>1. MemberOk(c, L, m) /\ m.peer \in Peers /\ m.member.gen \in Nat
        BY <1>1, <3>2 DEF ServiceOk, ChatType, ServiceMember, MemberType
      <4>2. m.member.gen <= d.links[m.peer].high
        BY <2>10, <4>1 DEF MemberOk
      <4> QED BY <2>6, <2>9, <4>1, <4>2 DEF MemberOk
    <3> QED BY <2>4, <3>1, <3>2
  <2>14. ServiceOk(d, L)
    BY <2>5, <2>6, <2>11, <2>12, <2>13 DEF ServiceOk
  <2>15. Installed(d, L) \subseteq Installed(c, L) \cup {g}
    BY <2>1, <2>4, <2>6 DEF Installed
  <2>16. \A l : Issued(c, l) => Issued(d, l)
    BY <2>6 DEF Issued
  <2>17. ASSUME NEW q \in Peers, NEW l, NEW x \in Nat, Issued(c, l), Spent(c, L, q, l, x),
                x \in Installed(d, L), d.links[q] # None, l = Link(d, d.links[q].link)
         PROVE  x <= d.links[q].high
    <3>1. c.links[q] # None /\ d.links[q].link = c.links[q].link /\ l = Link(c, c.links[q].link)
      BY <2>6, <2>8, <2>17 DEF Link, Linking
    <3>2. Served(c, q)
      BY <2>17, <3>1 DEF Issued, LinkType, Link, Served
    <3>3. q = p
      BY <3>2 DEF ServiceOk, LinksOk, Linking, Served
    <3>4. x = g \/ x \in Installed(c, L)
      BY <2>15, <2>17
    <3>5. x \in Installed(c, L) => x <= c.links[q].high
      BY <2>17, <3>1 DEF Spent
    <3> QED BY <1>1, <2>8, <2>10, <3>2, <3>3, <3>4, <3>5
  <2>18. Goes(c, L, d, L, JoinOf(r))
    <3>1. \A l : \A q \in Peers, x \in Nat :
             Issued(c, l) /\ Spent(c, L, q, l, x) => Spent(d, L, q, l, x)
      BY <2>17 DEF Spent
    <3> QED BY <2>14, <2>15, <2>16, <3>1 DEF Goes, JoinOf
  <2>19. Keeps(c, d)
    BY <2>6, <2>8 DEF Keeps, Linking
  <2>20. AnswerOk(d, L, f, r)
    <3>1. f \in ReplyType /\ f.id = r.id /\ f.op = r.op
      BY <2>1, OkReplyTypes DEF f
    <3> QED BY <3>1 DEF AnswerOk
  <2>21. L \cup h.logged = L
    BY <1>3
  <2>22. Does(c, L, d, L, r, f)
    BY <2>6, <2>18, <2>19, <2>20 DEF Does
  <2>23. h.chat = d /\ h.reply = f
    BY <1>3
  <2> QED BY <2>21, <2>22, <2>23 DEF h
<1> QED BY <1>2, <1>3

LEMMA JoinDoes ==
    ASSUME NEW c, NEW L, ServiceOk(c, L), NEW p \in Peers,
           NEW r \in RequestType, r.op = "JOIN", Linking(c, p, r),
           Spent(c, L, p, r.link, r.member.gen)
    PROVE  LET h == Join(c, p, r) IN Does(c, L, h.chat, L \cup h.logged, r, h.reply)
<1> DEFINE h == Join(c, p, r)
           m == CHOOSE x \in MemberOf(c, p, r) : TRUE
           f == OkReply(r, State(m))
<1>1. CASE MemberOf(c, p, r) = {}
  <2>1. h = Install(c, p, r)
    BY <1>1 DEF Join
  <2> HIDE DEF h
  <2> QED BY <2>1, InstallDoes DEF h
<1>2. CASE MemberOf(c, p, r) # {}
  <2>1. h.chat = c /\ h.logged = {} /\ h.reply = f
    BY <1>2 DEF Join, Handled
  <2>2. m \in MemberOf(c, p, r)
    BY <1>2
  <2>3. State(m) \in StateType
    BY <2>2 DEF MemberOf, State, StateType, ServiceOk, ChatType, ServiceMember
  <2>4. AnswerOk(c, L, f, r)
    <3> HIDE DEF m
    <3>1. f \in ReplyType /\ f.id = r.id /\ f.op = r.op
      BY <2>3, OkReplyTypes DEF f
    <3> QED BY <3>1 DEF AnswerOk
  <2> HIDE DEF f, h
  <2>5. L \cup h.logged = L
    BY <2>1
  <2>6. Does(c, L, c, L, r, f)
    BY <2>4, StaysGoes DEF Does, Keeps
  <2> QED BY <2>1, <2>5, <2>6 DEF h
<1> QED BY <1>1, <1>2

(* The pushes of a message. *)
LEMMA ReservedTypes ==
    ASSUME NEW c, NEW L, ServiceOk(c, L), NEW seq \in Nat
    PROVE  Reserved(c, seq) \in Seq(QueuedPush)
<1> DEFINE Push(m) == [peer |-> m.peer,
                       frame |-> [kind |-> "push", link |-> Link(c, c.links[m.peer].link),
                                  member |-> m.member, inc |-> c.inc, seq |-> seq]]
           S == {Push(m) : m \in c.members}
<1>1. ASSUME NEW m \in c.members PROVE Push(m) \in QueuedPush
  <2>1. Served(c, m.peer) /\ m.peer \in Peers /\ m.member \in MemberType /\ c.inc \in Nat
    BY DEF ServiceOk, MemberOk, ChatType, ServiceMember
  <2>2. c.links[m.peer].link \in Nat
    BY <2>1 DEF ServiceOk, ChatType, Served, EndType
  <2> QED BY <2>1, <2>2 DEF QueuedPush, PushType, Link
<1>2. IsFiniteSet(S)
  <2> DEFINE f == [m \in c.members |-> Push(m)]
  <2> HIDE DEF Push
  <2>1. f \in Surjection(c.members, S)
    BY DEF Surjection
  <2> HIDE DEF f, S
  <2> QED BY <2>1, FS_Surjection DEF ServiceOk
<1>3. S \subseteq QueuedPush
  BY <1>1
<1>4. Reserved(c, seq) = SetToSeq(S)
  BY DEF Reserved
<1> HIDE DEF S
<1>5. SetToSeq(S) \in Seq(S)
  BY <1>2, InSetToSeq
<1>6. SetToSeq(S) \in Seq(QueuedPush)
  BY <1>3, <1>5
<1> QED BY <1>4, <1>6

(* A message is accepted in order, so it is a new one. *)
LEMMA AcceptDoes ==
    ASSUME NEW c, NEW L, ServiceOk(c, L), NEW p \in Peers,
           NEW r \in RequestType, r.op = "SEND", NEW m \in MemberOf(c, p, r),
           r.send.inc = c.inc, r.send.seq = m.last + 1
    PROVE  LET h == Accept(c, m, r) IN Does(c, L, h.chat, L \cup h.logged, r, h.reply)
<1> DEFINE h == Accept(c, m, r)
           seq == c.sequence + 1
           n == [m EXCEPT !.last = r.send.seq, !.text = r.send.text, !.receipt = seq]
           e == [inc |-> c.inc, at |-> seq, gen |-> m.member.gen, seq |-> r.send.seq,
                 text |-> r.send.text]
           ms == (c.members \ {m}) \cup {n}
           M == L \cup {e}
           rs == c.pushes \o Reserved(c, seq)
           d == [c EXCEPT !.sequence = seq, !.members = ms, !.pushes = rs]
           f == OkReply(r, Result("ACCEPTED", seq))
<1>1. h.chat = d /\ L \cup h.logged = M /\ h.reply = f
  BY DEF Accept
<1>2. /\ c \in ChatType /\ m \in c.members /\ m \in ServiceMember /\ m.member = r.member
      /\ m.peer = p /\ MemberOk(c, L, m) /\ seq \in Nat /\ L \subseteq LogType
      /\ r.send \in SendType /\ m.last \in Nat
  <2>1. c \in ChatType /\ L \subseteq LogType /\ m \in c.members /\ MemberOk(c, L, m)
    BY DEF ServiceOk, MemberOf
  <2>2. m.member = r.member /\ m.peer = p
    BY DEF MemberOf
  <2>3. m \in ServiceMember /\ seq \in Nat
    BY <2>1 DEF ChatType
  <2>4. m.last \in Nat
    BY <2>3 DEF ServiceMember
  <2>5. r.send \in SendType
    BY DEF RequestType
  <2> QED BY <2>1, <2>2, <2>3, <2>4, <2>5
<1>3. e \in LogType /\ e.gen = m.member.gen /\ e.seq = m.last + 1
  BY <1>2 DEF LogType, ChatType, ServiceMember, MemberType, SendType
<1>4. /\ n \in ServiceMember /\ n.member = m.member /\ n.peer = p /\ n.last = m.last + 1
      /\ n.last # 0 /\ n.receipt = seq /\ n.text = r.send.text
  <2>1. m.last + 1 \in Nat /\ m.last + 1 # 0 /\ r.send.text \in Texts
    BY <1>2 DEF SendType
  <2> HIDE DEF seq
  <2> QED BY <1>2, <2>1 DEF ServiceMember
<1>5. e = [inc |-> c.inc, at |-> n.receipt, gen |-> n.member.gen, seq |-> n.last, text |-> n.text]
  BY <1>4
<1>6. rs \in Seq(QueuedPush)
  <2>1. Reserved(c, seq) \in Seq(QueuedPush)
    BY <1>2, ReservedTypes
  <2> QED BY <1>2, <2>1, InConcat DEF ChatType
<1> HIDE DEF e, n, rs, seq
<1>7. \A x \in ms : x = n \/ (x \in c.members /\ x # m)
  OBVIOUS
<1>8. n \in ms /\ ms \subseteq ServiceMember /\ IsFiniteSet(ms)
  <2>1. IsFiniteSet(c.members \ {m})
    BY FS_Subset DEF ServiceOk
  <2> QED BY <1>2, <1>4, <2>1, FS_AddElement DEF ChatType
<1> HIDE DEF ms
<1>9. /\ d \in ChatType /\ d.inc = c.inc /\ d.linkGen = c.linkGen /\ d.members = ms
      /\ d.replies = c.replies /\ d.links = c.links
  BY <1>2, <1>6, <1>8 DEF ChatType
<1> HIDE DEF d, f, h
<1>10. \A q \in Peers : Served(d, q) <=> Served(c, q)
  BY <1>9 DEF Served
<1>11. LinksOk(d)
  BY <1>9, <1>10 DEF ServiceOk, LinksOk
<1>12. OneEach(ms)
  BY <1>2, <1>4, <1>7 DEF ServiceOk, OneEach
<1>13. \A x \in L : x.gen = m.member.gen => x.seq <= m.last /\ x.seq \in Nat
  BY <1>2 DEF MemberOk, LogType
<1>14. LogOnce(M)
  <2>1. \A x \in L : ~(x.gen = e.gen /\ x.seq = e.seq)
    BY <1>2, <1>3, <1>13
  <2> QED BY <2>1 DEF ServiceOk, LogOnce
<1>15. ASSUME NEW x \in ms PROVE MemberOk(d, M, x)
  <2>1. CASE x = n
    <3>1. Served(d, p) /\ n.member.gen <= d.links[p].high
      BY <1>2, <1>4, <1>9, <1>10 DEF MemberOk
    <3>2. \A y \in M : y.gen = n.member.gen => y.seq <= n.last
      BY <1>2, <1>3, <1>4, <1>13
    <3> QED BY <1>4, <1>5, <1>9, <2>1, <3>1, <3>2 DEF MemberOk
  <2>2. CASE x \in c.members /\ x # m
    <3>1. MemberOk(c, L, x) /\ x.peer \in Peers
      BY <1>2, <2>2 DEF ServiceOk, ChatType, ServiceMember
    <3>2. x.member.gen # e.gen
      BY <1>2, <1>3, <2>2 DEF ServiceOk, OneEach
    <3> QED BY <1>9, <1>10, <3>1, <3>2 DEF MemberOk
  <2> QED BY <1>7, <2>1, <2>2
<1>16. ServiceOk(d, M)
  BY <1>2, <1>3, <1>8, <1>9, <1>11, <1>12, <1>14, <1>15 DEF ServiceOk
<1>17. Installed(d, M) \subseteq Installed(c, L)
  BY <1>2, <1>3, <1>4, <1>7, <1>9 DEF Installed
<1>18. Goes(c, L, d, M, JoinOf(r))
  <2>1. \A l : Issued(c, l) => Issued(d, l)
    BY <1>9 DEF Issued
  <2>2. \A l : \A q \in Peers, g \in Nat : Spent(c, L, q, l, g) => Spent(d, M, q, l, g)
    BY <1>9, <1>17 DEF Spent, Link
  <2> QED BY <1>16, <1>17, <2>1, <2>2 DEF Goes
<1>19. AnswerOk(d, M, f, r)
  <2>1. Result("ACCEPTED", seq) \in ResultType /\ Result("ACCEPTED", seq).receipt = seq
    BY <1>2 DEF Result, ResultType
  <2>2. f \in ReplyType /\ f.id = r.id /\ f.op = r.op /\ f.body = Result("ACCEPTED", seq)
    BY <2>1, OkReplyTypes DEF f
  <2>3. e = [inc |-> r.send.inc, at |-> seq, gen |-> r.member.gen, seq |-> r.send.seq,
             text |-> r.send.text]
    BY <1>2 DEF e
  <2>4. TrueReply(M, f, r)
    BY <2>1, <2>2, <2>3 DEF TrueReply, Noted
  <2> QED BY <2>2, <2>4 DEF AnswerOk
<1>20. Keeps(c, d)
  BY <1>9 DEF Keeps
<1>21. Does(c, L, d, M, r, f)
  BY <1>9, <1>18, <1>19, <1>20 DEF Does
<1> QED BY <1>1, <1>21 DEF h

LEMMA SendDoes ==
    ASSUME NEW c, NEW L, ServiceOk(c, L), NEW p \in Peers, NEW limited \in BOOLEAN,
           NEW r \in RequestType, r.op = "SEND", NEW m \in MemberOf(c, p, r)
    PROVE  LET h == Send(c, m, r, limited) IN Does(c, L, h.chat, L \cup h.logged, r, h.reply)
<1> DEFINE h == Send(c, m, r, limited)
<1>1. CASE h = Accept(c, m, r) /\ r.send.inc = c.inc /\ r.send.seq = m.last + 1
  BY <1>1, AcceptDoes
<1>2. ASSUME NEW b \in ResultType, h.chat = c, h.logged = {}, h.reply = OkReply(r, b),
             b.outcome = "ACCEPTED" => Noted(L, r, b.receipt)
      PROVE  Does(c, L, h.chat, L \cup h.logged, r, h.reply)
  <2> DEFINE f == OkReply(r, b)
  <2>1. f \in ReplyType /\ f.id = r.id /\ f.op = r.op /\ f.body = b
    BY OkReplyTypes
  <2> HIDE DEF f, h
  <2>2. AnswerOk(c, L, f, r)
    BY <1>2, <2>1 DEF AnswerOk, TrueReply
  <2>3. Does(c, L, c, L, r, f)
    BY <2>2, StaysGoes DEF Does, Keeps
  <2>4. L \cup h.logged = L
    BY <1>2
  <2> QED BY <1>2, <2>3, <2>4 DEF f
<1>3. CASE h = Handled(c, OkReply(r, Result("REJECTED", 0)))
  <2>1. Result("REJECTED", 0) \in ResultType /\ Result("REJECTED", 0).outcome # "ACCEPTED"
    BY DEF Result, ResultType
  <2>2. h.chat = c /\ h.logged = {} /\ h.reply = OkReply(r, Result("REJECTED", 0))
    BY <1>3 DEF Handled
  <2> HIDE DEF h
  <2>3. Does(c, L, h.chat, L \cup h.logged, r, h.reply)
    BY <1>2, <2>1, <2>2
  <2> QED BY <2>3 DEF h
<1>4. CASE /\ h = Handled(c, OkReply(r, Result("ACCEPTED", m.receipt)))
           /\ r.send.inc = c.inc /\ r.send.seq = m.last /\ m.last # 0 /\ r.send.text = m.text
  <2>1. /\ MemberOk(c, L, m) /\ m.member = r.member /\ m.receipt \in Nat
    BY DEF ServiceOk, MemberOf, ChatType, ServiceMember
  <2>2. [inc |-> r.send.inc, at |-> m.receipt, gen |-> r.member.gen, seq |-> r.send.seq,
         text |-> r.send.text] \in L
    BY <1>4, <2>1 DEF MemberOk
  <2>3. /\ Result("ACCEPTED", m.receipt) \in ResultType
        /\ Result("ACCEPTED", m.receipt).receipt = m.receipt
    BY <2>1 DEF Result, ResultType
  <2>4. h.chat = c /\ h.logged = {} /\ h.reply = OkReply(r, Result("ACCEPTED", m.receipt))
    BY <1>4 DEF Handled
  <2> HIDE DEF h
  <2>5. Noted(L, r, Result("ACCEPTED", m.receipt).receipt)
    BY <2>2, <2>3 DEF Noted
  <2>6. Does(c, L, h.chat, L \cup h.logged, r, h.reply)
    BY <1>2, <2>3, <2>4, <2>5
  <2> QED BY <2>6 DEF h
<1> QED BY <1>1, <1>3, <1>4 DEF Send

(* Every request. *)
LEMMA HandleDoes ==
    ASSUME NEW c, NEW L, ServiceOk(c, L), NEW p \in Peers, c.links[p] # None,
           NEW limited \in BOOLEAN, NEW r \in RequestType,
           r.op = "JOIN" => Spent(c, L, p, r.link, r.member.gen)
    PROVE  LET h == Handle(c, p, r, limited) IN Does(c, L, h.chat, L \cup h.logged, r, h.reply)
<1> DEFINE h == Handle(c, p, r, limited)
           same == MemberOf(c, p, r)
           m == CHOOSE x \in same : TRUE
<1>1. r.op \in Ops
  BY DEF RequestType, Ops
<1>2. CASE r.op = "HELLO"
  <2>1. h = Hello(c, p, r)
    BY <1>2 DEF Handle
  <2> HIDE DEF h
  <2> QED BY <1>2, <2>1, HelloDoes DEF h
<1>3. ASSUME NEW status \in {"STALE_LINK", "STALE_MEMBERSHIP"}, h = Handled(c, ChatReply(r, status))
      PROVE  Does(c, L, h.chat, L \cup h.logged, r, h.reply)
  <2>1. h.chat = c /\ h.logged = {} /\ h.reply = ChatReply(r, status)
    BY <1>3 DEF Handled
  <2> HIDE DEF h
  <2>2. L \cup h.logged = L
    BY <2>1
  <2> QED BY <2>1, <2>2, RefusedDoes
<1>4. CASE r.op # "HELLO" /\ ~Linking(c, p, r)
  <2>1. h = Handled(c, ChatReply(r, "STALE_LINK"))
    BY <1>4 DEF Handle, Linking
  <2> HIDE DEF h
  <2> QED BY <1>3, <2>1 DEF h
<1>5. CASE r.op # "HELLO" /\ Linking(c, p, r)
  <2>1. CASE r.op = "LEAVE"
    <3>1. h = Leave(c, p, r)
      BY <1>5, <2>1 DEF Handle, Linking
    <3> HIDE DEF h
    <3> QED BY <1>5, <2>1, <3>1, LeaveDoes DEF h
  <2>2. CASE r.op = "JOIN"
    <3>1. h = Join(c, p, r)
      BY <1>5, <2>2 DEF Handle, Linking
    <3> HIDE DEF h
    <3> QED BY <1>5, <2>2, <3>1, JoinDoes DEF h
  <2>3. CASE r.op \in {"SEND", "STATE"} /\ same = {}
    <3>1. h = Handled(c, ChatReply(r, "STALE_MEMBERSHIP"))
      BY <1>5, <2>3 DEF Handle, Linking
    <3> HIDE DEF h
    <3> QED BY <1>3, <3>1 DEF h
  <2>4. CASE r.op = "SEND" /\ same # {}
    <3>1. h = Send(c, m, r, limited)
      BY <1>5, <2>4 DEF Handle, Linking
    <3>2. m \in MemberOf(c, p, r)
      BY <2>4
    <3> HIDE DEF h, m
    <3> QED BY <2>4, <3>1, <3>2, SendDoes DEF h
  <2>5. CASE r.op = "STATE" /\ same # {}
    <3>1. h = Handled(c, OkReply(r, State(m)))
      BY <1>5, <2>5 DEF Handle, Linking
    <3>2. m \in MemberOf(c, p, r)
      BY <2>5
    <3> HIDE DEF m
    <3>3. State(m) \in StateType
      BY <3>2 DEF MemberOf, State, StateType, ServiceOk, ChatType, ServiceMember
    <3> DEFINE f == OkReply(r, State(m))
    <3>4. h.chat = c /\ h.logged = {} /\ h.reply = f
      BY <3>1 DEF Handled
    <3>5. f \in ReplyType /\ f.id = r.id /\ f.op = r.op
      BY <2>5, <3>3, OkReplyTypes
    <3> HIDE DEF f, h
    <3>6. AnswerOk(c, L, f, r)
      BY <2>5, <3>5 DEF AnswerOk
    <3>7. L \cup h.logged = L
      BY <3>4
    <3>8. Does(c, L, c, L, r, f)
      BY <3>6, StaysGoes DEF Does, Keeps
    <3> QED BY <3>4, <3>7, <3>8 DEF h
  <2> QED BY <1>1, <1>5, <2>1, <2>2, <2>3, <2>4, <2>5 DEF Ops
<1> QED BY <1>2, <1>4, <1>5

-----------------------------------------------------------------------------
(* The steps of the service.                                               *)

LEMMA GoesWider ==
    ASSUME NEW c, NEW L, NEW d, NEW M, NEW K, NEW J, Goes(c, L, d, M, K), K \subseteq J
    PROVE  Goes(c, L, d, M, J)
BY DEF Goes

(* What the service takes for granted. *)
ServiceHas ==
    /\ ServiceOk(chat, log) /\ StreamsOk
    /\ \A q \in Peers : \A r \in Flying(chat, toChat, q) :
         /\ r.op # "HELLO" => Issued(chat, r.link)
         /\ r.op = "JOIN" => Spent(chat, log, q, r.link, r.member.gen)

(* What a step of the service does to the rest. *)
ServiceMoves ==
    /\ Goes(chat, log, chat', log', Spoken(chat, log, toChat))
    /\ toChat' \in [Peers -> Seq(ThereType)] /\ toRealm' \in [Peers -> Seq(BackType)]
    /\ \A q \in Peers : Flying(chat', toChat', q) \subseteq Flying(chat, toChat, q)
    /\ \A f \in Replied(chat', toRealm') :
         \/ f \in Replied(chat, toRealm)
         \/ \E q \in Peers : \E r \in Flying(chat, toChat, q) : AnswerOk(chat', log', f, r)
    /\ DialOk(chat', toChat', peer)

LEMMA RepliedLess ==
    ASSUME NEW c, NEW d, NEW A, NEW B, ToSet(d.replies) \subseteq ToSet(c.replies),
           \A q \in Peers : \A f \in ToSet(A[q]) : f.kind = "reply" => f \in ToSet(B[q])
    PROVE  Replied(d, A) \subseteq Replied(c, B)
BY DEF Replied

LEMMA KindsDiffer ==
    /\ ClosedFrame.kind = "closed" /\ ClosedFrame \in BackType /\ ClosedFrame \in ThereType
    /\ \A f \in PushType : f.kind = "push" /\ f \in BackType
    /\ \A f \in ReplyType : f.kind = "reply" /\ f \in BackType
    /\ \A f \in ThereType : f.kind = "request" => f \in RequestType
    /\ \A f \in BackType : /\ f.kind = "reply" => f \in ReplyType
                           /\ f.kind = "push" => f \in PushType
BY DEF ClosedFrame, PushType, ReplyType, ThereType, BackType, RequestType

LEMMA ClosePeersGoes ==
    ASSUME NEW c, NEW L, ServiceOk(c, L), NEW ps, NEW K
    PROVE  LET d == ClosePeers(c, ps) IN
           /\ Goes(c, L, d, L, K) /\ d \in ChatType
           /\ ToSet(d.replies) \subseteq ToSet(c.replies)
           /\ \A q \in Peers : d.links[q] = IF q \in ps THEN None ELSE c.links[q]
           /\ d.replaced = c.replaced
<1> DEFINE e == Closed(c, ps)
           d == ClosePeers(c, ps)
<1>10. ClosesAs(c, L, ps, e)
  BY ClosedGoes
<1> HIDE DEF e
<1>1. /\ Goes(c, L, e, L, {}) /\ ToSet(e.replies) \subseteq ToSet(c.replies)
      /\ \A q \in Peers : e.links[q] = IF q \in ps THEN None ELSE c.links[q]
      /\ e = [c EXCEPT !.links = e.links, !.replies = e.replies,
                       !.pushes = e.pushes, !.members = e.members]
  BY <1>10 DEF ClosesAs
<1>2. c \in ChatType
  BY DEF ServiceOk
<1>3. d = [e EXCEPT !.helloDue = @ \ ps]
  BY DEF ClosePeers, e
<1> HIDE DEF d
<1>4. e \in ChatType /\ e.replaced = c.replaced
  BY <1>1, <1>2 DEF Goes, ServiceOk, ChatType
<1>5. /\ d \in ChatType /\ d.links = e.links /\ d.members = e.members /\ d.replies = e.replies
      /\ d.inc = e.inc /\ d.linkGen = e.linkGen /\ d.replaced = e.replaced
  BY <1>3, <1>4 DEF ChatType
<1>6. ServiceOk(e, L)
  BY <1>1 DEF Goes
<1>7. Goes(e, L, d, L, K)
  <2>1. \A q \in Peers : e.links[q] # None => e.links[q].high \in Nat
    BY <1>4 DEF ChatType, EndType
  <2> QED BY <1>5, <1>6, <2>1, FewerGoes
<1>8. Goes(c, L, e, L, K)
  BY <1>1, GoesWider
<1>9. Goes(c, L, d, L, K)
  BY <1>7, <1>8, GoesOn
<1> QED BY <1>1, <1>4, <1>5, <1>9 DEF d

(* The first frame on its way on connection p is taken. *)
Took(p) == toChat[p] # <<>> /\ toChat' = [toChat EXCEPT ![p] = Tail(@)]

Takes(p) == toChat' = toChat \/ Took(p)

LEMMA TakesOne ==
    ASSUME StreamsOk, NEW p \in Peers, Takes(p)
    PROVE  /\ toChat' \in [Peers -> Seq(ThereType)]
           /\ \A q \in Peers :
                /\ ToSet(toChat'[q]) \subseteq ToSet(toChat[q])
                /\ toChat[q] = <<>> => toChat'[q] = <<>>
                /\ \A i \in 1..Len(toChat'[q]) : toChat'[q][i].kind = "open" =>
                     i = 1 /\ chat.links[q] = None /\ ~(q = p /\ Took(p))
<1>1. toChat \in [Peers -> Seq(ThereType)]
  BY DEF StreamsOk
<1>2. ASSUME NEW q \in Peers
      PROVE  /\ toChat'[q] \in Seq(ThereType)
             /\ ToSet(toChat'[q]) \subseteq ToSet(toChat[q])
             /\ toChat[q] = <<>> => toChat'[q] = <<>>
             /\ \A i \in 1..Len(toChat'[q]) : toChat'[q][i].kind = "open" =>
                  i = 1 /\ chat.links[q] = None /\ ~(q = p /\ Took(p))
  <2>1. /\ toChat[q] \in Seq(ThereType) /\ Len(toChat[q]) \in Nat
        /\ \A i \in 1..Len(toChat[q]) : toChat[q][i].kind = "open" =>
             i = 1 /\ chat.links[q] = None
    BY <1>1 DEF StreamsOk, DialOk
  <2>2. CASE ~(q = p /\ Took(p))
    <3>1. toChat'[q] = toChat[q]
      BY <1>1, <2>2 DEF Takes, Took
    <3> QED BY <2>1, <2>2, <3>1
  <2>3. CASE q = p /\ Took(p)
    <3>1. toChat[q] # <<>> /\ toChat'[q] = Tail(toChat[q])
      BY <1>1, <2>3 DEF Took
    <3>2. /\ Tail(toChat[q]) \in Seq(ThereType) /\ Len(toChat[q]) >= 1
          /\ Len(Tail(toChat[q])) = Len(toChat[q]) - 1
          /\ \A i \in 1..Len(Tail(toChat[q])) : Tail(toChat[q])[i] = toChat[q][i + 1]
          /\ ToSet(Tail(toChat[q])) \subseteq ToSet(toChat[q])
      BY <2>1, <3>1, InTail
    <3>3. \A i \in 1..Len(Tail(toChat[q])) : i + 1 \in 1..Len(toChat[q]) /\ i + 1 # 1
      BY <2>1, <3>2
    <3> QED BY <2>1, <3>1, <3>2, <3>3
  <2> QED BY <2>2, <2>3
<1>3. toChat' \in [Peers -> Seq(ThereType)]
  BY <1>1, <1>2 DEF Takes, Took
<1> QED BY <1>2, <1>3

LEMMA SendsOne ==
    ASSUME StreamsOk, NEW p \in Peers, NEW x \in BackType,
           toRealm' = [toRealm EXCEPT ![p] = Append(@, x)]
    PROVE  /\ toRealm' \in [Peers -> Seq(BackType)]
           /\ \A q \in Peers : ToSet(toRealm'[q]) \subseteq ToSet(toRealm[q]) \cup {x}
<1>1. toRealm \in [Peers -> Seq(BackType)]
  BY DEF StreamsOk
<1>2. ASSUME NEW q \in Peers
      PROVE  toRealm'[q] \in Seq(BackType) /\ ToSet(toRealm'[q]) \subseteq ToSet(toRealm[q]) \cup {x}
  <2>1. toRealm[q] \in Seq(BackType)
    BY <1>1
  <2>2. CASE q = p
    <3>1. toRealm'[q] = Append(toRealm[q], x)
      BY <1>1, <2>2
    <3> QED BY <2>1, <3>1, InAppend
  <2>3. CASE q # p
    <3>1. toRealm'[q] = toRealm[q]
      BY <1>1, <2>3
    <3> QED BY <2>1, <3>1
  <2> QED BY <2>2, <2>3
<1> QED BY <1>1, <1>2

(* What is queued on the connections was, or was on its way on p; the      *)
(* connection opened is p.                                                 *)
Queues(p) ==
    \A q \in Peers : chat'.links[q] # None =>
        \/ /\ chat.links[q] # None
           /\ ToSet(chat'.links[q].requests) \subseteq Flying(chat, toChat, q)
        \/ chat'.links[q].requests = <<>> /\ q = p /\ Took(p)

(* The state of the service moves, and one frame is taken at most. *)
LEMMA TakingMoves ==
    ASSUME ServiceHas, NEW p \in Peers, Takes(p),
           Goes(chat, log, chat', log', Spoken(chat, log, toChat)),
           toRealm' \in [Peers -> Seq(BackType)], Queues(p),
           \A f \in Replied(chat', toRealm') :
             \/ f \in Replied(chat, toRealm)
             \/ \E q \in Peers : \E r \in Flying(chat, toChat, q) : AnswerOk(chat', log', f, r)
    PROVE  ServiceMoves
<1>1. StreamsOk
  BY DEF ServiceHas
<1>2. /\ toChat' \in [Peers -> Seq(ThereType)]
      /\ \A q \in Peers :
           /\ ToSet(toChat'[q]) \subseteq ToSet(toChat[q])
           /\ toChat[q] = <<>> => toChat'[q] = <<>>
           /\ \A i \in 1..Len(toChat'[q]) : toChat'[q][i].kind = "open" =>
                i = 1 /\ chat.links[q] = None /\ ~(q = p /\ Took(p))
  BY <1>1, TakesOne
<1>3. ASSUME NEW q \in Peers PROVE Flying(chat', toChat', q) \subseteq Flying(chat, toChat, q)
  <2>1. {r \in ToSet(toChat'[q]) : r.kind = "request"} \subseteq Flying(chat, toChat, q)
    BY <1>2 DEF Flying
  <2>2. chat'.links[q] # None => ToSet(chat'.links[q].requests) \subseteq Flying(chat, toChat, q)
    <3>1. CASE chat'.links[q].requests = <<>>
      BY <3>1, InEmpty
    <3>2. CASE chat'.links[q].requests # <<>>
      BY <3>2 DEF Queues
    <3> QED BY <3>1, <3>2
  <2> DEFINE Old == Flying(chat, toChat, q)
  <2> HIDE DEF Old
  <2> QED BY <2>1, <2>2 DEF Flying, Old
<1>4. DialOk(chat', toChat', peer)
  <2> SUFFICES ASSUME NEW q \in Peers
               PROVE  /\ q > peer.dialled => toChat'[q] = <<>> /\ chat'.links[q] = None
                      /\ \A i \in 1..Len(toChat'[q]) : toChat'[q][i].kind = "open" =>
                           i = 1 /\ chat'.links[q] = None
    BY DEF DialOk
  <2>1. q > peer.dialled => toChat[q] = <<>> /\ chat.links[q] = None
    BY <1>1 DEF StreamsOk, DialOk
  <2>2. chat.links[q] = None /\ ~(q = p /\ Took(p)) => chat'.links[q] = None
    BY DEF Queues
  <2>3. toChat[q] = <<>> => ~(q = p /\ Took(p))
    BY DEF Took
  <2> QED BY <1>2, <2>1, <2>2, <2>3
<1> QED BY <1>2, <1>3, <1>4 DEF ServiceMoves

(* A connection is closed from within. *)
LEMMA CloseNowMoves ==
    ASSUME ServiceHas, NEW p \in Peers, CloseNow(p), log' = log, Takes(p)
    PROVE  ServiceMoves
<1> DEFINE K == Spoken(chat, log, toChat)
           d == ClosePeers(chat, {p})
<1>1. /\ Goes(chat, log, d, log, K)
      /\ ToSet(d.replies) \subseteq ToSet(chat.replies)
      /\ \A q \in Peers : d.links[q] = IF q \in {p} THEN None ELSE chat.links[q]
  BY ClosePeersGoes DEF ServiceHas
<1>2. chat' = d /\ toRealm' = [toRealm EXCEPT ![p] = Append(@, ClosedFrame)] /\ StreamsOk
  BY DEF ServiceHas, CloseNow
<1> HIDE DEF d
<1>3. /\ toRealm' \in [Peers -> Seq(BackType)]
      /\ \A q \in Peers : ToSet(toRealm'[q]) \subseteq ToSet(toRealm[q]) \cup {ClosedFrame}
  BY <1>2, SendsOne, KindsDiffer
<1>4. Replied(chat', toRealm') \subseteq Replied(chat, toRealm)
  <2>1. \A q \in Peers : \A f \in ToSet(toRealm'[q]) : f.kind = "reply" => f \in ToSet(toRealm[q])
    BY <1>3, KindsDiffer
  <2>2. ToSet(chat'.replies) \subseteq ToSet(chat.replies)
    BY <1>1, <1>2
  <2> QED BY <2>1, <2>2, RepliedLess
<1>5. Queues(p)
  BY <1>1, <1>2 DEF Queues, Flying
<1>6. Goes(chat, log, chat', log', K)
  BY <1>1, <1>2
<1> HIDE DEF K
<1> QED BY <1>3, <1>4, <1>5, <1>6, TakingMoves DEF K

LEMMA DropsMoves ==
    ASSUME ServiceHas, NEW p \in Peers, ServiceDrops(p)
    PROVE  ServiceMoves
BY CloseNowMoves DEF ServiceDrops, Takes

LEMMA EventMoves ==
    ASSUME ServiceHas, NEW p \in Peers, ServiceEvent(p)
    PROVE  ServiceMoves
<1> DEFINE r == Head(toChat[p])
           K == Spoken(chat, log, toChat)
<1>1. /\ toChat[p] # <<>> /\ Took(p) /\ Takes(p) /\ log' = log
      /\ ServiceOk(chat, log) /\ StreamsOk /\ chat \in ChatType
  BY DEF ServiceEvent, Took, Takes, ServiceHas, ServiceOk
<1>2. /\ toChat[p] \in Seq(ThereType) /\ Len(toChat[p]) >= 1
      /\ r = toChat[p][1] /\ r \in ToSet(toChat[p]) /\ r \in ThereType /\ 1 \in 1..Len(toChat[p])
      /\ toRealm \in [Peers -> Seq(BackType)]
  <2>1. toChat[p] \in Seq(ThereType) /\ toRealm \in [Peers -> Seq(BackType)]
    BY <1>1 DEF StreamsOk
  <2>2. Len(toChat[p]) >= 1 /\ r = toChat[p][1] /\ r \in ToSet(toChat[p]) /\ Len(toChat[p]) \in Nat
    BY <1>1, <2>1, InTail
  <2>3. 1 \in 1..Len(toChat[p])
    BY <2>2
  <2> QED BY <2>1, <2>2, <2>3, InSeq
<1>3. ASSUME UNCHANGED toRealm, NEW d \in ChatType, chat' = d, d.replies = chat.replies
      PROVE  \A f \in Replied(chat', toRealm') : f \in Replied(chat, toRealm)
  BY <1>3 DEF Replied
<1> HIDE DEF K, r
<1>4. CASE r.kind = "open"
  <2>1. chat.links[p] = None
    BY <1>1, <1>2, <1>4 DEF StreamsOk, DialOk
  <2>2. CASE CloseNow(p)
    BY <1>1, <2>2, CloseNowMoves
  <2>3. CASE ~CloseNow(p)
    <3> DEFINE n == [link |-> 0, high |-> 0, requests |-> <<>>]
               d == [chat EXCEPT !.links[p] = n, !.helloDue = @ \cup {p}]
    <3>1. chat' = d /\ UNCHANGED toRealm
      BY <1>4, <2>3 DEF ServiceEvent, r
    <3>2. n \in EndType /\ n.link = 0 /\ n.requests = <<>>
      BY DEF EndType
    <3> HIDE DEF n
    <3>3. /\ d \in ChatType /\ d.inc = chat.inc /\ d.linkGen = chat.linkGen
          /\ d.members = chat.members /\ d.replies = chat.replies
          /\ \A q \in Peers : d.links[q] = IF q = p THEN n ELSE chat.links[q]
      BY <1>1, <3>2 DEF ChatType
    <3> HIDE DEF d
    <3>4. Queues(p)
      BY <1>1, <3>1, <3>2, <3>3 DEF Queues, Flying
    <3>5. Goes(chat, log, d, log, K)
      <4>1. \A q \in Peers : Served(d, q) <=> Served(chat, q)
        BY <2>1, <3>2, <3>3 DEF Served
      <4>2. \A q \in Peers : Served(chat, q) => d.links[q] = chat.links[q]
        BY <2>1, <3>3 DEF Served
      <4>3. LinksOk(d)
        BY <1>1, <3>3, <4>1, <4>2 DEF ServiceOk, LinksOk
      <4>4. ASSUME NEW m \in d.members PROVE MemberOk(d, log, m)
        <5>1. MemberOk(chat, log, m) /\ m.peer \in Peers
          BY <1>1, <3>3, <4>4 DEF ServiceOk, ChatType, ServiceMember
        <5> QED BY <3>3, <4>1, <4>2, <5>1 DEF MemberOk
      <4>5. ServiceOk(d, log)
        BY <1>1, <3>3, <4>3, <4>4 DEF ServiceOk
      <4>6. Installed(d, log) = Installed(chat, log)
        BY <3>3 DEF Installed
      <4>7. \A l : Issued(chat, l) => Issued(d, l) /\ l.gen # 0
        BY <3>3 DEF Issued, LinkType
      <4>8. ASSUME NEW q \in Peers, NEW l, NEW g \in Nat, Issued(chat, l), Spent(chat, log, q, l, g)
            PROVE  Spent(d, log, q, l, g)
        <5>1. CASE q = p
          BY <3>2, <3>3, <4>7, <4>8, <5>1 DEF Spent, Link
        <5>2. CASE q # p
          BY <3>3, <4>6, <4>8, <5>2 DEF Spent, Link
        <5> QED BY <5>1, <5>2
      <4> QED BY <4>5, <4>6, <4>7, <4>8 DEF Goes
    <3>6. Goes(chat, log, chat', log', K)
      BY <1>1, <3>1, <3>5
    <3>7. \A f \in Replied(chat', toRealm') : f \in Replied(chat, toRealm)
      BY <1>3, <3>1, <3>3
    <3>8. toRealm' \in [Peers -> Seq(BackType)]
      BY <1>2, <3>1
    <3> QED BY <1>1, <3>4, <3>6, <3>7, <3>8, TakingMoves DEF K
  <2> QED BY <2>2, <2>3
<1>5. CASE r.kind = "closed"
  <2> DEFINE d == ClosePeers(chat, {p})
  <2>1. chat' = d /\ UNCHANGED toRealm
    BY <1>5 DEF ServiceEvent, r
  <2>2. /\ Goes(chat, log, d, log, K)
        /\ ToSet(d.replies) \subseteq ToSet(chat.replies)
        /\ \A q \in Peers : d.links[q] = IF q \in {p} THEN None ELSE chat.links[q]
    BY <1>1, ClosePeersGoes
  <2> HIDE DEF d
  <2>3. Queues(p)
    BY <2>1, <2>2 DEF Queues, Flying
  <2>4. Replied(chat', toRealm') \subseteq Replied(chat, toRealm)
    BY <2>1, <2>2, RepliedLess
  <2>5. Goes(chat, log, chat', log', K) /\ toRealm' \in [Peers -> Seq(BackType)]
    BY <1>1, <1>2, <2>1, <2>2
  <2> QED BY <1>1, <2>3, <2>4, <2>5, TakingMoves DEF K
<1>6. CASE r.kind = "request"
  <2>1. r \in RequestType /\ r \in Flying(chat, toChat, p)
    BY <1>2, <1>6, KindsDiffer DEF Flying
  <2>2. CASE UNCHANGED <<chat, toRealm>>
    <3>1. Goes(chat, log, chat', log', K)
      BY <1>1, <2>2, StaysGoes
    <3>2. Queues(p)
      BY <2>2 DEF Queues, Flying
    <3>3. Replied(chat', toRealm') = Replied(chat, toRealm)
      BY <2>2
    <3> QED BY <1>1, <1>2, <2>2, <3>1, <3>2, <3>3, TakingMoves DEF K
  <2>3. CASE CloseNow(p)
    BY <1>1, <2>3, CloseNowMoves
  <2>4. CASE chat.links[p] # None /\ chat' = Enqueue(chat, p, r) /\ UNCHANGED toRealm
    <3> DEFINE d == Enqueue(chat, p, r)
               rs == Append(chat.links[p].requests, r)
    <3>1. chat.links[p] \in EndType
      BY <1>1, <2>4 DEF ChatType
    <3>2. /\ rs \in Seq(RequestType) /\ ToSet(rs) = ToSet(chat.links[p].requests) \cup {r}
      BY <2>1, <3>1, InAppend DEF EndType
    <3>3. d = [chat EXCEPT !.links[p].requests = rs]
      BY DEF Enqueue
    <3> HIDE DEF d, rs
    <3>4. /\ d \in ChatType /\ d.inc = chat.inc /\ d.linkGen = chat.linkGen
          /\ d.members = chat.members /\ d.replies = chat.replies
          /\ \A q \in Peers : d.links[q] =
               IF q = p THEN [chat.links[p] EXCEPT !.requests = rs] ELSE chat.links[q]
      <4>1. [chat.links[p] EXCEPT !.requests = rs] \in EndType
        BY <3>1, <3>2 DEF EndType
      <4> QED BY <1>1, <3>3, <4>1 DEF ChatType
    <3>5. /\ d.links[p] # None /\ d.links[p].link = chat.links[p].link
          /\ d.links[p].high = chat.links[p].high /\ d.links[p].requests = rs
      BY <3>1, <3>2, <3>4, NoneAssumption DEF EndType
    <3>6. Goes(chat, log, d, log, K)
      <4>1. \A q \in Peers : chat.links[q] # None => chat.links[q].high \in Nat
        BY <1>1 DEF ChatType, EndType
      <4>2. \A q \in Peers : d.links[q] = None <=> chat.links[q] = None
        BY <2>4, <3>4, <3>5
      <4>3. \A q \in Peers : chat.links[q] # None =>
              d.links[q].link = chat.links[q].link /\ chat.links[q].high <= d.links[q].high
        BY <3>4, <3>5, <4>1
      <4> QED BY <1>1, <3>4, <4>2, <4>3, FewerGoes
    <3>7. ToSet(rs) \subseteq Flying(chat, toChat, p)
      BY <2>1, <2>4, <3>2 DEF Flying
    <3>8. chat' = d
      BY <2>4 DEF d
    <3>9. Queues(p)
      <4>1. \A q \in Peers \ {p} : chat'.links[q] = chat.links[q]
        BY <3>4, <3>8
      <4>2. chat'.links[p].requests = rs
        BY <3>5, <3>8
      <4> QED BY <2>4, <3>7, <4>1, <4>2 DEF Queues, Flying
    <3>10. \A f \in Replied(chat', toRealm') : f \in Replied(chat, toRealm)
      BY <1>3, <2>4, <3>4, <3>8
    <3>11. Goes(chat, log, chat', log', K) /\ toRealm' \in [Peers -> Seq(BackType)]
      BY <1>1, <1>2, <2>4, <3>6, <3>8
    <3> QED BY <1>1, <3>9, <3>10, <3>11, TakingMoves DEF K
  <2>5. CASE /\ toRealm' = [toRealm EXCEPT ![p] = Append(@, ChatReply(r, "BUSY"))]
             /\ UNCHANGED chat
    <3> DEFINE x == ChatReply(r, "BUSY")
    <3>1. x \in ReplyType /\ x.id = r.id /\ x.op = r.op /\ x.status = "BUSY"
      BY <2>1, ReplyTypes
    <3> HIDE DEF x
    <3>2. toRealm' = [toRealm EXCEPT ![p] = Append(@, x)] /\ x \in BackType
      BY <2>5, <3>1, KindsDiffer DEF x
    <3>3. /\ toRealm' \in [Peers -> Seq(BackType)]
          /\ \A q \in Peers : ToSet(toRealm'[q]) \subseteq ToSet(toRealm[q]) \cup {x}
      BY <1>1, <3>2, SendsOne
    <3>4. AnswerOk(chat', log', x, r)
      BY <3>1 DEF AnswerOk, TrueReply
    <3>5. Replied(chat', toRealm') \subseteq Replied(chat, toRealm) \cup {x}
      BY <2>5, <3>3 DEF Replied
    <3>6. Goes(chat, log, chat', log', K)
      BY <1>1, <2>5, StaysGoes
    <3>7. Queues(p)
      BY <2>5 DEF Queues, Flying
    <3>8. \A f \in Replied(chat', toRealm') :
             \/ f \in Replied(chat, toRealm)
             \/ \E q \in Peers : \E y \in Flying(chat, toChat, q) : AnswerOk(chat', log', f, y)
      BY <2>1, <3>4, <3>5
    <3> QED BY <1>1, <3>3, <3>6, <3>7, <3>8, TakingMoves DEF K
  <2> QED BY <1>6, <2>2, <2>3, <2>4, <2>5 DEF ServiceEvent, r
<1> QED BY <1>2, <1>4, <1>5, <1>6 DEF ThereType, RequestType, ClosedFrame

LEMMA RoundMoves ==
    ASSUME ServiceHas, NEW p \in Peers, NEW expired \in BOOLEAN, NEW limited \in BOOLEAN,
           RunRound(p, expired, limited)
    PROVE  ServiceMoves
<1> DEFINE r == Head(chat.links[p].requests)
           rest == Tail(chat.links[p].requests)
           c == [chat EXCEPT !.links[p].requests = rest, !.phase = "round"]
           h == IF expired THEN Handled(c, ChatReply(r, "UNAVAILABLE")) ELSE Handle(c, p, r, limited)
           d == h.chat
           M == log \cup h.logged
           f == h.reply
           x == [peer |-> p, frame |-> f]
           e == [d EXCEPT !.replies = Append(@, x)]
           K == Spoken(chat, log, toChat)
<1>1. /\ chat.links[p] # None /\ chat.links[p].requests # <<>>
      /\ chat' = e /\ log' = M /\ toChat' = toChat /\ toRealm' = toRealm
  BY DEF RunRound
<1>2. chat \in ChatType /\ ServiceOk(chat, log) /\ StreamsOk /\ chat.links[p] \in EndType
  BY <1>1 DEF ServiceHas, ServiceOk, ChatType
<1>3. /\ r \in RequestType /\ rest \in Seq(RequestType) /\ r \in ToSet(chat.links[p].requests)
      /\ ToSet(rest) \subseteq ToSet(chat.links[p].requests)
  <2>1. chat.links[p].requests \in Seq(RequestType)
    BY <1>2 DEF EndType
  <2> QED BY <1>1, <2>1, InTail
<1>4. r \in Flying(chat, toChat, p)
  BY <1>1, <1>3 DEF Flying
<1> HIDE DEF rest, r
<1>5. /\ c \in ChatType /\ c.inc = chat.inc /\ c.linkGen = chat.linkGen
      /\ c.members = chat.members /\ c.replies = chat.replies
      /\ \A q \in Peers : c.links[q] =
           IF q = p THEN [chat.links[p] EXCEPT !.requests = rest] ELSE chat.links[q]
  <2>1. [chat.links[p] EXCEPT !.requests = rest] \in EndType
    BY <1>2, <1>3 DEF EndType
  <2> QED BY <1>2, <2>1 DEF ChatType
<1> HIDE DEF c
<1>6. /\ c.links[p] # None /\ c.links[p].link = chat.links[p].link
      /\ c.links[p].high = chat.links[p].high /\ c.links[p].requests = rest
  BY <1>2, <1>3, <1>5, NoneAssumption DEF EndType
<1>7. Goes(chat, log, c, log, K)
  <2>1. \A q \in Peers : chat.links[q] # None => chat.links[q].high \in Nat
    BY <1>2 DEF ChatType, EndType
  <2>2. \A q \in Peers : c.links[q] = None <=> chat.links[q] = None
    BY <1>1, <1>5, <1>6
  <2>3. \A q \in Peers : chat.links[q] # None =>
          c.links[q].link = chat.links[q].link /\ chat.links[q].high <= c.links[q].high
    BY <1>5, <1>6, <2>1
  <2> QED BY <1>2, <1>5, <2>2, <2>3, FewerGoes
<1>8. ServiceOk(c, log) /\ (r.op = "JOIN" => Spent(c, log, p, r.link, r.member.gen))
  <2>1. r.op = "JOIN" => /\ Issued(chat, r.link) /\ Spent(chat, log, p, r.link, r.member.gen)
                         /\ r.member.gen \in Nat
    BY <1>3, <1>4 DEF ServiceHas, RequestType, MemberType
  <2> DEFINE g == r.member.gen
             l == r.link
  <2> HIDE DEF g, l, K
  <2>2. Issued(chat, l) /\ Spent(chat, log, p, l, g) /\ g \in Nat => Spent(c, log, p, l, g)
    BY <1>7 DEF Goes
  <2>3. ServiceOk(c, log)
    BY <1>7 DEF Goes
  <2> QED BY <2>1, <2>2, <2>3 DEF g, l
<1>9. Does(c, log, d, M, r, f)
  <2>1. CASE ~expired
    <3>1. h = Handle(c, p, r, limited)
      BY <2>1
    <3> HIDE DEF h
    <3> QED BY <1>3, <1>6, <1>8, <3>1, HandleDoes
  <2>2. CASE expired
    <3>1. h.chat = c /\ h.logged = {} /\ h.reply = ChatReply(r, "UNAVAILABLE")
      BY <2>2 DEF Handled
    <3> HIDE DEF h
    <3>2. M = log
      BY <3>1
    <3> QED BY <1>3, <1>8, <3>1, <3>2, RefusedDoes
  <2> QED BY <2>1, <2>2
<1> HIDE DEF d, M, f, h
<1>10. /\ Goes(c, log, d, M, JoinOf(r)) /\ ToSet(d.replies) \subseteq ToSet(c.replies)
       /\ Keeps(c, d) /\ AnswerOk(d, M, f, r) /\ d \in ChatType /\ ServiceOk(d, M)
       /\ f \in ReplyType
  BY <1>9 DEF Does, Goes, ServiceOk, AnswerOk
<1>11. JoinOf(r) \subseteq K
  BY <1>4 DEF JoinOf, Spoken
<1>12. /\ e \in ChatType /\ e.inc = d.inc /\ e.linkGen = d.linkGen /\ e.members = d.members
       /\ e.links = d.links /\ ToSet(e.replies) = ToSet(d.replies) \cup {x}
  <2>1. x \in QueuedReply /\ d.replies \in Seq(QueuedReply)
    BY <1>10 DEF QueuedReply, ChatType
  <2> HIDE DEF x
  <2>2. /\ Append(d.replies, x) \in Seq(QueuedReply)
        /\ ToSet(Append(d.replies, x)) = ToSet(d.replies) \cup {x}
    BY <2>1, InAppend
  <2> DEFINE rs == Append(d.replies, x)
  <2> HIDE DEF rs
  <2>3. e = [d EXCEPT !.replies = rs]
    BY DEF rs
  <2> HIDE DEF e
  <2>4. /\ e \in ChatType /\ e.inc = d.inc /\ e.linkGen = d.linkGen /\ e.members = d.members
        /\ e.links = d.links /\ e.replies = rs
    BY <1>10, <2>2, <2>3 DEF ChatType, rs
  <2> QED BY <2>2, <2>4 DEF rs
<1> HIDE DEF e
<1>13. Goes(d, M, e, M, K)
  <2>1. \A q \in Peers : d.links[q] # None => d.links[q].high \in Nat
    BY <1>10 DEF ChatType, EndType
  <2> QED BY <1>10, <1>12, <2>1, FewerGoes
<1>14. Goes(chat, log, e, M, K)
  <2>1. Goes(c, log, d, M, K)
    BY <1>10, <1>11, GoesWider
  <2> HIDE DEF K
  <2>2. Goes(chat, log, d, M, K)
    BY <1>7, <2>1, GoesOn
  <2> QED BY <1>13, <2>2, GoesOn
<1>15. AnswerOk(e, M, f, r)
  BY <1>10, <1>13 DEF AnswerOk, Goes
<1>16. Replied(chat', toRealm') \subseteq Replied(chat, toRealm) \cup {f}
  BY <1>1, <1>5, <1>10, <1>12 DEF Replied
<1>17. Queues(p)
  <2>1. ASSUME NEW q \in Peers, chat'.links[q] # None
        PROVE  /\ chat.links[q] # None
               /\ ToSet(chat'.links[q].requests) \subseteq Flying(chat, toChat, q)
    <3>1. chat'.links[q].requests = c.links[q].requests /\ c.links[q] # None
      BY <1>1, <1>10, <1>12, <2>1 DEF Keeps
    <3> QED BY <1>1, <1>3, <1>5, <1>6, <3>1 DEF Flying
  <2> QED BY <2>1 DEF Queues
<1>18. \A y \in Replied(chat', toRealm') :
          \/ y \in Replied(chat, toRealm)
          \/ \E q \in Peers : \E z \in Flying(chat, toChat, q) : AnswerOk(chat', log', y, z)
  BY <1>1, <1>4, <1>15, <1>16
<1>19. toRealm' \in [Peers -> Seq(BackType)] /\ Takes(p) /\ Goes(chat, log, chat', log', K)
  BY <1>1, <1>2, <1>14 DEF StreamsOk, Takes
<1> QED BY <1>17, <1>18, <1>19, TakingMoves DEF K

LEMMA CrashMoves ==
    ASSUME ServiceHas, ServiceCrash
    PROVE  ServiceMoves
<1> DEFINE d == NewService(chat.inc + 1)
           K == Spoken(chat, log, toChat)
<1>1. /\ chat' = d /\ log' = log /\ toChat' = [p \in Peers |-> <<>>]
      /\ toRealm' = [p \in Peers |-> IF chat.links[p] # None \/ toChat[p] # <<>>
           THEN Append(toRealm[p], ClosedFrame) ELSE toRealm[p]]
  BY DEF ServiceCrash
<1>2. chat \in ChatType /\ ServiceOk(chat, log) /\ StreamsOk /\ chat.inc \in Nat
  BY DEF ServiceHas, ServiceOk, ChatType
<1>3. /\ d \in ChatType /\ d.inc = chat.inc + 1 /\ d.linkGen = 0 /\ d.members = {}
      /\ d.replies = <<>> /\ \A q \in Peers : d.links[q] = None
  BY <1>2 DEF NewService, ChatType
<1> HIDE DEF d
<1>4. ServiceOk(d, log)
  <2>1. IsFiniteSet(d.members)
    BY <1>3, FS_EmptySet
  <2>2. LinksOk(d)
    BY <1>3 DEF LinksOk, Served
  <2> QED BY <1>2, <1>3, <2>1, <2>2 DEF ServiceOk, OneEach
<1>5. Goes(chat, log, d, log, K)
  <2>1. \A l : Issued(chat, l) => Issued(d, l)
    BY <1>2, <1>3 DEF Issued, LinkType
  <2>2. Installed(d, log) \subseteq Installed(chat, log)
    BY <1>3 DEF Installed
  <2> QED BY <1>3, <1>4, <2>1, <2>2 DEF Goes, Spent
<1>6. \A q \in Peers : /\ toRealm'[q] \in Seq(BackType)
                       /\ ToSet(toRealm'[q]) \subseteq ToSet(toRealm[q]) \cup {ClosedFrame}
  <2> SUFFICES ASSUME NEW q \in Peers
               PROVE  /\ toRealm'[q] \in Seq(BackType)
                      /\ ToSet(toRealm'[q]) \subseteq ToSet(toRealm[q]) \cup {ClosedFrame}
    OBVIOUS
  <2>1. toRealm[q] \in Seq(BackType)
    BY <1>2 DEF StreamsOk
  <2>2. toRealm'[q] = toRealm[q] \/ toRealm'[q] = Append(toRealm[q], ClosedFrame)
    BY <1>1
  <2>3. CASE toRealm'[q] = toRealm[q]
    BY <2>1, <2>3
  <2>4. CASE toRealm'[q] = Append(toRealm[q], ClosedFrame)
    BY <2>1, <2>4, InAppend, KindsDiffer
  <2> QED BY <2>2, <2>3, <2>4
<1>7. toRealm' \in [Peers -> Seq(BackType)]
  <2>1. toRealm' = [q \in Peers |-> toRealm'[q]]
    BY <1>1
  <2> HIDE DEF d
  <2> QED BY <1>6, <2>1
<1>8. /\ toChat' \in [Peers -> Seq(ThereType)] /\ \A q \in Peers : toChat'[q] = <<>>
  BY <1>1
<1>9. \A q \in Peers : Flying(chat', toChat', q) = {}
  BY <1>1, <1>3, <1>8, InEmpty DEF Flying
<1>10. Replied(chat', toRealm') \subseteq Replied(chat, toRealm)
  <2>1. ToSet(chat'.replies) = {}
    BY <1>1, <1>3, InEmpty
  <2>2. \A q \in Peers : \A f \in ToSet(toRealm'[q]) : f.kind = "reply" => f \in ToSet(toRealm[q])
    BY <1>6, KindsDiffer
  <2> QED BY <2>1, <2>2, RepliedLess
<1>11. DialOk(chat', toChat', peer)
  BY <1>1, <1>3, <1>8 DEF DialOk
<1>12. Goes(chat, log, chat', log', K)
  BY <1>1, <1>5
<1> QED BY <1>7, <1>8, <1>9, <1>10, <1>11, <1>12 DEF ServiceMoves

LEMMA FramesOf ==
    ASSUME NEW F, NEW seq \in Seq([peer : Peers, frame : F]), NEW p
    PROVE  /\ Frames(seq, p) \in Seq(F)
           /\ ToSet(Frames(seq, p)) \subseteq {e.frame : e \in ToSet(seq)}
<1> DEFINE own == SelectIn(seq, {e \in ToSet(seq) : e.peer = p})
           fs == [i \in DOMAIN own |-> own[i].frame]
           E == [peer : Peers, frame : F]
<1>1. own \in Seq(E) /\ ToSet(own) \subseteq ToSet(seq)
  BY InSelect
<1>2. Frames(seq, p) = fs
  BY DEF Frames
<1> HIDE DEF own
<1> HIDE DEF E
<1>3. Len(own) \in Nat /\ DOMAIN own = 1..Len(own)
      /\ \A i \in 1..Len(own) : own[i] \in E /\ own[i] \in ToSet(own)
  <2>1. own \in Seq(E)
    BY <1>1
  <2>2. Len(own) \in Nat /\ DOMAIN own = 1..Len(own)
    BY <2>1
  <2> QED BY <2>1, <2>2, InSeq
<1> USE DEF E
<1>4. fs \in [1..Len(own) -> F] /\ \A i \in 1..Len(own) : fs[i] = own[i].frame
  BY <1>3
<1>5. fs \in Seq(F) /\ DOMAIN fs = 1..Len(own)
  BY <1>3, <1>4, SeqDef
<1> HIDE DEF fs
<1>6. ToSet(fs) \subseteq {e.frame : e \in ToSet(seq)}
  <2>1. \A y \in ToSet(fs) : \E i \in 1..Len(own) : fs[i] = y
    BY <1>5 DEF ToSet
  <2> QED BY <1>1, <1>3, <1>4, <2>1
<1> QED BY <1>2, <1>5, <1>6

(* The end of the tick. *)
LEMMA SendMoves ==
    ASSUME ServiceHas, ServiceSend
    PROVE  ServiceMoves
<1> DEFINE Failed(p) == \E i \in DOMAIN chat.replies :
             /\ chat.replies[i].peer = p
             /\ chat.replies[i].frame.op = "HELLO" /\ chat.replies[i].frame.status # "OK"
           failed == {p \in OpenPeers : Failed(p)}
           greeted == {p \in OpenPeers \ failed : chat.links[p].link # 0}
           c == ClosePeers(chat, failed)
           n == IF Len(c.pushes) < PushesPerRound THEN Len(c.pushes) ELSE PushesPerRound
           ready == Drained(c).ready
           rest == Drained(c).rest
           late(p) == IF p \in failed \cup chat.replaced THEN <<ClosedFrame>> ELSE <<>>
           out(p) == Frames(chat.replies, p) \o Frames(ready, p) \o late(p)
           due == c.helloDue \ (greeted \cup chat.replaced)
           d == [c EXCEPT !.replies = <<>>, !.pushes = rest, !.replaced = {},
                          !.helloDue = due, !.phase = "events"]
           K == Spoken(chat, log, toChat)
<1>1. /\ chat' = d /\ toRealm' = [p \in Peers |-> toRealm[p] \o out(p)]
      /\ toChat' = toChat /\ log' = log
  BY DEF ServiceSend
<1>2. /\ chat \in ChatType /\ ServiceOk(chat, log) /\ StreamsOk
      /\ chat.replies \in Seq(QueuedReply)
  BY DEF ServiceHas, ServiceOk, ChatType
<1>3. \A p \in Peers : late(p) \in Seq(BackType) /\ ToSet(late(p)) \subseteq {ClosedFrame}
  <2> DEFINE no == <<>>
             one == <<ClosedFrame>>
  <2>1. no \in Seq(BackType) /\ ToSet(no) = {}
    BY InEmpty
  <2>2. one = Append(no, ClosedFrame)
    OBVIOUS
  <2>3. \A p \in Peers : late(p) = IF p \in failed \cup chat.replaced THEN one ELSE no
    OBVIOUS
  <2> HIDE DEF failed, late, no, one
  <2>4. one \in Seq(BackType) /\ ToSet(one) = ToSet(no) \cup {ClosedFrame}
    BY <2>1, <2>2, InAppend, KindsDiffer
  <2> QED BY <2>1, <2>3, <2>4
<1> HIDE DEF failed, greeted, late
<1>4. /\ Goes(chat, log, c, log, K) /\ c \in ChatType /\ ServiceOk(c, log)
      /\ \A q \in Peers : c.links[q] = None \/ c.links[q] = chat.links[q]
  <2>1. /\ Goes(chat, log, c, log, K) /\ c \in ChatType
        /\ \A q \in Peers : c.links[q] = IF q \in failed THEN None ELSE chat.links[q]
    BY <1>2, ClosePeersGoes
  <2> HIDE DEF c, K
  <2> QED BY <2>1 DEF Goes
<1> HIDE DEF c
<1>5. ready \in Seq(QueuedPush) /\ rest \in Seq(QueuedPush)
  <2>1. c.pushes \in Seq(QueuedPush) /\ Len(c.pushes) \in Nat
    BY <1>4 DEF ChatType
  <2>2. n \in 0..Len(c.pushes) /\ n + 1 \in 1..(Len(c.pushes) + 1) /\ 1 \in 1..(Len(c.pushes) + 1)
        /\ Len(c.pushes) \in 0..Len(c.pushes)
    BY <2>1, ServiceAssumption
  <2> HIDE DEF n
  <2>3. SubSeq(c.pushes, 1, n) \in Seq(QueuedPush) /\ SubSeq(c.pushes, n + 1, Len(c.pushes)) \in Seq(QueuedPush)
    BY <2>1, <2>2, InPart
  <2> DEFINE live == {e \in ToSet(c.pushes) :
                        \E m \in c.members : m.peer = e.peer /\ m.member = e.frame.member}
  <2>4. ready = SelectIn(SubSeq(c.pushes, 1, n), live) /\ rest = SubSeq(c.pushes, n + 1, Len(c.pushes))
    BY DEF Drained, n
  <2> HIDE DEF live, ready, rest
  <2>5. SelectIn(SubSeq(c.pushes, 1, n), live) \in Seq(QueuedPush)
    BY <2>3, InSelect
  <2> QED BY <2>3, <2>4, <2>5
<1> HIDE DEF ready, rest, n
<1>6. /\ d \in ChatType /\ d.links = c.links /\ d.members = c.members /\ d.replies = <<>>
      /\ d.inc = c.inc /\ d.linkGen = c.linkGen
  <2> DEFINE no == <<>>
             none == {}
  <2>1. due \subseteq Peers
    BY <1>4 DEF ChatType
  <2>2. no \in Seq(QueuedReply) /\ none \subseteq Peers
    OBVIOUS
  <2>3. d = [c EXCEPT !.replies = no, !.pushes = rest, !.replaced = none,
                      !.helloDue = due, !.phase = "events"]
    OBVIOUS
  <2> HIDE DEF due, no, none, d
  <2>4. /\ d \in ChatType /\ d.links = c.links /\ d.members = c.members /\ d.replies = no
        /\ d.inc = c.inc /\ d.linkGen = c.linkGen
    BY <1>4, <1>5, <2>1, <2>2, <2>3 DEF ChatType
  <2> QED BY <2>4 DEF no
<1> HIDE DEF d
<1>7. Goes(chat, log, d, log, K)
  <2>1. \A q \in Peers : c.links[q] # None => c.links[q].high \in Nat
    BY <1>4 DEF ChatType, EndType
  <2> HIDE DEF K
  <2>2. Goes(c, log, d, log, K)
    BY <1>4, <1>6, <2>1, FewerGoes
  <2> QED BY <1>4, <2>2, GoesOn
<1> HIDE DEF K
<1>8. ASSUME NEW p \in Peers
      PROVE  /\ toRealm'[p] \in Seq(BackType)
             /\ \A f \in ToSet(toRealm'[p]) : f.kind = "reply" =>
                  f \in ToSet(toRealm[p]) \/ f \in {e.frame : e \in ToSet(chat.replies)}
  <2>1. /\ Frames(chat.replies, p) \in Seq(ReplyType)
        /\ ToSet(Frames(chat.replies, p)) \subseteq {e.frame : e \in ToSet(chat.replies)}
    BY <1>2, FramesOf DEF QueuedReply
  <2>2. Frames(ready, p) \in Seq(PushType)
    BY <1>5, FramesOf DEF QueuedPush
  <2> DEFINE a == Frames(chat.replies, p)
             b == Frames(ready, p)
             z == late(p)
  <2>3. toRealm[p] \in Seq(BackType) /\ toRealm'[p] = toRealm[p] \o ((a \o b) \o z)
    BY <1>1, <1>2 DEF StreamsOk
  <2>4. a \in Seq(BackType) /\ b \in Seq(BackType) /\ z \in Seq(BackType)
        /\ \A f \in ToSet(b) : f.kind = "push"
    <3>1. ToSet(b) \subseteq PushType
      BY <2>2, InSeq
    <3> QED BY <1>3, <2>1, <2>2, <3>1, KindsDiffer
  <2>5. ToSet(z) \subseteq {ClosedFrame}
    BY <1>3
  <2> HIDE DEF a, b, z
  <2>6. a \o b \in Seq(BackType) /\ ToSet(a \o b) = ToSet(a) \cup ToSet(b)
    BY <2>4, InConcat
  <2> DEFINE ab == a \o b
             abz == ab \o z
  <2>13. ab \in Seq(BackType)
    BY <2>6
  <2> HIDE DEF ab
  <2>7. ab \o z \in Seq(BackType) /\ ToSet(ab \o z) = ToSet(ab) \cup ToSet(z)
    BY <2>4, <2>13, InConcat
  <2>14. abz \in Seq(BackType)
    BY <2>7
  <2> HIDE DEF abz
  <2>8. toRealm[p] \o abz \in Seq(BackType) /\ ToSet(toRealm[p] \o abz) = ToSet(toRealm[p]) \cup ToSet(abz)
    BY <2>3, <2>14, InConcat
  <2>9. toRealm'[p] = toRealm[p] \o abz
    BY <2>3 DEF abz, ab
  <2>10. ToSet(abz) = ToSet(a) \cup ToSet(b) \cup ToSet(z)
    BY <2>6, <2>7 DEF abz, ab
  <2>11. ToSet(a) \subseteq {e.frame : e \in ToSet(chat.replies)}
    BY <2>1 DEF a
  <2>12. \A f \in ToSet(toRealm'[p]) : f \in ToSet(toRealm[p]) \/ f \in ToSet(a)
                                         \/ f \in ToSet(b) \/ f = ClosedFrame
    BY <2>5, <2>8, <2>9, <2>10
  <2> QED BY <2>4, <2>8, <2>9, <2>11, <2>12, KindsDiffer
<1>9. toRealm' \in [Peers -> Seq(BackType)]
  <2>1. toRealm' = [p \in Peers |-> toRealm'[p]]
    BY <1>1
  <2> QED BY <1>8, <2>1
<1>10. \A f \in Replied(chat', toRealm') : f \in Replied(chat, toRealm)
  <2>1. ToSet(chat'.replies) = {}
    BY <1>1, <1>6, InEmpty
  <2> QED BY <1>8, <2>1 DEF Replied
<1>11. 1 \in Peers /\ Takes(1)
  BY <1>1, ServiceAssumption DEF Peers, Takes
<1>12. Queues(1)
  BY <1>1, <1>4, <1>6 DEF Queues, Flying
<1>13. Goes(chat, log, chat', log', K)
  BY <1>1, <1>7
<1> QED BY <1>9, <1>10, <1>11, <1>12, <1>13, TakingMoves DEF K

(* Fewer generations, and more messages. *)
LEMMA NotedMore ==
    ASSUME NEW L, NEW M, L \subseteq M, NEW f, NEW p, TrueReply(L, f, p)
    PROVE  TrueReply(M, f, p)
BY DEF TrueReply, Noted

LEMMA RealmLess ==
    ASSUME NEW r, NEW w, NEW J, NEW K, J \subseteq K, NEW L, NEW M, L \subseteq M,
           RealmOk(r, w, K, L)
    PROVE  RealmOk(r, w, J, M)
<1>1. GenerationOk(r, w, J)
  BY DEF RealmOk, GenerationOk
<1>2. ResultsOk(r, M)
  BY NotedMore DEF RealmOk, ResultsOk
<1> QED BY <1>1, <1>2 DEF RealmOk

LEMMA FlyingTypes ==
    ASSUME ServiceOk(chat, log), StreamsOk, NEW q \in Peers
    PROVE  Flying(chat, toChat, q) \subseteq RequestType
<1> SUFFICES ASSUME NEW r \in Flying(chat, toChat, q) PROVE r \in RequestType
  OBVIOUS
<1>1. /\ toChat[q] \in Seq(ThereType)
      /\ chat.links[q] # None => chat.links[q] \in EndType
  BY DEF StreamsOk, ServiceOk, ChatType
<1>2. CASE r \in ToSet(toChat[q]) /\ r.kind = "request"
  BY <1>1, <1>2, InSeq, KindsDiffer
<1>3. CASE chat.links[q] # None /\ r \in ToSet(chat.links[q].requests)
  <2>1. chat.links[q].requests \in Seq(RequestType)
    BY <1>1, <1>3 DEF EndType
  <2> QED BY <1>3, <2>1, InSeq
<1> QED BY <1>2, <1>3 DEF Flying

LEMMA RepliedTypes ==
    ASSUME ServiceOk(chat, log), StreamsOk
    PROVE  Replied(chat, toRealm) \subseteq ReplyType
<1> SUFFICES ASSUME NEW f \in Replied(chat, toRealm) PROVE f \in ReplyType
  OBVIOUS
<1>1. chat.replies \in Seq(QueuedReply) /\ \A q \in Peers : toRealm[q] \in Seq(BackType)
  BY DEF StreamsOk, ServiceOk, ChatType
<1>2. ASSUME NEW e \in ToSet(chat.replies), f = e.frame PROVE f \in ReplyType
  <2>1. e \in QueuedReply
    BY <1>1, InSeq
  <2> QED BY <1>2, <2>1 DEF QueuedReply
<1>3. ASSUME NEW q \in Peers, f \in ToSet(toRealm[q]), f.kind = "reply" PROVE f \in ReplyType
  BY <1>1, <1>3, InSeq, KindsDiffer
<1> QED BY <1>2, <1>3 DEF Replied

LEMMA HasService ==
    ASSUME IInv
    PROVE  ServiceHas
BY DEF IInv, ServiceHas, WayOk, RequestOk

(* The call of the Peer. *)
LEMMA CallTypes ==
    ASSUME IInv, peer.call # None
    PROVE  /\ Calls \in PendingType /\ Calls.result = None /\ Calls.member \in MemberType
           /\ Calls.member.gen \in Nat /\ peer.call \in Sessions /\ peer.stream \in Peers
           /\ peer.stream <= peer.dialled
<1>1. peer \in PeerType /\ RealmOk(realm, peer, Spoken(chat, log, toChat), log)
      /\ PeerOk(peer, chat, log, Calls)
  BY DEF IInv, PeerOk
<1>2. peer.call \in Sessions /\ peer.stream \in Peers /\ peer.stream <= peer.dialled
  <2>1. peer.stream # None
    BY <1>1 DEF PeerOk
  <2> QED BY <1>1, <2>1 DEF PeerType, PeerOk
<1>3. Calls \in PendingType /\ Calls.result = None
  BY <1>1, <1>2 DEF RealmOk, CallsOk, Waits, Calls
<1> QED BY <1>2, <1>3 DEF PendingType, MemberType

LEMMA ServiceKeeps ==
    ASSUME IInv, ServiceMoves, UNCHANGED realmSide
    PROVE  IInv'
<1> DEFINE K == Spoken(chat, log, toChat)
           J == Spoken(chat', log', toChat')
<1>1. realm' = realm /\ peer' = peer /\ binding' = binding /\ told' = told /\ Calls' = Calls
  BY DEF realmSide, Calls
<1>2. /\ ServiceOk(chat', log') /\ log \subseteq log'
      /\ \A l : Issued(chat, l) => Issued(chat', l)
      /\ \A l : \A q \in Peers, g \in Nat :
           Issued(chat, l) /\ Spent(chat, log, q, l, g) => Spent(chat', log', q, l, g)
      /\ Installed(chat', log') \subseteq Installed(chat, log) \cup K
  BY DEF ServiceMoves, Goes
<1>3. J \subseteq K
  <2>1. \A q \in Peers : Flying(chat', toChat', q) \subseteq Flying(chat, toChat, q)
    BY DEF ServiceMoves
  <2> QED BY <1>2, <2>1 DEF Spoken
<1> HIDE DEF J, K
<1>4. RealmOk(realm, peer, J, log')
  BY <1>2, <1>3, RealmLess DEF IInv, K
<1>5. StreamsOk'
  BY <1>1 DEF ServiceMoves, StreamsOk
<1>6. PeerOk(peer, chat', log', Calls)
  <2>1. PeerOk(peer, chat, log, Calls)
    BY DEF IInv
  <2>2. ASSUME Sent(peer), Calls.op = "JOIN"
        PROVE  Spent(chat', log', peer.stream, peer.link, Calls.member.gen)
    <3>1. peer.call # None /\ peer.stream # None /\ ~peer.hello
      BY <2>1, <2>2 DEF Sent, PeerOk
    <3>2. peer.stream \in Peers /\ Calls.member.gen \in Nat
      BY <3>1, CallTypes
    <3> DEFINE q == peer.stream
               l == peer.link
               g == Calls.member.gen
    <3>3. Issued(chat, l) /\ Spent(chat, log, q, l, g)
      BY <2>1, <2>2, <3>1 DEF PeerOk
    <3> HIDE DEF q, l, g
    <3>4. q \in Peers /\ g \in Nat
      BY <3>2 DEF q, g
    <3>5. Spent(chat', log', q, l, g)
      BY <1>2, <3>3, <3>4
    <3> QED BY <3>5 DEF q, l, g
  <2> QED BY <1>2, <2>1, <2>2 DEF PeerOk
<1>7. ASSUME NEW q \in Peers, NEW r \in Flying(chat', toChat', q)
      PROVE  RequestOk(chat', log', peer, Calls, q, r)
  <2>1. r \in Flying(chat, toChat, q)
    BY DEF ServiceMoves
  <2>2. RequestOk(chat, log, peer, Calls, q, r)
    BY <2>1 DEF IInv, WayOk
  <2>3. r.op = "JOIN" => Spent(chat', log', q, r.link, r.member.gen)
    <3> SUFFICES ASSUME r.op = "JOIN" PROVE Spent(chat', log', q, r.link, r.member.gen)
      OBVIOUS
    <3>1. r \in RequestType
      BY <2>1, FlyingTypes DEF IInv
    <3> DEFINE l == r.link
               g == r.member.gen
    <3>2. Issued(chat, l) /\ Spent(chat, log, q, l, g) /\ g \in Nat
      BY <2>2, <3>1 DEF RequestOk, RequestType, MemberType
    <3> HIDE DEF l, g
    <3>3. Spent(chat', log', q, l, g)
      BY <1>2, <3>2
    <3> QED BY <3>3 DEF l, g
  <2> QED BY <1>2, <2>2, <2>3 DEF RequestOk
<1>8. ASSUME NEW f \in Replied(chat', toRealm')
      PROVE  ReplyOk(chat', log', peer, Calls, f)
  <2>1. CASE f \in Replied(chat, toRealm)
    <3>1. ReplyOk(chat, log, peer, Calls, f)
      BY <2>1 DEF IInv, WayOk
    <3> QED BY <1>2, <3>1, NotedMore DEF ReplyOk
  <2>2. ASSUME NEW q \in Peers, NEW r \in Flying(chat, toChat, q), AnswerOk(chat', log', f, r)
        PROVE  ReplyOk(chat', log', peer, Calls, f)
    <3>1. RequestOk(chat, log, peer, Calls, q, r)
      BY DEF IInv, WayOk
    <3>2. f.id = r.id /\ f.op = r.op
      BY <2>2 DEF AnswerOk
    <3>3. ASSUME Sent(peer), f.id = peer.nextId - 1, f.op = "SEND"
          PROVE  TrueReply(log', f, Calls)
      <4>1. r.member = Calls.member /\ r.send = Calls.send
        BY <3>1, <3>2, <3>3 DEF RequestOk
      <4>2. TrueReply(log', f, r)
        BY <2>2, <3>3 DEF AnswerOk
      <4> QED BY <4>1, <4>2 DEF TrueReply, Noted
    <3> QED BY <2>2, <3>1, <3>2, <3>3 DEF ReplyOk, RequestOk, AnswerOk
  <2> QED BY <2>1, <2>2 DEF ServiceMoves
<1>9. TellsTrue(told, log')
  BY <1>2 DEF IInv, TellsTrue
<1>10. WayOk(chat', log', toChat', toRealm', peer, Calls)
  BY <1>7, <1>8 DEF WayOk
<1>11. binding \in [Sessions -> Nat]
  BY DEF IInv
<1> QED BY <1>1, <1>2, <1>4, <1>5, <1>6, <1>9, <1>10, <1>11 DEF IInv, J

-----------------------------------------------------------------------------
(* The frame thread.  Realm r keeps the invariant, while the call of the   *)
(* Peer stays p.                                                           *)
Good(r, K, L, p) ==
    RealmOk(r, peer, K, L) /\ (peer.call # None => r.pending[peer.call] = p)

(* Only session s differs. *)
Only(r, d, s) ==
    /\ d.opened = r.opened /\ d.frame = r.frame
    /\ \A t \in Sessions \ {s} : d.sessions[t] = r.sessions[t] /\ d.deferred[t] = r.deferred[t]

Turns(r, d, s, K, L, p) == Good(d, K, L, p) /\ Only(r, d, s)

(* The calls are as they were. *)
Calm(r, d) ==
    d.pending = r.pending /\ d.calls = r.calls /\ d.generation = r.generation
      /\ d.revision = r.revision

LEMMA OnlyOn ==
    ASSUME NEW r, NEW d, NEW e, NEW s, Only(r, d, s), Only(d, e, s)
    PROVE  Only(r, e, s)
BY DEF Only

LEMMA NoneApart ==
    /\ None \notin Nat /\ None \notin EndType /\ None \notin SlotType
    /\ None \notin SessionType
    /\ \A p \in PendingType : p.result = None => p # None
<1>1. ASSUME NEW p \in PendingType, p.result = None PROVE p \in CallType
  BY <1>1 DEF PendingType, CallType
<1> QED BY <1>1, NoneAssumption

LEMMA UnsentJoins ==
    ASSUME NEW r, NEW w, NEW s, Unsent(r, w, s)
    PROVE  Joins(r, w, s)
BY DEF Unsent, Joins, Waits

LEMMA GoodTypes ==
    ASSUME NEW K, NEW L, NEW p, NEW r, Good(r, K, L, p), NEW s \in Sessions
    PROVE  /\ r \in RealmType
           /\ r.sessions[s] # None => r.sessions[s] \in SessionType
           /\ r.sessions[s] # None /\ r.sessions[s].slot # None =>
                r.sessions[s].slot \in SlotType
           /\ r.pending[s] # None => r.sessions[s] # None /\ r.sessions[s].slot # None
           /\ r.sessions[s] # None => s <= r.opened /\ r.deferred[s] = None
           /\ Waits(r, peer, s) => r.pending[s] # None
           /\ s \in Nat /\ r.opened \in Nat /\ r.generation \in Nat
<1>1. r \in RealmType /\ s \in Nat
  BY ServiceAssumption, RealmChatAssumption DEF Good, RealmOk, Sessions
<1>2. r.opened \in Nat /\ r.generation \in Nat /\ r.sessions[s] \in SessionType \cup {None}
  BY <1>1 DEF RealmType
<1>3. Waits(r, peer, s) => r.pending[s] # None
  BY NoneApart DEF Good, RealmOk, CallsOk
<1> QED BY <1>1, <1>2, <1>3 DEF Good, RealmOk, SessionsOk, SessionType

LEMMA SessionTurns ==
    ASSUME NEW K, NEW L, NEW p, NEW r, Good(r, K, L, p), NEW s \in Sessions,
           NEW x \in SessionType \cup {None},
           r.pending[s] # None => x # None /\ x.slot # None,
           x # None => s <= r.opened /\ r.deferred[s] = None
    PROVE  LET d == [r EXCEPT !.sessions[s] = x] IN
           Turns(r, d, s, K, L, p) /\ Calm(r, d) /\ d.sessions[s] = x
             /\ d.deferred = r.deferred
<1> DEFINE d == [r EXCEPT !.sessions[s] = x]
<1>1. r \in RealmType /\ RealmOk(r, peer, K, L)
  BY DEF Good, RealmOk
<1>2. /\ d \in RealmType /\ d.sessions[s] = x /\ Calm(r, d) /\ d.deferred = r.deferred
      /\ d.opened = r.opened /\ d.frame = r.frame
      /\ \A t \in Sessions \ {s} : d.sessions[t] = r.sessions[t]
  BY <1>1 DEF RealmType, Calm
<1> HIDE DEF d
<1>3. CallsOk(d, peer) /\ GenerationOk(d, peer, K) /\ ResultsOk(d, L)
  BY <1>1, <1>2 DEF RealmOk, CallsOk, GenerationOk, ResultsOk, Waits, Unsent, Joins, Gen, Calm
<1>4. SessionsOk(d)
  <2> SUFFICES ASSUME NEW t \in Sessions
               PROVE  /\ d.pending[t] # None => d.sessions[t] # None /\ d.sessions[t].slot # None
                      /\ t > d.opened => d.sessions[t] = None /\ d.deferred[t] = None
                      /\ d.deferred[t] # None => d.sessions[t] = None
    BY DEF SessionsOk
  <2>1. /\ r.pending[t] # None => r.sessions[t] # None /\ r.sessions[t].slot # None
        /\ t > r.opened => r.sessions[t] = None /\ r.deferred[t] = None
        /\ r.deferred[t] # None => r.sessions[t] = None
    BY <1>1 DEF RealmOk, SessionsOk
  <2>2. r.opened \in Nat /\ t \in Nat
    BY GoodTypes
  <2>3. CASE t = s
    BY <1>2, <2>1, <2>2, <2>3 DEF Calm
  <2>4. CASE t # s
    BY <1>2, <2>1, <2>4 DEF Calm
  <2> QED BY <2>3, <2>4
<1>5. Good(d, K, L, p)
  BY <1>2, <1>3, <1>4 DEF Good, RealmOk, Calm
<1> QED BY <1>2, <1>5 DEF Turns, Only, d

WithSlot(r, s, x) == [r EXCEPT !.sessions[s].slot = x]

(* A session that is there changes, and keeps its slot or loses it. *)
LEMMA SlotTurns ==
    ASSUME NEW K, NEW L, NEW p, NEW r, Good(r, K, L, p), NEW s \in Sessions,
           r.sessions[s] # None, NEW x \in SlotType \cup {None},
           r.pending[s] # None => x # None,
           NEW e, e = WithSlot(r, s, x)
    PROVE  /\ Turns(r, e, s, K, L, p) /\ Calm(r, e) /\ e.sessions[s].slot = x
           /\ e.sessions[s] \in SessionType /\ e.sessions[s] # None
           /\ e.sessions[s].alive = r.sessions[s].alive
<1> DEFINE y == [r.sessions[s] EXCEPT !.slot = x]
           d == [r EXCEPT !.sessions[s] = y]
<1>1. /\ r.sessions[s] \in SessionType /\ s <= r.opened /\ r.deferred[s] = None
      /\ r \in RealmType
  BY GoodTypes
<1>2. y \in SessionType /\ y.slot = x /\ y.alive = r.sessions[s].alive
  BY <1>1 DEF SessionType
<1>3. y # None
  BY <1>2, NoneApart
<1> HIDE DEF y
<1>4. Turns(r, d, s, K, L, p) /\ Calm(r, d) /\ d.sessions[s] = y
  BY <1>1, <1>2, <1>3, SessionTurns
<1>5. d = e
  BY DEF y, WithSlot
<1> QED BY <1>2, <1>3, <1>4, <1>5

(* What is left of a session for a call to it. *)
Holds(r, d, s) ==
    /\ d.sessions[s] # None
    /\ (r.sessions[s].slot = None) <=> (d.sessions[s].slot = None)

LEMMA RetireTurns ==
    ASSUME NEW K, NEW L, NEW p, NEW r, Good(r, K, L, p), NEW s \in Sessions,
           r.sessions[s] # None
    PROVE  LET d == Retire(r, s) IN
           Turns(r, d, s, K, L, p) /\ Calm(r, d) /\ Holds(r, d, s)
             /\ d.sessions[s].alive = r.sessions[s].alive
<1>1. CASE r.sessions[s].slot = None
  BY <1>1 DEF Retire, Slot, Turns, Only, Calm, Holds
<1>2. CASE r.sessions[s].slot # None
  <2> DEFINE x == [r.sessions[s].slot EXCEPT !.active = FALSE, !.retiring = TRUE, !.buffered = <<>>]
             d == [r EXCEPT !.sessions[s].slot = x]
  <2>1. r.sessions[s].slot \in SlotType
    BY <1>2, GoodTypes
  <2>2. x \in SlotType
    <3> DEFINE no == <<>>
    <3>1. no \in Seq(PushType)
      OBVIOUS
    <3>2. x = [r.sessions[s].slot EXCEPT !.active = FALSE, !.retiring = TRUE, !.buffered = no]
      OBVIOUS
    <3> HIDE DEF no, x
    <3> QED BY <2>1, <3>1, <3>2 DEF SlotType
  <2>3. Retire(r, s) = d
    BY <1>2 DEF Retire, Slot
  <2>6. d = WithSlot(r, s, x)
    BY DEF WithSlot
  <2> HIDE DEF x, d
  <2>4. x # None
    BY <2>2, NoneApart
  <2>5. Turns(r, d, s, K, L, p) /\ Calm(r, d) /\ d.sessions[s].slot = x
             /\ d.sessions[s] # None /\ d.sessions[s].alive = r.sessions[s].alive
    BY <2>2, <2>4, <2>6, SlotTurns
  <2> QED BY <1>2, <2>3, <2>4, <2>5 DEF Holds
<1> QED BY <1>1, <1>2

LEMMA ClearTurns ==
    ASSUME NEW K, NEW L, NEW p, NEW r, Good(r, K, L, p), NEW s \in Sessions,
           r.sessions[s] # None, r.pending[s] = None
    PROVE  LET d == Clear(r, s) IN
           Turns(r, d, s, K, L, p) /\ Calm(r, d) /\ d.sessions[s] # None
             /\ d.sessions[s].slot = None /\ d.sessions[s].alive = r.sessions[s].alive
<1> DEFINE d == Clear(r, s)
<1>1. d = WithSlot(r, s, None)
  BY DEF Clear, WithSlot
<1> HIDE DEF d
<1>2. None \in SlotType \cup {None}
  OBVIOUS
<1> QED BY <1>1, <1>2, SlotTurns DEF d

(* The generation of a membership that was not offered before. *)
New(r, s, K) ==
    LET g == r.sessions[s].slot.member.gen IN
    /\ g <= r.generation /\ g \notin K
    /\ \A t \in Sessions : Joins(r, peer, t) => Gen(r, t) # g

LEMMA SubmitTurns ==
    ASSUME NEW K, NEW L, NEW p, NEW r, Good(r, K, L, p), NEW s \in Sessions,
           peer \in PeerType, r.sessions[s] # None, r.sessions[s].slot # None,
           r.pending[s] = None, NEW op \in {"JOIN", "LEAVE", "SEND", "STATE"},
           NEW send \in SendType \cup {None}, op = "SEND" => send \in SendType,
           op = "JOIN" => New(r, s, K)
    PROVE  LET d == Submit(r, s, op, send) IN
           Turns(r, d, s, K, L, p) /\ d.sessions = r.sessions
<1> DEFINE d == Submit(r, s, op, send)
           x == [op |-> op, member |-> r.sessions[s].slot.member, send |-> send,
                 revision |-> peer.revision, result |-> None]
           calls == Append(r.calls, s)
<1>1. /\ r \in RealmType /\ r.sessions[s].slot \in SlotType /\ RealmOk(r, peer, K, L)
      /\ r.generation \in Nat
  BY GoodTypes DEF Good
<1>2. x \in PendingType /\ x.result = None /\ x # None /\ x.op = op
      /\ x.member = r.sessions[s].slot.member
  <2>1. peer.revision \in Nat /\ r.sessions[s].slot.member \in MemberType
    BY <1>1 DEF PeerType, SlotType
  <2>2. x \in PendingType /\ x.result = None
    BY <2>1 DEF PendingType
  <2> QED BY <2>2, NoneApart
<1>3. ~Waits(r, peer, s)
  BY GoodTypes
<1>4. /\ r.calls \in Seq(Sessions) /\ Len(r.calls) \in Nat
      /\ \A i \in 1..Len(r.calls) : r.calls[i] # s
  <2>1. r.calls \in Seq(Sessions)
    BY <1>1 DEF RealmType
  <2> QED BY <1>3, <2>1, InSeq DEF Waits
<1>5. /\ calls \in Seq(Sessions) /\ ToSet(calls) = ToSet(r.calls) \cup {s}
      /\ Len(calls) = Len(r.calls) + 1 /\ calls[Len(r.calls) + 1] = s
      /\ \A i \in 1..Len(r.calls) : calls[i] = r.calls[i]
  BY <1>4, InAppend, AppendProperties
<1>6. d = [r EXCEPT !.calls = calls, !.pending[s] = x]
  BY DEF Submit, Slot
<1> HIDE DEF x, calls, d
<1>7. /\ d \in RealmType /\ d.sessions = r.sessions /\ d.deferred = r.deferred
      /\ d.opened = r.opened /\ d.frame = r.frame /\ d.generation = r.generation
      /\ d.calls = calls /\ d.pending[s] = x
      /\ \A t \in Sessions \ {s} : d.pending[t] = r.pending[t]
  BY <1>1, <1>2, <1>5, <1>6 DEF RealmType
<1>8. \A t \in Sessions : Waits(d, peer, t) => t = s \/ Waits(r, peer, t)
  BY <1>5, <1>7 DEF Waits
<1>9. CallsOk(d, peer)
  <2>1. \A t \in Sessions : Waits(d, peer, t) =>
           d.pending[t] \in PendingType /\ d.pending[t].result = None
    BY <1>1, <1>2, <1>7, <1>8 DEF RealmOk, CallsOk
  <2>2. peer.call \notin ToSet(d.calls)
    BY <1>1, <1>3, <1>5, <1>7 DEF RealmOk, CallsOk, Waits
  <2>3. ASSUME NEW i \in 1..Len(d.calls), NEW j \in 1..Len(d.calls), d.calls[i] = d.calls[j]
        PROVE  i = j
    <3>1. Len(d.calls) = Len(r.calls) + 1
      BY <1>5, <1>7
    <3>2. CASE i \in 1..Len(r.calls) /\ j \in 1..Len(r.calls)
      BY <1>1, <1>5, <1>7, <2>3, <3>2 DEF RealmOk, CallsOk
    <3>3. CASE ~(i \in 1..Len(r.calls)) \/ ~(j \in 1..Len(r.calls))
      BY <1>4, <1>5, <1>7, <2>3, <3>1, <3>3
    <3> QED BY <3>2, <3>3
  <2> QED BY <2>1, <2>2, <2>3 DEF CallsOk
<1>10. \A t \in Sessions : Unsent(d, peer, t) =>
          \/ t = s /\ op = "JOIN" /\ Gen(d, s) = r.sessions[s].slot.member.gen
          \/ t # s /\ Unsent(r, peer, t) /\ Gen(d, t) = Gen(r, t)
  <2>1. ASSUME NEW t \in Sessions, Unsent(d, peer, t)
        PROVE  \/ t = s /\ op = "JOIN" /\ Gen(d, s) = r.sessions[s].slot.member.gen
               \/ t # s /\ Unsent(r, peer, t) /\ Gen(d, t) = Gen(r, t)
    <3>1. CASE t = s
      BY <1>2, <1>7, <2>1, <3>1 DEF Unsent, Gen
    <3>2. CASE t # s
      BY <1>5, <1>7, <2>1, <3>2 DEF Unsent, Gen
    <3> QED BY <3>1, <3>2
  <2> QED BY <2>1
<1>11. GenerationOk(d, peer, K)
  <2>1. GenerationOk(r, peer, K)
    BY <1>1 DEF RealmOk
  <2>2. \A g \in K : g <= d.generation
    BY <1>7, <2>1 DEF GenerationOk
  <2>3. ASSUME NEW t \in Sessions, Unsent(d, peer, t) PROVE Gen(d, t) \notin K
    BY <1>10, <2>1, <2>3 DEF GenerationOk, New
  <2>4. ASSUME NEW t \in Sessions, Joins(d, peer, t)
        PROVE  \/ t = s /\ op = "JOIN" /\ Gen(d, s) = r.sessions[s].slot.member.gen
               \/ t # s /\ Joins(r, peer, t) /\ Gen(d, t) = Gen(r, t)
    <3>1. CASE t = s
      BY <1>2, <1>7, <2>4, <3>1 DEF Joins, Gen
    <3>2. CASE t # s
      BY <1>7, <1>8, <2>4, <3>2 DEF Joins, Gen
    <3> QED BY <3>1, <3>2
  <2>5. ASSUME NEW t \in Sessions, Joins(d, peer, t) PROVE Gen(d, t) <= d.generation
    BY <1>7, <2>1, <2>4, <2>5 DEF GenerationOk, New
  <2>6. ASSUME NEW t \in Sessions, NEW u \in Sessions, Joins(d, peer, t), Unsent(d, peer, u),
               Gen(d, u) = Gen(d, t)
        PROVE  u = t
    BY <1>10, <2>1, <2>4, <2>6, UnsentJoins DEF GenerationOk, New
  <2> QED BY <2>2, <2>3, <2>5, <2>6 DEF GenerationOk
<1>12. SessionsOk(d)
  BY <1>1, <1>7 DEF RealmOk, SessionsOk
<1>13. ResultsOk(d, L)
  BY <1>1, <1>2, <1>7 DEF RealmOk, ResultsOk
<1>14. peer.call # None => d.pending[peer.call] = p
  BY <1>3, <1>7 DEF Good, Waits, PeerType
<1> QED BY <1>7, <1>9, <1>11, <1>12, <1>13, <1>14 DEF Turns, Only, Good, RealmOk, d

Raised(r) == [r EXCEPT !.generation = @ + 1]

LEMMA RaisedGood ==
    ASSUME NEW K \in SUBSET Nat, NEW L, NEW p, NEW r, Good(r, K, L, p)
    PROVE  /\ Good(Raised(r), K, L, p) /\ Raised(r).sessions = r.sessions
           /\ Raised(r).deferred = r.deferred /\ Raised(r).opened = r.opened
           /\ Raised(r).frame = r.frame /\ Raised(r).pending = r.pending
           /\ Raised(r).calls = r.calls /\ Raised(r).generation = r.generation + 1
<1> DEFINE d == Raised(r)
<1>1. r \in RealmType /\ RealmOk(r, peer, K, L) /\ r.generation \in Nat
  BY DEF Good, RealmOk, RealmType
<1>2. /\ d \in RealmType /\ d.sessions = r.sessions
      /\ d.deferred = r.deferred /\ d.opened = r.opened
      /\ d.frame = r.frame /\ d.pending = r.pending
      /\ d.calls = r.calls /\ d.generation = r.generation + 1
  <2> DEFINE n == r.generation + 1
  <2>1. d = [r EXCEPT !.generation = n] /\ n \in Nat
    BY <1>1 DEF Raised
  <2> HIDE DEF d, n
  <2>2. /\ d \in RealmType /\ d.sessions = r.sessions
        /\ d.deferred = r.deferred /\ d.opened = r.opened
        /\ d.frame = r.frame /\ d.pending = r.pending
        /\ d.calls = r.calls /\ d.generation = n
    BY <1>1, <2>1 DEF RealmType
  <2> QED BY <2>2 DEF n
<1> HIDE DEF d
<1>3. CallsOk(d, peer) /\ ResultsOk(d, L) /\ SessionsOk(d)
  BY <1>1, <1>2 DEF RealmOk, CallsOk, ResultsOk, SessionsOk, Waits
<1>4. GenerationOk(d, peer, K)
  <2>1. GenerationOk(r, peer, K)
    BY <1>1 DEF RealmOk
  <2>2. \A t \in Sessions : Unsent(d, peer, t) <=> Unsent(r, peer, t)
    BY <1>2 DEF Unsent
  <2>3. \A t \in Sessions : Gen(d, t) = Gen(r, t)
    BY <1>2 DEF Gen
  <2>9. \A t \in Sessions : Joins(d, peer, t) <=> Joins(r, peer, t)
    BY <1>2 DEF Joins, Waits
  <2>4. \A t \in Sessions : Joins(r, peer, t) => Gen(r, t) \in Nat
    <3> SUFFICES ASSUME NEW t \in Sessions, Joins(r, peer, t) PROVE Gen(r, t) \in Nat
      OBVIOUS
    <3>1. Waits(r, peer, t)
      BY DEF Joins
    <3>2. r.pending[t] \in PendingType
      BY <1>1, <3>1 DEF RealmOk, CallsOk
    <3> QED BY <3>2 DEF PendingType, MemberType, Gen
  <2>6. \A g \in K : g <= d.generation
    BY <1>1, <1>2, <2>1 DEF GenerationOk
  <2>7. \A t \in Sessions : /\ Unsent(d, peer, t) => Gen(d, t) \notin K
                            /\ Joins(d, peer, t) => Gen(d, t) <= d.generation
    BY <1>1, <1>2, <2>1, <2>2, <2>3, <2>4, <2>9 DEF GenerationOk
  <2>8. \A t, u \in Sessions : Joins(d, peer, t) /\ Unsent(d, peer, u)
           /\ Gen(d, u) = Gen(d, t) => u = t
    BY <2>1, <2>2, <2>3, <2>9 DEF GenerationOk
  <2> QED BY <2>6, <2>7, <2>8 DEF GenerationOk
<1> QED BY <1>2, <1>3, <1>4 DEF Good, RealmOk, d

Minded(K) == K \in SUBSET Nat /\ peer \in PeerType /\ binding \in [Sessions -> Nat]

LEMMA ReconcileTurns ==
    ASSUME NEW K, Minded(K), NEW L, NEW p, NEW r, Good(r, K, L, p), NEW s \in Sessions,
           r.sessions[s] # None, NEW due
    PROVE  LET d == Reconcile(r, s, due) IN
           Turns(r, d, s, K, L, p) /\ d.sessions[s] # None
<1> DEFINE session == r.sessions[s]
           epoch == binding[s]
           known == [r EXCEPT !.sessions[s].desired = epoch,
                              !.sessions[s].attempts =
                                 IF session.desired = epoch THEN @ ELSE JoinAttempts]
           kept == IF session.slot # None
                        /\ (~session.alive \/ session.slot.member.epoch # epoch)
                     THEN Retire(known, s) ELSE known
           member == [character |-> session.character, session |-> s,
                      gen |-> r.generation + 1, epoch |-> epoch]
           joining == [kept EXCEPT !.generation = @ + 1,
                                   !.sessions[s].attempts = @ - 1,
                                   !.sessions[s].slot = NewSlot(member)]
           d == Reconcile(r, s, due)
<1>1. /\ r \in RealmType /\ session \in SessionType /\ s <= r.opened /\ r.deferred[s] = None
      /\ s \in Nat /\ r.generation \in Nat /\ epoch \in Nat /\ K \in SUBSET Nat
      /\ peer \in PeerType
  BY GoodTypes DEF Minded
<1>2. d = IF /\ session.alive /\ session.slot = None /\ epoch # 0 /\ due
             /\ r.generation < MaxGeneration
             /\ kept.sessions[s].attempts > 0
            THEN IF CanSubmit(joining, s) THEN Submit(joining, s, "JOIN", None)
                 ELSE Clear(joining, s)
            ELSE kept
  BY DEF Reconcile
<1>3. /\ Turns(r, known, s, K, L, p) /\ Calm(r, known) /\ known.sessions[s] \in SessionType
      /\ known.sessions[s] # None /\ known.sessions[s].slot = session.slot
      /\ known.sessions[s].character = session.character
  <2> DEFINE n == IF session.desired = epoch THEN session.attempts ELSE JoinAttempts
             y == [session EXCEPT !.desired = epoch, !.attempts = n]
  <2>1. n \in Nat
    BY <1>1, RealmChatAssumption DEF SessionType
  <2> HIDE DEF n
  <2>2. y \in SessionType /\ y.slot = session.slot /\ y.character = session.character
    BY <1>1, <2>1 DEF SessionType
  <2>3. known = [r EXCEPT !.sessions[s] = y]
    BY <1>1 DEF RealmType, SessionType, n
  <2> HIDE DEF y, known
  <2>4. y # None /\ (r.pending[s] # None => y.slot # None)
    BY <2>2, NoneApart, GoodTypes
  <2> HIDE DEF session
  <2>5. Turns(r, known, s, K, L, p) /\ Calm(r, known) /\ known.sessions[s] = y
    BY <1>1, <2>2, <2>3, <2>4, SessionTurns
  <2> QED BY <2>2, <2>4, <2>5
<1> HIDE DEF known
<1>4. Turns(r, kept, s, K, L, p) /\ kept.sessions[s] # None /\ Calm(r, kept)
  <2>1. CASE kept = known
    BY <1>3, <2>1
  <2>2. CASE kept = Retire(known, s)
    <3> HIDE DEF kept
    <3>1. Good(known, K, L, p)
      BY <1>3 DEF Turns
    <3>2. /\ Turns(known, kept, s, K, L, p) /\ Calm(known, kept) /\ Holds(known, kept, s)
      BY <1>3, <2>2, <3>1, RetireTurns
    <3> QED BY <1>3, <3>2, OnlyOn DEF Turns, Calm, Holds
  <2> QED BY <2>1, <2>2
<1>5. CASE d = kept
  BY <1>4, <1>5
<1>6. CASE /\ session.alive /\ session.slot = None /\ epoch # 0 /\ due
           /\ r.generation < MaxGeneration
           /\ kept.sessions[s].attempts > 0
  <2>1. kept = known
    BY <1>6
  <2> DEFINE n == known.sessions[s].attempts - 1
             slot == NewSlot(member)
             z == [known.sessions[s] EXCEPT !.attempts = n, !.slot = slot]
             e == [known EXCEPT !.sessions[s] = z]
  <2>2. n \in Nat
    BY <1>3, <1>6, <2>1 DEF SessionType
  <2>3. slot \in SlotType /\ slot.member = member /\ member.gen = r.generation + 1
    <3>1. member \in MemberType /\ member.gen = r.generation + 1
      BY <1>1 DEF MemberType, SessionType
    <3> DEFINE no == <<>>
    <3>2. no \in Seq(PushType)
      OBVIOUS
    <3>3. slot = [member |-> member, active |-> FALSE, retiring |-> FALSE, inc |-> 0,
                  from |-> 0, watermark |-> 0, buffered |-> no]
      BY DEF NewSlot
    <3> HIDE DEF no, slot, member
    <3> QED BY <3>1, <3>2, <3>3 DEF SlotType
  <2> HIDE DEF n, slot, member
  <2>4. z \in SessionType /\ z.slot = slot
    BY <1>3, <2>2, <2>3 DEF SessionType
  <2>5. z # None /\ slot # None
    BY <2>3, <2>4, NoneApart
  <2>6. joining = Raised(e)
    <3>1. known \in RealmType
      BY <1>3 DEF Turns, Good, RealmOk
    <3> DEFINE old == known.sessions
               a == [old EXCEPT ![s].attempts = n, ![s].slot = slot]
               b == [old EXCEPT ![s] = z]
               g == known.generation + 1
    <3>2. old \in [Sessions -> SessionType \cup {None}] /\ old[s] \in SessionType
      BY <1>3, <3>1 DEF RealmType
    <3>3. a = b
      <4> DEFINE y == old[s]
                 a1 == [y EXCEPT !.attempts = n]
                 a2 == [a1 EXCEPT !.slot = slot]
      <4>1. a2 = z
        BY <3>2 DEF SessionType
      <4>2. a = [[old EXCEPT ![s] = a1] EXCEPT ![s] = a2]
        BY <3>2
      <4>3. b = [old EXCEPT ![s] = z]
        OBVIOUS
      <4> HIDE DEF z, a1, a2, a, b, old
      <4> QED BY <3>2, <4>1, <4>2, <4>3
    <3>4. joining = [known EXCEPT !.generation = g, !.sessions = a]
      <4>1. joining = [known EXCEPT !.generation = @ + 1, !.sessions[s].attempts = n,
                                    !.sessions[s].slot = slot]
        BY <2>1 DEF n, slot
      <4> HIDE DEF joining
      <4> QED BY <4>1, <3>1 DEF RealmType
    <3>5. Raised(e) = [[known EXCEPT !.sessions = b] EXCEPT !.generation = g]
      BY <3>1 DEF Raised, RealmType
    <3> HIDE DEF a, b, g, joining, e, old
    <3> QED BY <3>1, <3>3, <3>4, <3>5 DEF RealmType
  <2> HIDE DEF z
  <2>7. /\ Turns(known, e, s, K, L, p) /\ Calm(known, e) /\ e.sessions[s] = z
    <3>1. Good(known, K, L, p)
      BY <1>3 DEF Turns
    <3>2. s <= known.opened /\ known.deferred[s] = None
      BY <1>3, <3>1, GoodTypes
    <3> QED BY <2>4, <2>5, <3>1, <3>2, SessionTurns
  <2> HIDE DEF e
  <2>8. /\ Turns(r, e, s, K, L, p) /\ Calm(r, e) /\ e.sessions[s] = z
    BY <1>3, <2>7, OnlyOn DEF Turns, Calm
  <2> HIDE DEF joining, kept
  <2>9. /\ Good(joining, K, L, p) /\ joining.sessions = e.sessions
        /\ joining.deferred = e.deferred /\ joining.opened = e.opened
        /\ joining.frame = e.frame /\ joining.pending = e.pending
        /\ joining.calls = e.calls /\ joining.generation = e.generation + 1
    BY <1>1, <2>6, <2>8, RaisedGood DEF Turns
  <2>10. Turns(r, joining, s, K, L, p) /\ joining.sessions[s] # None /\ joining.sessions[s].slot = slot
    BY <2>4, <2>5, <2>8, <2>9 DEF Turns, Only
  <2>11. joining.pending[s] = None
    <3>1. r.pending[s] = None
      BY <1>6, GoodTypes
    <3> QED BY <2>8, <2>9, <3>1 DEF Calm
  <2>12. New(joining, s, K)
    <3>1. GenerationOk(r, peer, K) /\ joining.generation = r.generation + 1
          /\ joining.pending = r.pending /\ joining.calls = r.calls
      BY <2>8, <2>9 DEF Good, RealmOk, Calm
    <3>2. \A t \in Sessions : Joins(joining, peer, t) => Joins(r, peer, t)
      BY <3>1 DEF Joins, Waits
    <3>3. \A t \in Sessions : Gen(joining, t) = Gen(r, t)
      BY <3>1 DEF Gen
    <3>4. joining.sessions[s].slot.member.gen = r.generation + 1
      BY <2>3, <2>10
    <3>5. \A t \in Sessions : Joins(r, peer, t) => Gen(r, t) # r.generation + 1
      <4> SUFFICES ASSUME NEW t \in Sessions, Joins(r, peer, t)
                   PROVE  Gen(r, t) # r.generation + 1
        OBVIOUS
      <4>1. r.pending[t] \in PendingType
        BY DEF Joins, Good, RealmOk, CallsOk
      <4>2. Gen(r, t) \in Nat /\ Gen(r, t) <= r.generation /\ r.generation \in Nat
        BY <3>1, <4>1 DEF PendingType, MemberType, Gen, GenerationOk, Good, RealmOk, RealmType
      <4> QED BY <4>2
    <3> QED BY <1>1, <3>1, <3>2, <3>3, <3>4, <3>5 DEF New, GenerationOk
  <2>13. CASE d = Submit(joining, s, "JOIN", None)
    <3> HIDE DEF d
    <3>1. Turns(joining, d, s, K, L, p) /\ d.sessions = joining.sessions
      BY <1>1, <2>5, <2>9, <2>10, <2>11, <2>12, <2>13, SubmitTurns
    <3>2. Turns(r, d, s, K, L, p) /\ d.sessions[s] # None
      BY <2>10, <3>1, OnlyOn DEF Turns
    <3> QED BY <3>2 DEF d
  <2>14. CASE d = Clear(joining, s)
    <3> HIDE DEF d
    <3>1. Turns(joining, d, s, K, L, p) /\ d.sessions[s] # None
      BY <2>9, <2>10, <2>11, <2>14, ClearTurns
    <3>2. Turns(r, d, s, K, L, p) /\ d.sessions[s] # None
      BY <2>10, <3>1, OnlyOn DEF Turns
    <3> QED BY <3>2 DEF d
  <2> QED BY <1>2, <1>6, <2>13, <2>14
<1> QED BY <1>2, <1>5, <1>6

(* The sessions up to n have had their turn. *)
Stage(r, n, K, L, p) ==
    {x \in RealmType :
       /\ Good(x, K, L, p) /\ x.opened = r.opened /\ x.frame = r.frame
       /\ \A t \in Sessions : t > n =>
            x.sessions[t] = r.sessions[t] /\ x.deferred[t] = r.deferred[t]}

LEMMA StageStart ==
    ASSUME NEW K, NEW L, NEW p, NEW r, Good(r, K, L, p)
    PROVE  r \in Stage(r, 0, K, L, p)
BY DEF Stage, Good, RealmOk

LEMMA StageHas ==
    ASSUME NEW K, NEW L, NEW p, NEW r, NEW n \in Sessions, NEW x \in Stage(r, n - 1, K, L, p)
    PROVE  /\ Good(x, K, L, p) /\ x.sessions[n] = r.sessions[n] /\ x.deferred[n] = r.deferred[n]
           /\ x \in Stage(r, n, K, L, p)
<1>1. n \in Nat /\ n > n - 1 /\ \A t \in Sessions : t \in Nat /\ (t > n => t > n - 1)
  BY RealmChatAssumption DEF Sessions
<1> QED BY <1>1 DEF Stage

LEMMA StageTurns ==
    ASSUME NEW K, NEW L, NEW p, NEW r, NEW n \in Sessions, NEW x \in Stage(r, n, K, L, p),
           NEW d, Turns(x, d, n, K, L, p)
    PROVE  d \in Stage(r, n, K, L, p)
<1>1. \A t \in Sessions : t > n => t \in Sessions \ {n}
  BY RealmChatAssumption DEF Sessions
<1> QED BY <1>1 DEF Stage, Turns, Only, Good, RealmOk

(* Every session of a set ends. *)
EndedStep(f, r, set) ==
    [n \in 0..MaxSessions |->
       IF n = 0 THEN r ELSE IF n \in set THEN Ended(f[n - 1], n) ELSE f[n - 1]]

LEMMA EndedGoes ==
    ASSUME NEW K, Minded(K), NEW L, NEW p, NEW r, Good(r, K, L, p), NEW set,
           \A s \in set \cap Sessions : r.sessions[s] # None
    PROVE  ForEach(r, set, Ended) \in Stage(r, MaxSessions, K, L, p)
<1> DEFINE N == MaxSessions
           P == [n \in 0..N |-> Stage(r, n, K, L, p)]
           F == [n \in 1..N |-> [x \in P[n - 1] |-> IF n \in set THEN Ended(x, n) ELSE x]]
           E == CHOOSE f : f = EndedStep(f, r, set)
<1>1. /\ N \in Nat /\ 0 \in 0..N /\ Sessions = 1..N
      /\ \A n \in 0..N : P[n] = Stage(r, n, K, L, p)
      /\ \A n \in 1..N : n \in 0..N /\ n - 1 \in 0..N /\ n # 0
  BY RealmChatAssumption DEF Sessions
<1>2. ASSUME NEW n \in 1..N, NEW x \in P[n - 1]
      PROVE  /\ n \in set => Ended(x, n) \in P[n]
             /\ n \notin set => x \in P[n]
  <2>1. x \in Stage(r, n - 1, K, L, p) /\ n \in Sessions
    BY <1>1
  <2>2. /\ Good(x, K, L, p) /\ x.sessions[n] = r.sessions[n] /\ x.deferred[n] = r.deferred[n]
        /\ x \in Stage(r, n, K, L, p)
    BY <2>1, StageHas
  <2> HIDE DEF P
  <2>3. ASSUME n \in set PROVE Ended(x, n) \in Stage(r, n, K, L, p)
    <3>1. Turns(x, Ended(x, n), n, K, L, p)
      <4>1. x.sessions[n] # None
        BY <2>1, <2>2, <2>3
      <4> QED BY <2>1, <2>2, <4>1, RetireTurns, ClearTurns DEF Ended, Busy
    <3> QED BY <2>1, <2>2, <3>1, StageTurns
  <2> QED BY <1>1, <2>2, <2>3
<1>3. \A n \in 1..N : \A x \in P[n - 1] :
        F[n][x] = (IF n \in set THEN Ended(x, n) ELSE x) /\ F[n][x] \in P[n]
  BY <1>2
<1> HIDE DEF P, F, E
<1>4. PICK g : Solves(g, N, F, r)
  <2> HIDE DEF N
  <2> QED BY <1>1, Solve
<1>5. r \in P[0]
  BY <1>1, StageStart
<1> HIDE DEF N
<1> USE DEF Solves
<1>6. \A n \in 0..N : g[n] \in P[n]
  <2>1. \A n \in 1..N : g[n] = F[n][g[n - 1]]
    BY <1>4
  <2>2. \A n \in 1..N : g[n - 1] \in P[n - 1] => g[n] \in P[n]
    BY <1>3, <2>1
  <2>3. g[0] \in P[0]
    BY <1>4, <1>5
  <2> QED BY <1>1, <2>2, <2>3, Climb
<1>7. g = EndedStep(g, r, set)
  <2>1. \A n \in 0..N : g[n] = IF n = 0 THEN r
           ELSE IF n \in set THEN Ended(g[n - 1], n) ELSE g[n - 1]
    <3>1. g[0] = r /\ \A n \in 1..N : g[n] = F[n][g[n - 1]] /\ g[n - 1] \in P[n - 1]
      BY <1>1, <1>4, <1>6
    <3>2. \A n \in 0..N : n = 0 \/ n \in 1..N
      BY <1>1
    <3> QED BY <1>3, <3>1, <3>2
  <2>2. g = [n \in 0..N |-> g[n]]
    BY <1>4
  <2> QED BY <2>1, <2>2 DEF EndedStep, N
<1>8. E = EndedStep(E, r, set)
  BY <1>7 DEF E
<1>9. \A n \in 0..N : E[n] \in P[n]
  <2>1. E[0] \in P[0]
    BY <1>1, <1>5, <1>8 DEF EndedStep, N
  <2>2. \A n \in 1..N : E[n - 1] \in P[n - 1] => E[n] \in P[n]
    <3> SUFFICES ASSUME NEW n \in 1..N, E[n - 1] \in P[n - 1] PROVE E[n] \in P[n]
      OBVIOUS
    <3>1. E[n] = IF n \in set THEN Ended(E[n - 1], n) ELSE E[n - 1]
      BY <1>1, <1>8 DEF EndedStep, N
    <3> QED BY <1>2, <3>1
  <2> QED BY <1>1, <2>1, <2>2, Climb
<1>10. ForEach(r, set, Ended) = E[N]
  BY DEF ForEach, EndedStep, E, N
<1> QED BY <1>1, <1>9, <1>10 DEF N

(* Every session of a set is reconciled. *)
AgainStep(f, r, set) ==
    [n \in 0..MaxSessions |->
       IF n = 0 THEN r ELSE IF n \in set THEN Again(f[n - 1], n) ELSE f[n - 1]]

LEMMA AgainGoes ==
    ASSUME NEW K, Minded(K), NEW L, NEW p, NEW r, Good(r, K, L, p), NEW set,
           \A s \in set \cap Sessions : r.sessions[s] # None
    PROVE  ForEach(r, set, Again) \in Stage(r, MaxSessions, K, L, p)
<1> DEFINE N == MaxSessions
           P == [n \in 0..N |-> Stage(r, n, K, L, p)]
           F == [n \in 1..N |-> [x \in P[n - 1] |-> IF n \in set THEN Again(x, n) ELSE x]]
           E == CHOOSE f : f = AgainStep(f, r, set)
<1>1. /\ N \in Nat /\ 0 \in 0..N /\ Sessions = 1..N
      /\ \A n \in 0..N : P[n] = Stage(r, n, K, L, p)
      /\ \A n \in 1..N : n \in 0..N /\ n - 1 \in 0..N /\ n # 0
  BY RealmChatAssumption DEF Sessions
<1>2. ASSUME NEW n \in 1..N, NEW x \in P[n - 1]
      PROVE  /\ n \in set => Again(x, n) \in P[n]
             /\ n \notin set => x \in P[n]
  <2>1. x \in Stage(r, n - 1, K, L, p) /\ n \in Sessions
    BY <1>1
  <2>2. /\ Good(x, K, L, p) /\ x.sessions[n] = r.sessions[n] /\ x.deferred[n] = r.deferred[n]
        /\ x \in Stage(r, n, K, L, p)
    BY <2>1, StageHas
  <2> HIDE DEF P
  <2>3. ASSUME n \in set PROVE Again(x, n) \in Stage(r, n, K, L, p)
    <3>1. Turns(x, Again(x, n), n, K, L, p)
      <4>1. x.sessions[n] # None
        BY <2>1, <2>2, <2>3
      <4> QED BY <2>1, <2>2, <4>1, ReconcileTurns DEF Again
    <3> QED BY <2>1, <2>2, <3>1, StageTurns
  <2> QED BY <1>1, <2>2, <2>3
<1>3. \A n \in 1..N : \A x \in P[n - 1] :
        F[n][x] = (IF n \in set THEN Again(x, n) ELSE x) /\ F[n][x] \in P[n]
  BY <1>2
<1> HIDE DEF P, F, E
<1>4. PICK g : Solves(g, N, F, r)
  <2> HIDE DEF N
  <2> QED BY <1>1, Solve
<1>5. r \in P[0]
  BY <1>1, StageStart
<1> HIDE DEF N
<1> USE DEF Solves
<1>6. \A n \in 0..N : g[n] \in P[n]
  <2>1. \A n \in 1..N : g[n] = F[n][g[n - 1]]
    BY <1>4
  <2>2. \A n \in 1..N : g[n - 1] \in P[n - 1] => g[n] \in P[n]
    BY <1>3, <2>1
  <2>3. g[0] \in P[0]
    BY <1>4, <1>5
  <2> QED BY <1>1, <2>2, <2>3, Climb
<1>7. g = AgainStep(g, r, set)
  <2>1. \A n \in 0..N : g[n] = IF n = 0 THEN r
           ELSE IF n \in set THEN Again(g[n - 1], n) ELSE g[n - 1]
    <3>1. g[0] = r /\ \A n \in 1..N : g[n] = F[n][g[n - 1]] /\ g[n - 1] \in P[n - 1]
      BY <1>1, <1>4, <1>6
    <3>2. \A n \in 0..N : n = 0 \/ n \in 1..N
      BY <1>1
    <3> QED BY <1>3, <3>1, <3>2
  <2>2. g = [n \in 0..N |-> g[n]]
    BY <1>4
  <2> QED BY <2>1, <2>2 DEF AgainStep, N
<1>8. E = AgainStep(E, r, set)
  BY <1>7 DEF E
<1>9. \A n \in 0..N : E[n] \in P[n]
  <2>1. E[0] \in P[0]
    BY <1>1, <1>5, <1>8 DEF AgainStep, N
  <2>2. \A n \in 1..N : E[n - 1] \in P[n - 1] => E[n] \in P[n]
    <3> SUFFICES ASSUME NEW n \in 1..N, E[n - 1] \in P[n - 1] PROVE E[n] \in P[n]
      OBVIOUS
    <3>1. E[n] = IF n \in set THEN Again(E[n - 1], n) ELSE E[n - 1]
      BY <1>1, <1>8 DEF AgainStep, N
    <3> QED BY <1>2, <3>1
  <2> QED BY <1>1, <2>1, <2>2, Climb
<1>10. ForEach(r, set, Again) = E[N]
  BY DEF ForEach, AgainStep, E, N
<1> QED BY <1>1, <1>9, <1>10 DEF N

(* Nothing that matters differs. *)
LEMMA SameGood ==
    ASSUME NEW K, NEW L, NEW p, NEW r, Good(r, K, L, p), NEW d \in RealmType,
           d.sessions = r.sessions, d.deferred = r.deferred, d.pending = r.pending,
           d.calls = r.calls, d.generation = r.generation, d.opened >= r.opened
    PROVE  Good(d, K, L, p)
<1>1. RealmOk(r, peer, K, L) /\ r.opened \in Nat /\ d.opened \in Nat
  BY DEF Good, RealmOk, RealmType
<1>2. CallsOk(d, peer) /\ GenerationOk(d, peer, K) /\ ResultsOk(d, L)
  BY <1>1 DEF RealmOk, CallsOk, GenerationOk, ResultsOk, Waits, Unsent, Joins, Gen
<1>3. \A t \in Sessions : t > d.opened => t > r.opened
  BY <1>1, RealmChatAssumption DEF Sessions
<1>4. SessionsOk(d)
  BY <1>1, <1>3 DEF RealmOk, SessionsOk
<1> QED BY <1>2, <1>4 DEF Good, RealmOk

LEMMA DeferredTurns ==
    ASSUME NEW K, NEW L, NEW p, NEW r, Good(r, K, L, p), NEW s \in Sessions,
           NEW x \in Characters \cup {None}, x # None => s <= r.opened /\ r.sessions[s] = None
    PROVE  LET d == [r EXCEPT !.deferred[s] = x] IN
           Turns(r, d, s, K, L, p) /\ d.sessions = r.sessions /\ d.deferred[s] = x
<1> DEFINE d == [r EXCEPT !.deferred[s] = x]
<1>1. RealmOk(r, peer, K, L) /\ r.opened \in Nat /\ r \in RealmType
  BY DEF Good, RealmOk, RealmType
<1>2. /\ d \in RealmType /\ d.sessions = r.sessions /\ d.pending = r.pending
      /\ d.calls = r.calls /\ d.generation = r.generation /\ d.opened = r.opened
      /\ d.frame = r.frame /\ d.deferred[s] = x
      /\ \A t \in Sessions \ {s} : d.deferred[t] = r.deferred[t]
  BY <1>1 DEF RealmType
<1> HIDE DEF d
<1>3. CallsOk(d, peer) /\ GenerationOk(d, peer, K) /\ ResultsOk(d, L)
  BY <1>1, <1>2 DEF RealmOk, CallsOk, GenerationOk, ResultsOk, Waits, Unsent, Joins, Gen
<1>4. SessionsOk(d)
  <2> SUFFICES ASSUME NEW t \in Sessions
               PROVE  /\ d.pending[t] # None => d.sessions[t] # None /\ d.sessions[t].slot # None
                      /\ t > d.opened => d.sessions[t] = None /\ d.deferred[t] = None
                      /\ d.deferred[t] # None => d.sessions[t] = None
    BY DEF SessionsOk
  <2>1. /\ r.pending[t] # None => r.sessions[t] # None /\ r.sessions[t].slot # None
        /\ t > r.opened => r.sessions[t] = None /\ r.deferred[t] = None
        /\ r.deferred[t] # None => r.sessions[t] = None
        /\ t \in Nat
    BY <1>1, GoodTypes DEF RealmOk, SessionsOk
  <2>2. CASE t = s
    BY <1>1, <1>2, <2>1, <2>2
  <2>3. CASE t # s
    BY <1>2, <2>1, <2>3
  <2> QED BY <2>2, <2>3
<1> QED BY <1>2, <1>3, <1>4 DEF Turns, Only, Good, RealmOk, d

LEMMA SelectedTurns ==
    ASSUME NEW K, Minded(K), NEW L, NEW p, NEW r, Good(r, K, L, p), NEW s \in Sessions,
           s <= r.opened, r.sessions[s] = None, r.deferred[s] = None, NEW c \in Characters
    PROVE  Turns(r, Selected(r, s, c), s, K, L, p)
<1> DEFINE x == NewSession(c)
           e == [r EXCEPT !.sessions[s] = x]
<1>1. CASE Selected(r, s, c) = [r EXCEPT !.deferred[s] = c]
  BY <1>1, DeferredTurns
<1>2. CASE Selected(r, s, c) = Reconcile(e, s, TRUE)
  <2>1. x \in SessionType
    BY RealmChatAssumption DEF NewSession, SessionType
  <2>2. x # None
    BY <2>1, NoneApart
  <2>3. r.pending[s] = None
    BY GoodTypes
  <2> HIDE DEF x
  <2>4. Turns(r, e, s, K, L, p) /\ e.sessions[s] = x
    BY <2>1, <2>2, <2>3, SessionTurns
  <2> HIDE DEF e
  <2>5. Turns(e, Reconcile(e, s, TRUE), s, K, L, p)
    BY <2>2, <2>4, ReconcileTurns DEF Turns
  <2> QED BY <1>2, <2>4, <2>5, OnlyOn DEF Turns
<1> QED BY <1>1, <1>2 DEF Selected

LEMMA CloseTurns ==
    ASSUME NEW K, NEW L, NEW p, NEW r, Good(r, K, L, p), NEW s \in Sessions
    PROVE  Turns(r, CloseSession(r, s), s, K, L, p)
<1> DEFINE gone == [r EXCEPT !.deferred[s] = None]
           x == [gone.sessions[s] EXCEPT !.alive = FALSE]
           e == [gone EXCEPT !.sessions[s] = x]
<1>1. Turns(r, gone, s, K, L, p) /\ gone.sessions = r.sessions /\ gone.deferred[s] = None
  <2>1. None \in Characters \cup {None}
    OBVIOUS
  <2> QED BY <2>1, DeferredTurns
<1>2. CASE r.sessions[s] = None
  BY <1>1, <1>2 DEF CloseSession
<1>3. CASE r.sessions[s] # None
  <2> HIDE DEF gone
  <2>1. Good(gone, K, L, p) /\ gone.sessions[s] # None
    BY <1>1, <1>3 DEF Turns
  <2>2. /\ gone.sessions[s] \in SessionType /\ s <= gone.opened
        /\ (gone.pending[s] # None => gone.sessions[s].slot # None)
    BY <2>1, GoodTypes
  <2>3. x \in SessionType /\ x.slot = gone.sessions[s].slot
    BY <2>2 DEF SessionType
  <2>4. x # None
    BY <2>3, NoneApart
  <2> HIDE DEF x
  <2>5. Turns(gone, e, s, K, L, p) /\ e.sessions[s] = x
    BY <1>1, <2>1, <2>2, <2>3, <2>4, SessionTurns
  <2>6. CloseSession(r, s) = Retire(e, s)
    BY <1>3 DEF CloseSession, gone, x
  <2> HIDE DEF e
  <2>7. Turns(e, Retire(e, s), s, K, L, p)
    BY <2>4, <2>5, RetireTurns DEF Turns
  <2> QED BY <1>1, <2>5, <2>6, <2>7, OnlyOn DEF Turns
<1> QED BY <1>2, <1>3

LEMMA SelectDeferredTurns ==
    ASSUME NEW K, Minded(K), NEW L, NEW p, NEW r, Good(r, K, L, p), NEW s \in Sessions,
           r.deferred[s] # None
    PROVE  Turns(r, SelectDeferred(r, s), s, K, L, p)
<1> DEFINE e == [r EXCEPT !.deferred[s] = None]
<1>1. r \in RealmType /\ RealmOk(r, peer, K, L)
  BY DEF Good, RealmOk
<1>2. r.deferred[s] \in Characters /\ r.sessions[s] = None /\ s <= r.opened
  <2>1. s \in Nat /\ r.opened \in Nat
    BY GoodTypes
  <2> QED BY <1>1, <2>1 DEF RealmOk, SessionsOk, RealmType
<1>3. Turns(r, e, s, K, L, p) /\ e.sessions = r.sessions /\ e.deferred[s] = None
  <2>1. None \in Characters \cup {None}
    OBVIOUS
  <2> QED BY <2>1, DeferredTurns
<1>4. SelectDeferred(r, s) = Selected(e, s, r.deferred[s])
  BY DEF SelectDeferred
<1> HIDE DEF e
<1>5. Turns(e, Selected(e, s, r.deferred[s]), s, K, L, p)
  BY <1>2, <1>3, SelectedTurns DEF Turns, Only
<1> QED BY <1>3, <1>4, <1>5, OnlyOn DEF Turns

(* Every session of a set is selected. *)
DeferredStep(f, r, set) ==
    [n \in 0..MaxSessions |->
       IF n = 0 THEN r ELSE IF n \in set THEN SelectDeferred(f[n - 1], n) ELSE f[n - 1]]

LEMMA DeferredGoes ==
    ASSUME NEW K, Minded(K), NEW L, NEW p, NEW r, Good(r, K, L, p), NEW set,
           \A s \in set \cap Sessions : r.deferred[s] # None
    PROVE  ForEach(r, set, SelectDeferred) \in Stage(r, MaxSessions, K, L, p)
<1> DEFINE N == MaxSessions
           P == [n \in 0..N |-> Stage(r, n, K, L, p)]
           F == [n \in 1..N |-> [x \in P[n - 1] |-> IF n \in set THEN SelectDeferred(x, n) ELSE x]]
           E == CHOOSE f : f = DeferredStep(f, r, set)
<1>1. /\ N \in Nat /\ 0 \in 0..N /\ Sessions = 1..N
      /\ \A n \in 0..N : P[n] = Stage(r, n, K, L, p)
      /\ \A n \in 1..N : n \in 0..N /\ n - 1 \in 0..N /\ n # 0
  BY RealmChatAssumption DEF Sessions
<1>2. ASSUME NEW n \in 1..N, NEW x \in P[n - 1]
      PROVE  /\ n \in set => SelectDeferred(x, n) \in P[n]
             /\ n \notin set => x \in P[n]
  <2>1. x \in Stage(r, n - 1, K, L, p) /\ n \in Sessions
    BY <1>1
  <2>2. /\ Good(x, K, L, p) /\ x.sessions[n] = r.sessions[n] /\ x.deferred[n] = r.deferred[n]
        /\ x \in Stage(r, n, K, L, p)
    BY <2>1, StageHas
  <2> HIDE DEF P
  <2>3. ASSUME n \in set PROVE SelectDeferred(x, n) \in Stage(r, n, K, L, p)
    <3>1. Turns(x, SelectDeferred(x, n), n, K, L, p)
      <4>1. x.deferred[n] # None
        BY <2>1, <2>2, <2>3
      <4> QED BY <2>1, <2>2, <4>1, SelectDeferredTurns
    <3> QED BY <2>1, <2>2, <3>1, StageTurns
  <2> QED BY <1>1, <2>2, <2>3
<1>3. \A n \in 1..N : \A x \in P[n - 1] :
        F[n][x] = (IF n \in set THEN SelectDeferred(x, n) ELSE x) /\ F[n][x] \in P[n]
  BY <1>2
<1> HIDE DEF P, F, E
<1>4. PICK g : Solves(g, N, F, r)
  <2> HIDE DEF N
  <2> QED BY <1>1, Solve
<1>5. r \in P[0]
  BY <1>1, StageStart
<1> HIDE DEF N
<1> USE DEF Solves
<1>6. \A n \in 0..N : g[n] \in P[n]
  <2>1. \A n \in 1..N : g[n] = F[n][g[n - 1]]
    BY <1>4
  <2>2. \A n \in 1..N : g[n - 1] \in P[n - 1] => g[n] \in P[n]
    BY <1>3, <2>1
  <2>3. g[0] \in P[0]
    BY <1>4, <1>5
  <2> QED BY <1>1, <2>2, <2>3, Climb
<1>7. g = DeferredStep(g, r, set)
  <2>1. \A n \in 0..N : g[n] = IF n = 0 THEN r
           ELSE IF n \in set THEN SelectDeferred(g[n - 1], n) ELSE g[n - 1]
    <3>1. g[0] = r /\ \A n \in 1..N : g[n] = F[n][g[n - 1]] /\ g[n - 1] \in P[n - 1]
      BY <1>1, <1>4, <1>6
    <3>2. \A n \in 0..N : n = 0 \/ n \in 1..N
      BY <1>1
    <3> QED BY <1>3, <3>1, <3>2
  <2>2. g = [n \in 0..N |-> g[n]]
    BY <1>4
  <2> QED BY <2>1, <2>2 DEF DeferredStep, N
<1>8. E = DeferredStep(E, r, set)
  BY <1>7 DEF E
<1>9. \A n \in 0..N : E[n] \in P[n]
  <2>1. E[0] \in P[0]
    BY <1>1, <1>5, <1>8 DEF DeferredStep, N
  <2>2. \A n \in 1..N : E[n - 1] \in P[n - 1] => E[n] \in P[n]
    <3> SUFFICES ASSUME NEW n \in 1..N, E[n - 1] \in P[n - 1] PROVE E[n] \in P[n]
      OBVIOUS
    <3>1. E[n] = IF n \in set THEN SelectDeferred(E[n - 1], n) ELSE E[n - 1]
      BY <1>1, <1>8 DEF DeferredStep, N
    <3> QED BY <1>2, <3>1
  <2> QED BY <1>1, <2>1, <2>2, Climb
<1>10. ForEach(r, set, SelectDeferred) = E[N]
  BY DEF ForEach, DeferredStep, E, N
<1> QED BY <1>1, <1>9, <1>10 DEF N

(* What a slot passes on of its buffer. *)
Passing == [watermark : Nat, whole : BOOLEAN]

Passes(slot, x, push) ==
    IF push.seq <= x.watermark \/ ~x.whole THEN x
    ELSE IF push.inc # slot.inc \/ push.seq # x.watermark + 1
      THEN [x EXCEPT !.whole = FALSE]
    ELSE [x EXCEPT !.watermark = push.seq]

PassStep(f, slot) ==
    [n \in 0..Len(slot.buffered) |->
       IF n = 0 THEN [watermark |-> slot.watermark, whole |-> TRUE]
       ELSE Passes(slot, f[n - 1], slot.buffered[n])]

LEMMA PassTypes ==
    ASSUME NEW slot \in SlotType
    PROVE  LET f == CHOOSE g : g = PassStep(g, slot) IN f[Len(slot.buffered)] \in Passing
<1> DEFINE N == Len(slot.buffered)
           first == [watermark |-> slot.watermark, whole |-> TRUE]
           P == [n \in 0..N |-> Passing]
           F == [n \in 1..N |-> [x \in Passing |-> Passes(slot, x, slot.buffered[n])]]
           E == CHOOSE g : g = PassStep(g, slot)
<1>1. /\ N \in Nat /\ \A n \in 1..N : slot.buffered[n] \in PushType
      /\ first \in Passing
  BY InSeq DEF SlotType, Passing
<1>2. ASSUME NEW n \in 1..N, NEW x \in Passing
      PROVE  Passes(slot, x, slot.buffered[n]) \in Passing
  <2>1. slot.buffered[n].seq \in Nat
    BY <1>1 DEF PushType
  <2> QED BY <2>1 DEF Passes, Passing
<1>3. \A n \in 1..N : \A x \in Passing :
        F[n][x] = Passes(slot, x, slot.buffered[n]) /\ F[n][x] \in Passing
  BY <1>2
<1>4. /\ \A n \in 0..N : P[n] = Passing
      /\ \A n \in 1..N : n \in 0..N /\ n - 1 \in 0..N /\ n # 0
      /\ 0 \in 0..N /\ N \in 0..N
  BY <1>1
<1> HIDE DEF F, E, P, first
<1>5. PICK g : Solves(g, N, F, first)
  <2>1. N \in Nat
    BY <1>1
  <2> HIDE DEF N
  <2> QED BY <2>1, Solve
<1> HIDE DEF N
<1> USE DEF Solves
<1>6. \A n \in 0..N : g[n] \in P[n]
  <2>1. g[0] \in P[0]
    BY <1>1, <1>4, <1>5
  <2>2. \A n \in 1..N : g[n] = F[n][g[n - 1]]
    BY <1>5
  <2>3. \A n \in 1..N : g[n - 1] \in P[n - 1] => g[n] \in P[n]
    BY <1>3, <1>4, <2>2
  <2> QED BY <1>1, <2>1, <2>3, Climb
<1>7. g = PassStep(g, slot)
  <2>1. \A n \in 0..N : g[n] = IF n = 0 THEN first ELSE Passes(slot, g[n - 1], slot.buffered[n])
    <3>1. g[0] = first /\ \A n \in 1..N : g[n] = F[n][g[n - 1]]
      BY <1>5
    <3>2. \A n \in 1..N : g[n - 1] \in Passing
      BY <1>4, <1>6
    <3>3. \A n \in 0..N : n = 0 \/ n \in 1..N
      BY <1>1
    <3> QED BY <1>3, <3>1, <3>2, <3>3
  <2>2. g = [n \in 0..N |-> g[n]]
    BY <1>5
  <2> QED BY <2>1, <2>2 DEF PassStep, N, first
<1>8. E = PassStep(E, slot)
  BY <1>7 DEF E
<1>9. \A n \in 0..N : E[n] \in P[n]
  <2>1. E[0] \in P[0]
    BY <1>1, <1>4, <1>8 DEF PassStep, N, first
  <2>2. \A n \in 1..N : E[n - 1] \in P[n - 1] => E[n] \in P[n]
    <3> SUFFICES ASSUME NEW n \in 1..N, E[n - 1] \in P[n - 1] PROVE E[n] \in P[n]
      OBVIOUS
    <3>1. E[n] = Passes(slot, E[n - 1], slot.buffered[n])
      BY <1>4, <1>8 DEF PassStep, N
    <3> QED BY <1>2, <1>4, <3>1
  <2> QED BY <1>1, <2>1, <2>2, Climb
<1> QED BY <1>4, <1>9 DEF E, N

LEMMA DeliverTurns ==
    ASSUME NEW K, NEW L, NEW p, NEW r, Good(r, K, L, p), NEW s \in Sessions,
           r.sessions[s] # None
    PROVE  LET d == Deliver(r, s) IN
           Turns(r, d, s, K, L, p) /\ Calm(r, d) /\ Holds(r, d, s)
<1> DEFINE slot == r.sessions[s].slot
           f == CHOOSE g : g = PassStep(g, slot)
           end == f[Len(slot.buffered)]
           x == [slot EXCEPT !.watermark = end.watermark, !.buffered = <<>>]
           e == [r EXCEPT !.sessions[s].slot = x]
           d == Deliver(r, s)
<1>1. CASE d = r
  <2>1. Turns(r, r, s, K, L, p) /\ Calm(r, r) /\ Holds(r, r, s)
    BY DEF Turns, Only, Calm, Holds
  <2> QED BY <1>1, <2>1
<1>2. CASE slot # None /\ d \in {e, Retire(e, s)}
  <2>1. slot \in SlotType
    BY <1>2, GoodTypes
  <2> HIDE DEF slot
  <2>2. end \in Passing
    BY <2>1, PassTypes
  <2> HIDE DEF end
  <2>3. x \in SlotType
    <3> DEFINE no == <<>>
               n == end.watermark
    <3>1. no \in Seq(PushType) /\ n \in Nat
      BY <2>2 DEF Passing
    <3>2. x = [slot EXCEPT !.watermark = n, !.buffered = no]
      OBVIOUS
    <3> HIDE DEF no, n, x
    <3> QED BY <2>1, <3>1, <3>2 DEF SlotType
  <2>4. e = WithSlot(r, s, x)
    BY DEF WithSlot
  <2>5. x # None
    BY <2>3, NoneApart
  <2> HIDE DEF x, e
  <2>6. Turns(r, e, s, K, L, p) /\ Calm(r, e) /\ Holds(r, e, s)
    <3>1. Turns(r, e, s, K, L, p) /\ Calm(r, e) /\ e.sessions[s].slot = x /\ e.sessions[s] # None
      BY <2>3, <2>4, <2>5, SlotTurns
    <3> QED BY <1>2, <2>5, <3>1 DEF Holds, slot
  <2>7. CASE d = Retire(e, s)
    <3> HIDE DEF d
    <3>1. Turns(e, d, s, K, L, p) /\ Calm(e, d) /\ Holds(e, d, s)
      BY <2>6, <2>7, RetireTurns DEF Turns, Holds
    <3>2. Turns(r, d, s, K, L, p) /\ Calm(r, d) /\ Holds(r, d, s)
      BY <2>6, <3>1, OnlyOn DEF Turns, Calm, Holds
    <3> QED BY <3>2 DEF d
  <2> QED BY <1>2, <2>6, <2>7
<1>3. d = r \/ (slot # None /\ d \in {e, Retire(e, s)})
  BY DEF Deliver, Slot, PassStep, Passes
<1> QED BY <1>1, <1>2, <1>3

LEMMA SettleTurns ==
    ASSUME NEW K, Minded(K), NEW L, NEW p, NEW r, Good(r, K, L, p), NEW s \in Sessions,
           r.sessions[s] # None, NEW due
    PROVE  Turns(r, Settle(r, s, due), s, K, L, p)
<1> DEFINE d == Deliver(r, s)
           left == IF Slot(d, s) = None THEN d
                   ELSE IF ~Slot(d, s).retiring \/ Busy(d, s) THEN d
                   ELSE IF d.revision # peer.revision THEN Clear(d, s)
                   ELSE IF due /\ CanSubmit(d, s) THEN Submit(d, s, "LEAVE", None)
                   ELSE d
           gone == [left EXCEPT !.sessions[s] = None]
<1>1. Turns(r, d, s, K, L, p) /\ d.sessions[s] # None /\ Good(d, K, L, p)
  BY DeliverTurns DEF Holds, Turns
<1>2. Settle(r, s, due) = IF ~left.sessions[s].alive /\ left.sessions[s].slot = None THEN gone
                          ELSE Reconcile(left, s, due)
  BY DEF Settle, Slot
<1> HIDE DEF d
<1>3. Turns(r, left, s, K, L, p) /\ left.sessions[s] # None
  <2>1. CASE left = d
    BY <1>1, <2>1
  <2>2. CASE left = Clear(d, s) /\ d.pending[s] = None
    <3> HIDE DEF left
    <3>1. Turns(d, left, s, K, L, p) /\ left.sessions[s] # None
      BY <1>1, <2>2, ClearTurns
    <3> QED BY <1>1, <3>1, OnlyOn DEF Turns
  <2>3. CASE left = Submit(d, s, "LEAVE", None) /\ CanSubmit(d, s)
    <3> HIDE DEF left
    <3>1. d.sessions[s].slot # None /\ d.pending[s] = None
      BY <2>3 DEF CanSubmit, Slot, Busy
    <3>2. peer \in PeerType /\ None \in SendType \cup {None}
      BY DEF Minded
    <3>3. Turns(d, left, s, K, L, p) /\ left.sessions = d.sessions
      BY <1>1, <2>3, <3>1, <3>2, SubmitTurns
    <3> QED BY <1>1, <3>3, OnlyOn DEF Turns
  <2> QED BY <2>1, <2>2, <2>3 DEF Busy
<1> HIDE DEF left
<1>4. Good(left, K, L, p)
  BY <1>3 DEF Turns
<1>5. CASE left.sessions[s].slot = None /\ Settle(r, s, due) = gone
  <2>1. left.pending[s] = None
    BY <1>4, <1>5, GoodTypes
  <2>2. None \in SessionType \cup {None}
    OBVIOUS
  <2>3. Turns(left, gone, s, K, L, p)
    BY <1>4, <2>1, <2>2, SessionTurns
  <2> HIDE DEF gone
  <2> QED BY <1>3, <1>5, <2>3, OnlyOn DEF Turns
<1>6. CASE Settle(r, s, due) = Reconcile(left, s, due)
  <2>1. Turns(left, Reconcile(left, s, due), s, K, L, p)
    BY <1>3, <1>4, ReconcileTurns
  <2> QED BY <1>3, <1>6, <2>1, OnlyOn DEF Turns
<1> QED BY <1>2, <1>5, <1>6

(* Every session of a set is settled. *)
SettleStep(f, r, set, due) ==
    [n \in 0..MaxSessions |->
       IF n = 0 THEN r ELSE IF n \in set THEN Settle(f[n - 1], n, n \in due) ELSE f[n - 1]]

Settled(r, set, due) == LET One(x, s) == Settle(x, s, s \in due) IN ForEach(r, set, One)

LEMMA SettleGoes ==
    ASSUME NEW K, Minded(K), NEW L, NEW p, NEW r, Good(r, K, L, p), NEW set,
           \A s \in set \cap Sessions : r.sessions[s] # None, NEW due
    PROVE  Settled(r, set, due) \in Stage(r, MaxSessions, K, L, p)
<1> DEFINE N == MaxSessions
           P == [n \in 0..N |-> Stage(r, n, K, L, p)]
           F == [n \in 1..N |-> [x \in P[n - 1] |-> IF n \in set THEN Settle(x, n, n \in due) ELSE x]]
           E == CHOOSE f : f = SettleStep(f, r, set, due)
<1>1. /\ N \in Nat /\ 0 \in 0..N /\ Sessions = 1..N
      /\ \A n \in 0..N : P[n] = Stage(r, n, K, L, p)
      /\ \A n \in 1..N : n \in 0..N /\ n - 1 \in 0..N /\ n # 0
  BY RealmChatAssumption DEF Sessions
<1>2. ASSUME NEW n \in 1..N, NEW x \in P[n - 1]
      PROVE  /\ n \in set => Settle(x, n, n \in due) \in P[n]
             /\ n \notin set => x \in P[n]
  <2>1. x \in Stage(r, n - 1, K, L, p) /\ n \in Sessions
    BY <1>1
  <2>2. /\ Good(x, K, L, p) /\ x.sessions[n] = r.sessions[n] /\ x.deferred[n] = r.deferred[n]
        /\ x \in Stage(r, n, K, L, p)
    BY <2>1, StageHas
  <2> HIDE DEF P
  <2>3. ASSUME n \in set PROVE Settle(x, n, n \in due) \in Stage(r, n, K, L, p)
    <3>1. Turns(x, Settle(x, n, n \in due), n, K, L, p)
      <4>1. x.sessions[n] # None
        BY <2>1, <2>2, <2>3
      <4> QED BY <2>1, <2>2, <4>1, SettleTurns
    <3> QED BY <2>1, <2>2, <3>1, StageTurns
  <2> QED BY <1>1, <2>2, <2>3
<1>3. \A n \in 1..N : \A x \in P[n - 1] :
        F[n][x] = (IF n \in set THEN Settle(x, n, n \in due) ELSE x) /\ F[n][x] \in P[n]
  BY <1>2
<1> HIDE DEF P, F, E
<1>4. PICK g : Solves(g, N, F, r)
  <2> HIDE DEF N
  <2> QED BY <1>1, Solve
<1>5. r \in P[0]
  BY <1>1, StageStart
<1> HIDE DEF N
<1> USE DEF Solves
<1>6. \A n \in 0..N : g[n] \in P[n]
  <2>1. \A n \in 1..N : g[n] = F[n][g[n - 1]]
    BY <1>4
  <2>2. \A n \in 1..N : g[n - 1] \in P[n - 1] => g[n] \in P[n]
    BY <1>3, <2>1
  <2>3. g[0] \in P[0]
    BY <1>4, <1>5
  <2> QED BY <1>1, <2>2, <2>3, Climb
<1>7. g = SettleStep(g, r, set, due)
  <2>1. \A n \in 0..N : g[n] = IF n = 0 THEN r
           ELSE IF n \in set THEN Settle(g[n - 1], n, n \in due) ELSE g[n - 1]
    <3>1. g[0] = r /\ \A n \in 1..N : g[n] = F[n][g[n - 1]] /\ g[n - 1] \in P[n - 1]
      BY <1>1, <1>4, <1>6
    <3>2. \A n \in 0..N : n = 0 \/ n \in 1..N
      BY <1>1
    <3> QED BY <1>3, <3>1, <3>2
  <2>2. g = [n \in 0..N |-> g[n]]
    BY <1>4
  <2> QED BY <2>1, <2>2 DEF SettleStep, N
<1>8. E = SettleStep(E, r, set, due)
  BY <1>7 DEF E
<1>9. \A n \in 0..N : E[n] \in P[n]
  <2>1. E[0] \in P[0]
    BY <1>1, <1>5, <1>8 DEF SettleStep, N
  <2>2. \A n \in 1..N : E[n - 1] \in P[n - 1] => E[n] \in P[n]
    <3> SUFFICES ASSUME NEW n \in 1..N, E[n - 1] \in P[n - 1] PROVE E[n] \in P[n]
      OBVIOUS
    <3>1. E[n] = IF n \in set THEN Settle(E[n - 1], n, n \in due) ELSE E[n - 1]
      BY <1>1, <1>8 DEF SettleStep, N
    <3> QED BY <1>2, <3>1
  <2> QED BY <1>1, <2>1, <2>2, Climb
<1>10. Settled(r, set, due) = E[N]
  BY DEF Settled, ForEach, SettleStep, E, N
<1> QED BY <1>1, <1>9, <1>10 DEF N

(* A push that is buffered, or retires the slot. *)
LEMMA BufferTurns ==
    ASSUME NEW K, NEW L, NEW p, NEW r, Good(r, K, L, p), NEW push \in PushType
    PROVE  LET d == Buffer(r, push) IN
           /\ Good(d, K, L, p) /\ d.opened = r.opened /\ d.frame = r.frame
           /\ \A t \in Sessions : r.sessions[t] # None => d.sessions[t] # None
<1> DEFINE s == push.member.session
           slot == r.sessions[s].slot
           x == [slot EXCEPT !.buffered = Append(@, push)]
           e == [r EXCEPT !.sessions[s].slot = x]
           d == Buffer(r, push)
<1>1. s \in Sessions
  BY DEF PushType, MemberType
<1>2. CASE d = r
  BY <1>2
<1>3. CASE r.sessions[s] # None /\ slot # None /\ d = Retire(r, s)
  <2> HIDE DEF s, d
  <2>1. Turns(r, d, s, K, L, p) /\ d.sessions[s] # None
    BY <1>1, <1>3, RetireTurns DEF Holds
  <2>2. Good(d, K, L, p) /\ d.opened = r.opened /\ d.frame = r.frame
        /\ \A t \in Sessions : r.sessions[t] # None => d.sessions[t] # None
    BY <2>1 DEF Turns, Only
  <2> QED BY <2>2 DEF d
<1>4. CASE r.sessions[s] # None /\ slot # None /\ d = e
  <2> HIDE DEF s, d
  <2>1. slot \in SlotType
    BY <1>1, <1>4, GoodTypes
  <2>2. e = WithSlot(r, s, x)
    BY DEF WithSlot
  <2>3. x \in SlotType
    <3> DEFINE b == Append(slot.buffered, push)
    <3> HIDE DEF slot
    <3>1. b \in Seq(PushType)
      BY <2>1, InAppend DEF SlotType
    <3>2. x = [slot EXCEPT !.buffered = b]
      OBVIOUS
    <3> HIDE DEF b, x
    <3> QED BY <2>1, <3>1, <3>2 DEF SlotType
  <2>4. x # None
    BY <2>3, NoneApart
  <2> HIDE DEF x, e
  <2>5. Turns(r, e, s, K, L, p) /\ e.sessions[s] # None
    BY <1>1, <1>4, <2>2, <2>3, <2>4, SlotTurns
  <2>6. Good(d, K, L, p) /\ d.opened = r.opened /\ d.frame = r.frame
        /\ \A t \in Sessions : r.sessions[t] # None => d.sessions[t] # None
    BY <1>4, <2>5 DEF Turns, Only
  <2> QED BY <2>6 DEF d
<1>5. d = r \/ (r.sessions[s] # None /\ slot # None /\ d \in {e, Retire(r, s)})
  BY DEF Buffer, Slot
<1> QED BY <1>2, <1>3, <1>4, <1>5

(* The pushes up to one have been buffered. *)
Kept(r, K, L, p) ==
    {x \in RealmType :
       /\ Good(x, K, L, p) /\ x.opened = r.opened /\ x.frame = r.frame
       /\ \A t \in Sessions : r.sessions[t] # None => x.sessions[t] # None}

BufferStep(f, r, pushes) ==
    [n \in 0..Len(pushes) |-> IF n = 0 THEN r ELSE Buffer(f[n - 1], pushes[n])]

LEMMA BufferedGoes ==
    ASSUME NEW K, NEW L, NEW p, NEW r, Good(r, K, L, p), NEW pushes \in Seq(PushType)
    PROVE  Buffered(r, pushes) \in Kept(r, K, L, p)
<1> DEFINE N == Len(pushes)
           S == Kept(r, K, L, p)
           P == [n \in 0..N |-> S]
           F == [n \in 1..N |-> [x \in S |-> Buffer(x, pushes[n])]]
           E == CHOOSE f : f = BufferStep(f, r, pushes)
<1>1. /\ N \in Nat /\ \A n \in 1..N : pushes[n] \in PushType
      /\ r \in S
  <2>1. r \in S
    BY DEF Kept, Good, RealmOk
  <2> HIDE DEF S
  <2> QED BY <2>1, InSeq
<1>2. ASSUME NEW n \in 1..N, NEW x \in S PROVE Buffer(x, pushes[n]) \in S
  <2>1. pushes[n] \in PushType /\ Good(x, K, L, p) /\ x.opened = r.opened /\ x.frame = r.frame
        /\ \A t \in Sessions : r.sessions[t] # None => x.sessions[t] # None
    BY <1>1 DEF Kept
  <2> DEFINE d == Buffer(x, pushes[n])
  <2>2. /\ Good(d, K, L, p) /\ d.opened = x.opened /\ d.frame = x.frame
        /\ \A t \in Sessions : x.sessions[t] # None => d.sessions[t] # None
    BY <2>1, BufferTurns
  <2> HIDE DEF d
  <2>3. d \in Kept(r, K, L, p)
    BY <2>1, <2>2 DEF Kept, Good, RealmOk
  <2> QED BY <2>3 DEF d
<1> HIDE DEF S
<1>3. \A n \in 1..N : \A x \in S : F[n][x] = Buffer(x, pushes[n]) /\ F[n][x] \in S
  BY <1>2
<1>4. /\ \A n \in 0..N : P[n] = S
      /\ \A n \in 1..N : n \in 0..N /\ n - 1 \in 0..N /\ n # 0
      /\ 0 \in 0..N /\ N \in 0..N
  BY <1>1
<1> HIDE DEF F, E, P
<1>5. PICK g : Solves(g, N, F, r)
  <2>1. N \in Nat
    BY <1>1
  <2> HIDE DEF N
  <2> QED BY <2>1, Solve
<1> HIDE DEF N
<1> USE DEF Solves
<1>6. \A n \in 0..N : g[n] \in P[n]
  <2>1. g[0] \in P[0]
    BY <1>1, <1>4, <1>5
  <2>2. \A n \in 1..N : g[n] = F[n][g[n - 1]]
    BY <1>5
  <2>3. \A n \in 1..N : g[n - 1] \in P[n - 1] => g[n] \in P[n]
    BY <1>3, <1>4, <2>2
  <2> QED BY <1>1, <2>1, <2>3, Climb
<1>7. g = BufferStep(g, r, pushes)
  <2>1. \A n \in 0..N : g[n] = IF n = 0 THEN r ELSE Buffer(g[n - 1], pushes[n])
    <3>1. g[0] = r /\ \A n \in 1..N : g[n] = F[n][g[n - 1]]
      BY <1>5
    <3>2. \A n \in 1..N : g[n - 1] \in S
      BY <1>4, <1>6
    <3>3. \A n \in 0..N : n = 0 \/ n \in 1..N
      BY <1>1
    <3> QED BY <1>3, <3>1, <3>2, <3>3
  <2>2. g = [n \in 0..N |-> g[n]]
    BY <1>5
  <2> QED BY <2>1, <2>2 DEF BufferStep, N
<1>8. E = BufferStep(E, r, pushes)
  BY <1>7 DEF E
<1>9. \A n \in 0..N : E[n] \in P[n]
  <2>1. E[0] \in P[0]
    BY <1>1, <1>4, <1>8 DEF BufferStep, N
  <2>2. \A n \in 1..N : E[n - 1] \in P[n - 1] => E[n] \in P[n]
    <3> SUFFICES ASSUME NEW n \in 1..N, E[n - 1] \in P[n - 1] PROVE E[n] \in P[n]
      OBVIOUS
    <3>1. E[n] = Buffer(E[n - 1], pushes[n])
      BY <1>4, <1>8 DEF BufferStep, N
    <3> QED BY <1>2, <1>4, <3>1
  <2> QED BY <1>1, <2>1, <2>2, Climb
<1>10. Buffered(r, pushes) = E[N]
  BY DEF Buffered, BufferStep, E, N
<1> QED BY <1>4, <1>9, <1>10 DEF S

-----------------------------------------------------------------------------
(* The steps of the frame thread. *)

LEMMA SpokenNat ==
    ASSUME IInv
    PROVE  Spoken(chat, log, toChat) \in SUBSET Nat
<1>1. ServiceOk(chat, log) /\ StreamsOk
  BY DEF IInv
<1>2. Installed(chat, log) \subseteq Nat
  BY <1>1 DEF ServiceOk, ChatType, ServiceMember, MemberType, LogType, Installed
<1>3. ASSUME NEW q \in Peers, NEW r \in Flying(chat, toChat, q), r.op = "JOIN"
      PROVE  r.member.gen \in Nat
  <2>1. r \in RequestType
    BY <1>1, FlyingTypes
  <2> QED BY <1>3, <2>1 DEF RequestType, MemberType
<1> QED BY <1>2, <1>3 DEF Spoken

LEMMA HasRealm ==
    ASSUME IInv
    PROVE  /\ Minded(Spoken(chat, log, toChat))
           /\ Good(realm, Spoken(chat, log, toChat), log, Calls)
           /\ realm \in RealmType
BY SpokenNat DEF IInv, Minded, Good, PeerOk, RealmOk, Calls

(* The Peer, but for what it has received and a reset. *)
SamePeer(w, v) ==
    /\ v \in PeerType /\ v.stream = w.stream /\ v.link = w.link /\ v.revision = w.revision
    /\ v.call = w.call /\ v.hello = w.hello /\ v.retried = w.retried
    /\ v.nextId = w.nextId /\ v.dialled = w.dialled

LEMMA SameCall ==
    ASSUME NEW w, NEW c, NEW L, NEW T, NEW B, NEW p, NEW v, NEW x,
           SamePeer(w, v), w.call # None => x = p,
           PeerOk(w, c, L, p), WayOk(c, L, T, B, w, p), DialOk(c, T, w)
    PROVE  PeerOk(v, c, L, x) /\ WayOk(c, L, T, B, v, x) /\ DialOk(c, T, v)
<1>1. Sent(v) <=> Sent(w)
  BY DEF Sent, SamePeer
<1>2. Sent(w) => x = p
  BY DEF Sent
<1>3. PeerOk(v, c, L, x)
  BY <1>1, <1>2 DEF PeerOk, SamePeer
<1>4. WayOk(c, L, T, B, v, x)
  BY <1>1, <1>2 DEF WayOk, RequestOk, ReplyOk, SamePeer
<1>5. DialOk(c, T, v)
  BY DEF DialOk, SamePeer
<1> QED BY <1>3, <1>4, <1>5

LEMMA FrameKeeps ==
    ASSUME IInv, UNCHANGED <<chat, toChat, toRealm, log>>, SamePeer(peer, peer'),
           Good(realm', Spoken(chat, log, toChat), log, Calls),
           binding' \in [Sessions -> Nat], TellsTrue(told', log)
    PROVE  IInv'
<1>1. peer.call # None => Calls' = Calls
  BY DEF Good, Calls, SamePeer
<1>2. PeerOk(peer, chat, log, Calls) /\ WayOk(chat, log, toChat, toRealm, peer, Calls)
      /\ DialOk(chat, toChat, peer)
  BY DEF IInv, StreamsOk
<1>3. PeerOk(peer', chat, log, Calls') /\ WayOk(chat, log, toChat, toRealm, peer', Calls')
      /\ DialOk(chat, toChat, peer')
  BY <1>1, <1>2, SameCall
<1> DEFINE K == Spoken(chat, log, toChat)
<1>4. RealmOk(realm', peer', K, log)
  <2>1. RealmOk(realm', peer, K, log)
    BY DEF Good
  <2> QED BY <2>1 DEF RealmOk, CallsOk, GenerationOk, Waits, Unsent, Joins, SamePeer
<1> QED BY <1>3, <1>4 DEF IInv, StreamsOk

LEMMA SelectKeeps ==
    ASSUME IInv, NEW s \in Sessions, NEW c \in Characters, Select(s, c)
    PROVE  IInv'
<1> DEFINE K == Spoken(chat, log, toChat)
           e == [realm EXCEPT !.opened = s]
<1>1. /\ Minded(K) /\ Good(realm, K, log, Calls) /\ realm \in RealmType
  BY HasRealm
<1>2. /\ s = realm.opened + 1 /\ realm' = Selected(e, s, c)
      /\ UNCHANGED <<peer, chat, toChat, toRealm, log, binding, told>>
  BY DEF Select, others
<1> HIDE DEF K
<1>3. realm.opened \in Nat /\ s \in Nat /\ s > realm.opened
  BY <1>1, <1>2 DEF RealmType
<1>4. /\ e \in RealmType /\ e.sessions = realm.sessions /\ e.deferred = realm.deferred
      /\ e.pending = realm.pending /\ e.calls = realm.calls
      /\ e.generation = realm.generation /\ e.opened = s
  BY <1>1, <1>3 DEF RealmType
<1> HIDE DEF e
<1>5. Good(e, K, log, Calls)
  BY <1>1, <1>3, <1>4, SameGood
<1>6. e.sessions[s] = None /\ e.deferred[s] = None /\ s <= e.opened
  BY <1>1, <1>3, <1>4 DEF Good, RealmOk, SessionsOk
<1>7. Good(realm', K, log, Calls)
  BY <1>1, <1>2, <1>5, <1>6, SelectedTurns DEF Turns
<1>8. SamePeer(peer, peer')
  BY <1>1, <1>2 DEF SamePeer, Minded
<1> QED BY <1>2, <1>7, <1>8, FrameKeeps DEF K, IInv

LEMMA CloseKeeps ==
    ASSUME IInv, NEW s \in Sessions, Close(s)
    PROVE  IInv'
<1> DEFINE K == Spoken(chat, log, toChat)
<1>1. /\ Minded(K) /\ Good(realm, K, log, Calls)
  BY HasRealm
<1>2. /\ realm' = CloseSession(realm, s)
      /\ UNCHANGED <<peer, chat, toChat, toRealm, log, binding, told>>
  BY DEF Close, others
<1>3. Good(realm', K, log, Calls)
  BY <1>1, <1>2, CloseTurns DEF Turns
<1>4. SamePeer(peer, peer')
  BY <1>1, <1>2 DEF SamePeer, Minded
<1> QED BY <1>2, <1>3, <1>4, FrameKeeps DEF IInv

(* A request of the client. *)
LEMMA RequestKeeps ==
    ASSUME IInv, NEW s \in Sessions, NEW op \in {"STATE", "SEND"},
           NEW send \in SendType \cup {None}, op = "SEND" => send \in SendType,
           Request(s, op, send)
    PROVE  IInv'
<1> DEFINE K == Spoken(chat, log, toChat)
           x == [realm.sessions[s] EXCEPT !.attempts = JoinAttempts]
           e == [realm EXCEPT !.sessions[s] = x]
           fresh == IF op = "STATE" /\ Slot(realm, s) = None
                      THEN [realm EXCEPT !.sessions[s].attempts = JoinAttempts] ELSE realm
<1>1. /\ Minded(K) /\ Good(realm, K, log, Calls) /\ realm.sessions[s] # None
  BY HasRealm DEF Request, Known
<1>2. PICK due \in BOOLEAN :
         LET r == Reconcile(fresh, s, due) IN
         realm' = IF Slot(r, s) = None THEN r
                  ELSE IF Slot(r, s).active /\ CanSubmit(r, s)
                         /\ (op = "SEND" => send.inc = Slot(r, s).inc)
                    THEN [Submit(r, s, op, send) EXCEPT !.requests = @ + 1]
                  ELSE r
  BY DEF Request
<1>3. UNCHANGED <<peer, chat, toChat, toRealm, log, binding, told>>
  BY DEF Request, others
<1> HIDE DEF K
<1>4. Good(fresh, K, log, Calls) /\ fresh.sessions[s] # None
  <2>1. /\ realm.sessions[s] \in SessionType /\ s <= realm.opened /\ realm.deferred[s] = None
        /\ (realm.pending[s] # None => realm.sessions[s].slot # None)
    BY <1>1, GoodTypes
  <2>2. x \in SessionType /\ x.slot = realm.sessions[s].slot
    BY <2>1, RealmChatAssumption DEF SessionType
  <2>3. x # None
    BY <2>2, NoneApart
  <2>4. fresh = realm \/ fresh = e
    OBVIOUS
  <2> HIDE DEF x, fresh
  <2>5. Turns(realm, e, s, K, log, Calls) /\ e.sessions[s] = x
    BY <1>1, <2>1, <2>2, <2>3, SessionTurns
  <2> HIDE DEF e
  <2> QED BY <1>1, <2>3, <2>4, <2>5 DEF Turns
<1> HIDE DEF fresh
<1> DEFINE r == Reconcile(fresh, s, due)
           d == Submit(r, s, op, send)
<1>5. Good(r, K, log, Calls) /\ r.sessions[s] # None
  BY <1>1, <1>4, ReconcileTurns DEF Turns
<1>6. \/ realm' = r
      \/ /\ realm' = [d EXCEPT !.requests = @ + 1]
         /\ r.sessions[s].slot # None /\ r.pending[s] = None
  BY <1>2 DEF CanSubmit, Slot, Busy
<1> HIDE DEF r
<1>7. Good(realm', K, log, Calls)
  <2>1. CASE realm' = r
    BY <1>5, <2>1
  <2>2. CASE /\ realm' = [d EXCEPT !.requests = @ + 1]
             /\ r.sessions[s].slot # None /\ r.pending[s] = None
    <3>1. op \in {"JOIN", "LEAVE", "SEND", "STATE"} /\ op # "JOIN" /\ peer \in PeerType
      BY <1>1 DEF Minded
    <3>2. Good(d, K, log, Calls)
      BY <1>5, <2>2, <3>1, SubmitTurns DEF Turns
    <3> HIDE DEF d
    <3>3. d \in RealmType /\ d.opened \in Nat /\ d.requests + 1 \in Nat
      BY <3>2 DEF Good, RealmOk, RealmType
    <3> DEFINE n == d.requests + 1
    <3>4. realm' = [d EXCEPT !.requests = n]
      BY <2>2
    <3> HIDE DEF n
    <3>5. /\ realm' \in RealmType /\ realm'.sessions = d.sessions
          /\ realm'.deferred = d.deferred /\ realm'.pending = d.pending
          /\ realm'.calls = d.calls /\ realm'.generation = d.generation
          /\ realm'.opened = d.opened
      BY <3>3, <3>4 DEF RealmType, n
    <3> QED BY <3>2, <3>3, <3>5, SameGood
  <2> QED BY <1>6, <2>1, <2>2
<1>8. SamePeer(peer, peer')
  BY <1>1, <1>3 DEF SamePeer, Minded
<1> QED BY <1>3, <1>7, <1>8, FrameKeeps DEF K, IInv

LEMMA StartKeeps ==
    ASSUME IInv, CompleteStart
    PROVE  IInv'
<1> DEFINE K == Spoken(chat, log, toChat)
           m == Moved(realm)
           e == ForEach(m, Known(m), Again)
           f == [realm EXCEPT !.revision = peer.revision]
           set == {s \in Known(realm) : Slot(realm, s) # None}
<1>1. /\ Minded(K) /\ Good(realm, K, log, Calls) /\ realm \in RealmType
  BY HasRealm
<1>2. /\ realm' = [e EXCEPT !.frame = "finish"]
      /\ UNCHANGED <<peer, chat, toChat, toRealm, log, binding, told>>
  BY DEF CompleteStart, others
<1> HIDE DEF K
<1>3. Good(m, K, log, Calls)
  <2>1. CASE m = realm
    BY <1>1, <2>1
  <2>2. CASE m = ForEach(f, set, Ended)
    <3>1. peer.revision \in Nat /\ realm.opened \in Nat
      BY <1>1 DEF Minded, PeerType, RealmType
    <3>2. /\ f \in RealmType /\ f.sessions = realm.sessions /\ f.deferred = realm.deferred
          /\ f.pending = realm.pending /\ f.calls = realm.calls
          /\ f.generation = realm.generation /\ f.opened = realm.opened
      BY <1>1, <3>1 DEF RealmType
    <3>3. \A s \in set \cap Sessions : f.sessions[s] # None
      BY <3>2 DEF Known
    <3> HIDE DEF f, set, m
    <3>4. Good(f, K, log, Calls)
      BY <1>1, <3>1, <3>2, SameGood
    <3>5. m \in Stage(f, MaxSessions, K, log, Calls)
      BY <1>1, <2>2, <3>3, <3>4, EndedGoes
    <3> QED BY <3>5 DEF Stage
  <2> QED BY <2>1, <2>2 DEF Moved
<1> HIDE DEF m
<1>4. Good(e, K, log, Calls)
  <2>1. \A s \in Known(m) \cap Sessions : m.sessions[s] # None
    BY DEF Known
  <2>2. e \in Stage(m, MaxSessions, K, log, Calls)
    BY <1>1, <1>3, <2>1, AgainGoes
  <2> QED BY <2>2 DEF Stage
<1> HIDE DEF e
<1>5. Good(realm', K, log, Calls)
  <2>1. e \in RealmType /\ e.opened \in Nat
    BY <1>4 DEF Good, RealmOk, RealmType
  <2>2. /\ realm' \in RealmType /\ realm'.sessions = e.sessions
        /\ realm'.deferred = e.deferred /\ realm'.pending = e.pending
        /\ realm'.calls = e.calls /\ realm'.generation = e.generation
        /\ realm'.opened = e.opened
    BY <1>2, <2>1 DEF RealmType
  <2> QED BY <1>4, <2>1, <2>2, SameGood
<1>6. SamePeer(peer, peer')
  BY <1>1, <1>2 DEF SamePeer, Minded
<1> QED BY <1>2, <1>5, <1>6, FrameKeeps DEF K, IInv

LEMMA EndKeeps ==
    ASSUME IInv, CompleteEnd
    PROVE  IInv'
<1> DEFINE K == Spoken(chat, log, toChat)
           b == Buffered(realm, peer.pushes)
<1>1. /\ Minded(K) /\ Good(realm, K, log, Calls) /\ realm \in RealmType
  BY HasRealm
<1>2. PICK due \in SUBSET Known(realm) :
         LET settled == Settled(b, Known(realm), due)
             waiting == {s \in Sessions : settled.deferred[s] # None}
         IN  realm' = [ForEach(settled, waiting, SelectDeferred) EXCEPT !.frame = "events"]
  BY DEF CompleteEnd, Settled
<1>3. /\ peer' = [peer EXCEPT !.pushes = <<>>]
      /\ UNCHANGED <<chat, toChat, toRealm, log, binding, told>>
  BY DEF CompleteEnd
<1> HIDE DEF K
<1>4. b \in Kept(realm, K, log, Calls)
  <2>1. peer.pushes \in Seq(PushType)
    BY <1>1 DEF Minded, PeerType
  <2> QED BY <1>1, <2>1, BufferedGoes
<1>5. /\ Good(b, K, log, Calls)
      /\ \A s \in Known(realm) \cap Sessions : b.sessions[s] # None
  BY <1>4 DEF Kept, Known
<1> HIDE DEF b
<1> DEFINE settled == Settled(b, Known(realm), due)
           waiting == {s \in Sessions : settled.deferred[s] # None}
           e == ForEach(settled, waiting, SelectDeferred)
<1>6. Good(settled, K, log, Calls)
  <2>1. settled \in Stage(b, MaxSessions, K, log, Calls)
    BY <1>1, <1>5, SettleGoes
  <2> QED BY <2>1 DEF Stage
<1>7. realm' = [e EXCEPT !.frame = "events"]
  BY <1>2
<1> HIDE DEF settled
<1>8. Good(e, K, log, Calls)
  <2>1. \A s \in waiting \cap Sessions : settled.deferred[s] # None
    OBVIOUS
  <2> HIDE DEF waiting
  <2>2. e \in Stage(settled, MaxSessions, K, log, Calls)
    BY <1>1, <1>6, <2>1, DeferredGoes
  <2> QED BY <2>2 DEF Stage
<1> HIDE DEF e
<1>9. Good(realm', K, log, Calls)
  <2>1. e \in RealmType /\ e.opened \in Nat
    BY <1>8 DEF Good, RealmOk, RealmType
  <2>2. /\ realm' \in RealmType /\ realm'.sessions = e.sessions
        /\ realm'.deferred = e.deferred /\ realm'.pending = e.pending
        /\ realm'.calls = e.calls /\ realm'.generation = e.generation
        /\ realm'.opened = e.opened
    BY <1>7, <2>1 DEF RealmType
  <2> QED BY <1>8, <2>1, <2>2, SameGood
<1>10. SamePeer(peer, peer')
  <2> DEFINE no == <<>>
  <2>1. no \in Seq(PushType) /\ peer' = [peer EXCEPT !.pushes = no] /\ peer \in PeerType
    BY <1>1, <1>3 DEF Minded
  <2> HIDE DEF no
  <2> QED BY <2>1 DEF SamePeer, PeerType
<1> QED BY <1>3, <1>9, <1>10, FrameKeeps DEF K, IInv

(* A call that has its result is over. *)
LEMMA FreedGood ==
    ASSUME peer \in PeerType, NEW K, NEW L, NEW p, NEW r, Good(r, K, L, p), NEW s \in Sessions,
           r.pending[s] # None, r.pending[s].result # None
    PROVE  LET d == [r EXCEPT !.pending[s] = None] IN
           Good(d, K, L, p) /\ d.sessions = r.sessions /\ d.pending[s] = None
<1> DEFINE d == [r EXCEPT !.pending[s] = None]
<1>1. RealmOk(r, peer, K, L) /\ r \in RealmType
  BY DEF Good, RealmOk
<1>2. /\ d \in RealmType /\ d.sessions = r.sessions /\ d.deferred = r.deferred
      /\ d.calls = r.calls /\ d.generation = r.generation /\ d.opened = r.opened
      /\ d.pending[s] = None /\ \A t \in Sessions \ {s} : d.pending[t] = r.pending[t]
  BY <1>1 DEF RealmType
<1> HIDE DEF d
<1>3. ~Waits(r, peer, s)
  BY <1>1 DEF RealmOk, CallsOk
<1>4. \A t \in Sessions : Waits(d, peer, t) => t # s /\ Waits(r, peer, t)
  BY <1>2, <1>3 DEF Waits
<1>5. CallsOk(d, peer)
  BY <1>1, <1>2, <1>4 DEF RealmOk, CallsOk
<1>6. GenerationOk(d, peer, K)
  <2>1. \A t \in Sessions : Unsent(d, peer, t) =>
          t # s /\ Unsent(r, peer, t) /\ Gen(d, t) = Gen(r, t)
    <3> SUFFICES ASSUME NEW t \in Sessions, Unsent(d, peer, t)
                 PROVE  t # s /\ Unsent(r, peer, t) /\ Gen(d, t) = Gen(r, t)
      OBVIOUS
    <3>1. t # s
      BY <1>4 DEF Unsent, Waits
    <3> QED BY <1>2, <3>1 DEF Unsent, Gen
  <2>2. \A t \in Sessions : Joins(d, peer, t) => Joins(r, peer, t) /\ Gen(d, t) = Gen(r, t)
    BY <1>2, <1>4 DEF Joins, Gen
  <2>3. GenerationOk(r, peer, K)
    BY <1>1 DEF RealmOk
  <2> QED BY <1>2, <2>1, <2>2, <2>3 DEF GenerationOk
<1>7. SessionsOk(d) /\ ResultsOk(d, L)
  BY <1>1, <1>2 DEF RealmOk, SessionsOk, ResultsOk
<1>8. peer.call # None => d.pending[peer.call] = p
  BY <1>2, <1>3 DEF Good, Waits, PeerType
<1> QED BY <1>2, <1>5, <1>6, <1>7, <1>8 DEF Good, RealmOk, d

(* What the sender is told. *)
LEMMA TellsWell ==
    ASSUME IInv, NEW s \in Sessions, realm.pending[s] # None, realm.pending[s].result # None
    PROVE  TellsTrue(Telling(s), log)
<1> SUFFICES ASSUME NEW t \in Telling(s), t.outcome = "ACCEPTED"
             PROVE  [inc |-> t.inc, at |-> t.receipt, gen |-> t.gen, seq |-> t.seq,
                     text |-> t.text] \in log
  BY DEF TellsTrue
<1> DEFINE p == realm.pending[s]
<1>1. /\ p.op = "SEND" /\ t.outcome = Outcome(s) /\ t.inc = p.send.inc
      /\ t.gen = p.member.gen /\ t.seq = p.send.seq /\ t.text = p.send.text
      /\ t.receipt = IF Outcome(s) = "ACCEPTED" THEN Reply(s).body.receipt ELSE 0
  BY DEF Telling
<1>2. Outcome(s) = "ACCEPTED" /\ t.receipt = Reply(s).body.receipt
  BY <1>1
<1>3. Reply(s) # None /\ Reply(s).status = "OK" /\ Reply(s).body.outcome = "ACCEPTED"
  BY <1>2 DEF Outcome
<1>4. TrueReply(log, Reply(s), p)
  BY <1>1, <1>3 DEF IInv, RealmOk, ResultsOk, Reply
<1>5. Noted(log, p, t.receipt)
  BY <1>2, <1>3, <1>4 DEF TrueReply
<1> QED BY <1>1, <1>5 DEF Noted

LEMMA FinishKeeps ==
    ASSUME IInv, NEW s \in Sessions, CompleteFinish(s)
    PROVE  IInv'
<1> DEFINE K == Spoken(chat, log, toChat)
           p == realm.pending[s]
           r == [realm EXCEPT !.pending[s] = None]
           slot == r.sessions[s].slot
           state == Reply(s).body
           x == [slot EXCEPT !.active = TRUE, !.inc = state.inc, !.from = state.from,
                             !.watermark = state.from]
           y == [slot EXCEPT !.active = TRUE]
<1>1. /\ Minded(K) /\ Good(realm, K, log, Calls) /\ realm \in RealmType
  BY HasRealm
<1>2. /\ p # None /\ p.result # None /\ realm' = Finished(s)
      /\ told' = told \cup Telling(s)
      /\ UNCHANGED <<chat, toChat, toRealm, log, binding>>
  BY DEF CompleteFinish
<1>3. SamePeer(peer, peer')
  <2> DEFINE b == peer.reset \/ (Current(s) /\ realm.pending[s].op = "LEAVE" /\ ~Succeeded(s))
  <2>1. peer' = [peer EXCEPT !.reset = b] /\ peer \in PeerType /\ b \in BOOLEAN
    BY <1>1 DEF CompleteFinish, Minded, PeerType
  <2> HIDE DEF b
  <2> QED BY <2>1 DEF SamePeer, PeerType
<1> HIDE DEF K
<1>4. /\ Good(r, K, log, Calls) /\ r.sessions = realm.sessions /\ r.pending[s] = None
      /\ r.sessions[s] # None /\ slot \in SlotType /\ slot # None
  <2>1. Good(r, K, log, Calls) /\ r.sessions = realm.sessions /\ r.pending[s] = None
    BY <1>1, <1>2, FreedGood DEF Minded
  <2> HIDE DEF r
  <2> QED BY <1>1, <1>2, <2>1, GoodTypes
<1>5. Succeeded(s) /\ p.op = "JOIN" => state \in StateType
  <2> SUFFICES ASSUME Succeeded(s), p.op = "JOIN" PROVE state \in StateType
    OBVIOUS
  <2>1. Reply(s) # None /\ Reply(s).status = "OK"
    BY DEF Succeeded
  <2>2. p \in PendingType
    BY <1>1, <1>2 DEF RealmType
  <2>3. Reply(s) \in ReplyType
    BY <1>2, <2>1, <2>2 DEF PendingType, AnswerType, Reply
  <2>4. Reply(s).op = "JOIN"
    BY <1>1, <1>2, <2>1 DEF Good, RealmOk, ResultsOk, Reply
  <2> QED BY <2>1, <2>3, <2>4 DEF ReplyType
<1>6. \/ realm' \in {r, Clear(r, s), Retire(r, s), WithSlot(r, s, y)}
      \/ Succeeded(s) /\ p.op = "JOIN" /\ realm' = WithSlot(r, s, x)
  <2>1. WithSlot(r, s, x) = [r EXCEPT !.sessions[s].slot =
            [@ EXCEPT !.active = TRUE, !.inc = state.inc, !.from = state.from,
                      !.watermark = state.from]]
    BY DEF WithSlot
  <2>2. WithSlot(r, s, y) = [r EXCEPT !.sessions[s].slot.active = TRUE]
    BY DEF WithSlot
  <2> DEFINE ex == [r EXCEPT !.sessions[s].slot =
            [@ EXCEPT !.active = TRUE, !.inc = state.inc, !.from = state.from,
                      !.watermark = state.from]]
             ey == [r EXCEPT !.sessions[s].slot.active = TRUE]
  <2>3. \/ realm' \in {r, Clear(r, s), Retire(r, s), ey}
        \/ Succeeded(s) /\ p.op = "JOIN" /\ realm' = ex
    <3> DEFINE any == {r, Clear(r, s), Retire(r, s), ey}
    <3>1. CASE ~Current(s)
      BY <1>2, <3>1 DEF Finished, Succeeded
    <3>2. CASE Current(s) /\ p.op = "LEAVE"
      BY <1>2, <3>2 DEF Finished
    <3>3. CASE Current(s) /\ p.op # "LEAVE" /\ ~Succeeded(s)
      BY <1>2, <3>3 DEF Finished
    <3>4. CASE Succeeded(s) /\ p.op # "LEAVE"
      <4>1. Current(s)
        BY <3>4 DEF Succeeded
      <4> QED BY <1>2, <3>4, <4>1 DEF Finished
    <3>5. Succeeded(s) => Current(s)
      BY DEF Succeeded
    <3> QED BY <3>1, <3>2, <3>3, <3>4, <3>5
  <2> QED BY <2>1, <2>2, <2>3
<1> HIDE DEF r, slot
<1>7. y \in SlotType
  BY <1>4 DEF SlotType
<1>8. state \in StateType => x \in SlotType
  BY <1>4 DEF SlotType, StateType
<1>9. y # None /\ (x \in SlotType => x # None)
  BY <1>7, NoneApart
<1> HIDE DEF x, y, p, state
<1>10. Good(realm', K, log, Calls)
  <2>1. CASE realm' = r
    BY <1>4, <2>1
  <2>2. CASE realm' = Clear(r, s)
    BY <1>4, <2>2, ClearTurns DEF Turns
  <2>3. CASE realm' = Retire(r, s)
    BY <1>4, <2>3, RetireTurns DEF Turns
  <2>4. CASE realm' = WithSlot(r, s, y)
    BY <1>4, <1>7, <1>9, <2>4, SlotTurns DEF Turns
  <2>5. CASE realm' = WithSlot(r, s, x) /\ x \in SlotType
    BY <1>4, <1>9, <2>5, SlotTurns DEF Turns
  <2> QED BY <1>5, <1>6, <1>8, <2>1, <2>2, <2>3, <2>4, <2>5
<1>11. TellsTrue(told', log)
  <2>1. TellsTrue(Telling(s), log) /\ TellsTrue(told, log)
    BY <1>2, TellsWell DEF p, IInv
  <2> QED BY <1>2, <2>1 DEF TellsTrue
<1> QED BY <1>2, <1>3, <1>10, <1>11, FrameKeeps DEF K, IInv

-----------------------------------------------------------------------------
(* The thread of the Peer.                                                 *)

(* Session s is answered a. *)
Answered(p, a) == [p EXCEPT !.result = a]

FairAnswer(L, p, a) ==
    /\ a \in AnswerType
    /\ a.reply # None => /\ a.reply.op = p.op
                         /\ p.op = "SEND" => TrueReply(L, a.reply, p)

(* The Peer moves from w to v, and takes the realm from r to d; g is the   *)
(* generation that it sends.                                               *)
LEMMA RealmMoves ==
    ASSUME NEW K, NEW J, NEW L, NEW w, NEW v, NEW r, NEW d, RealmOk(r, w, K, L),
           d \in RealmType, d.sessions = r.sessions, d.deferred = r.deferred,
           d.generation = r.generation, d.opened = r.opened,
           d.calls = r.calls \/ (r.calls # <<>> /\ d.calls = Tail(r.calls)),
           v.call \notin ToSet(d.calls),
           \A s \in Sessions : Waits(d, v, s) => Waits(r, w, s) /\ d.pending[s] = r.pending[s],
           \A s \in Sessions : Unsent(d, v, s) => Unsent(r, w, s),
           \A s \in Sessions :
             \/ d.pending[s] = r.pending[s]
             \/ r.pending[s] # None /\ \E a : FairAnswer(L, r.pending[s], a)
                                             /\ d.pending[s] = Answered(r.pending[s], a),
           \A g \in J : g \in K \/ \E s \in Sessions :
             Joins(r, w, s) /\ ~Unsent(d, v, s) /\ g = Gen(r, s)
    PROVE  RealmOk(d, v, J, L)
<1>1. r.calls \in Seq(Sessions)
  BY DEF RealmOk, RealmType
<1>2. CallsOk(d, v)
  <2>1. \A i, j \in 1..Len(d.calls) : d.calls[i] = d.calls[j] => i = j
    <3>1. \A i, j \in 1..Len(r.calls) : r.calls[i] = r.calls[j] => i = j
      BY DEF RealmOk, CallsOk
    <3>2. CASE d.calls = r.calls
      BY <3>1, <3>2
    <3>3. CASE r.calls # <<>> /\ d.calls = Tail(r.calls)
      <4>1. /\ Len(Tail(r.calls)) = Len(r.calls) - 1 /\ Len(r.calls) \in Nat
            /\ \A i \in 1..Len(Tail(r.calls)) : Tail(r.calls)[i] = r.calls[i + 1]
        BY <1>1, <3>3, InTail
      <4>2. \A i \in 1..Len(d.calls) : i + 1 \in 1..Len(r.calls) /\ d.calls[i] = r.calls[i + 1]
        BY <3>3, <4>1
      <4> SUFFICES ASSUME NEW i \in 1..Len(d.calls), NEW j \in 1..Len(d.calls),
                          d.calls[i] = d.calls[j]
                   PROVE  i = j
        OBVIOUS
      <4>3. i + 1 = j + 1
        BY <3>1, <4>2
      <4> QED BY <3>3, <4>1, <4>3
    <3> QED BY <3>2, <3>3
  <2>2. \A s \in Sessions : Waits(d, v, s) =>
          d.pending[s] \in PendingType /\ d.pending[s].result = None
    BY DEF RealmOk, CallsOk
  <2> QED BY <2>1, <2>2 DEF CallsOk
<1>3. /\ \A s \in Sessions : Joins(d, v, s) => Joins(r, w, s) /\ Gen(d, s) = Gen(r, s)
      /\ \A s \in Sessions : Unsent(d, v, s) => Joins(d, v, s)
  BY DEF Joins, Gen, Unsent, Waits
<1>4. GenerationOk(d, v, J)
  <2>1. GenerationOk(r, w, K)
    BY DEF RealmOk
  <2>2. \A g \in J : g <= d.generation
    BY <2>1 DEF GenerationOk
  <2>3. ASSUME NEW s \in Sessions, Unsent(d, v, s) PROVE Gen(d, s) \notin J
    <3>1. Unsent(r, w, s) /\ Gen(d, s) = Gen(r, s)
      BY <1>3, <2>3
    <3>2. Gen(r, s) \notin J
      BY <2>1, <2>3, <3>1 DEF GenerationOk
    <3> QED BY <3>1, <3>2
  <2>4. ASSUME NEW s \in Sessions, Joins(d, v, s)
        PROVE  /\ Gen(d, s) <= d.generation
               /\ \A t \in Sessions : Unsent(d, v, t) /\ Gen(d, t) = Gen(d, s) => t = s
    BY <1>3, <2>1, <2>4 DEF GenerationOk
  <2> QED BY <2>2, <2>3, <2>4 DEF GenerationOk
<1>5. ASSUME NEW s \in Sessions, d.pending[s] # r.pending[s]
      PROVE  /\ r.pending[s] # None
             /\ d.pending[s].result.reply # None =>
                  /\ d.pending[s].result.reply.op = d.pending[s].op
                  /\ d.pending[s].op = "SEND" =>
                       TrueReply(L, d.pending[s].result.reply, d.pending[s])
  <2>1. PICK a : /\ r.pending[s] # None /\ FairAnswer(L, r.pending[s], a)
                 /\ d.pending[s] = Answered(r.pending[s], a)
    BY <1>5
  <2>2. r.pending[s] \in PendingType
    BY <2>1 DEF RealmOk, RealmType
  <2>3. /\ d.pending[s].result = a /\ d.pending[s].op = r.pending[s].op
        /\ d.pending[s].send = r.pending[s].send /\ d.pending[s].member = r.pending[s].member
    BY <2>1, <2>2 DEF Answered, PendingType
  <2> QED BY <2>1, <2>3 DEF FairAnswer, TrueReply, Noted
<1>6. SessionsOk(d)
  BY <1>5 DEF RealmOk, SessionsOk
<1>7. ResultsOk(d, L)
  BY <1>5 DEF RealmOk, ResultsOk
<1> QED BY <1>2, <1>4, <1>6, <1>7 DEF RealmOk

(* What is on its way stays well, when call p becomes x. *)
LEMMA WayMoves ==
    ASSUME NEW c, NEW L, NEW T, NEW B, NEW w \in PeerType, NEW p, WayOk(c, L, T, B, w, p),
           NEW U, NEW C, NEW v \in PeerType, NEW x,
           \/ v.nextId = w.nextId /\ (Sent(v) => Sent(w) /\ x = p)
           \/ v.nextId = w.nextId + 1,
           \A q \in Peers : \A r \in Flying(c, U, q) :
             r \in Flying(c, T, q) \/ RequestOk(c, L, v, x, q, r),
           Replied(c, C) \subseteq Replied(c, B),
           \A q \in Peers : \A r \in Flying(c, T, q) : r.id \in Nat,
           \A f \in Replied(c, B) : f.id \in Nat
    PROVE  WayOk(c, L, U, C, v, x)
<1>1. w.nextId \in Nat /\ v.nextId \in Nat
  BY DEF PeerType
<1>2. ASSUME NEW q \in Peers, NEW r \in Flying(c, T, q) PROVE RequestOk(c, L, v, x, q, r)
  <2>1. RequestOk(c, L, w, p, q, r)
    BY DEF WayOk
  <2>2. CASE v.nextId = w.nextId /\ (Sent(v) => Sent(w) /\ x = p)
    BY <2>1, <2>2 DEF RequestOk
  <2>3. CASE v.nextId = w.nextId + 1
    <3>1. r.id < w.nextId => r.id < v.nextId /\ r.id # v.nextId - 1
      BY <1>1, <2>3
    <3> QED BY <2>1, <3>1 DEF RequestOk
  <2> QED BY <2>2, <2>3
<1>3. ASSUME NEW f \in Replied(c, C) PROVE ReplyOk(c, L, v, x, f)
  <2>1. ReplyOk(c, L, w, p, f)
    BY DEF WayOk
  <2>2. CASE v.nextId = w.nextId /\ (Sent(v) => Sent(w) /\ x = p)
    BY <2>1, <2>2 DEF ReplyOk
  <2>3. CASE v.nextId = w.nextId + 1
    <3>1. f.id < w.nextId => f.id < v.nextId /\ f.id # v.nextId - 1
      BY <1>1, <2>3
    <3> QED BY <2>1, <3>1 DEF ReplyOk
  <2> QED BY <2>2, <2>3
<1> QED BY <1>2, <1>3 DEF WayOk

LEMMA AnswersApart ==
    /\ \A f \in BackType : f.kind = "reply" => f \in ReplyType
    /\ \A f \in BackType : f.kind = "push" => f \in PushType
BY DEF BackType, ReplyType, PushType, ClosedFrame

(* What is written. *)
LEMMA WritesOne ==
    ASSUME IInv, NEW q \in Peers, q <= peer.dialled, NEW f \in ThereType, f.kind # "open",
           toChat' = [toChat EXCEPT ![q] = Append(@, f)],
           NEW v, v.dialled = peer.dialled
    PROVE  /\ toChat' \in [Peers -> Seq(ThereType)]
           /\ DialOk(chat, toChat', v)
           /\ \A o \in Peers : \A r \in Flying(chat, toChat', o) :
                \/ r \in Flying(chat, toChat, o)
                \/ o = q /\ r = f /\ f.kind = "request"
<1>1. /\ toChat \in [Peers -> Seq(ThereType)] /\ DialOk(chat, toChat, peer)
      /\ peer.dialled \in Nat
  BY DEF IInv, StreamsOk, PeerOk, PeerType
<1> DEFINE t == toChat[q]
           a == Append(t, f)
<1>2. /\ t \in Seq(ThereType) /\ a \in Seq(ThereType) /\ ToSet(a) = ToSet(t) \cup {f}
      /\ Len(a) = Len(t) + 1 /\ Len(t) \in Nat
      /\ \A i \in 1..Len(t) : a[i] = t[i]
      /\ a[Len(t) + 1] = f
  <2>1. t \in Seq(ThereType)
    BY <1>1
  <2> HIDE DEF t
  <2> QED BY <2>1, InAppend, AppendProperties
<1>3. toChat'[q] = a /\ \A o \in Peers \ {q} : toChat'[o] = toChat[o]
  BY <1>1
<1>4. toChat' \in [Peers -> Seq(ThereType)]
  BY <1>1, <1>2
<1> HIDE DEF a
<1>5. DialOk(chat, toChat', v)
  <2> SUFFICES ASSUME NEW o \in Peers
               PROVE  /\ o > v.dialled => toChat'[o] = <<>> /\ chat.links[o] = None
                      /\ \A i \in 1..Len(toChat'[o]) :
                           toChat'[o][i].kind = "open" => i = 1 /\ chat.links[o] = None
    BY DEF DialOk
  <2>1. CASE o # q
    BY <1>1, <1>3, <2>1 DEF DialOk
  <2>2. CASE o = q
    <3>1. ~(o > v.dialled)
      BY <1>1, <2>2 DEF Peers
    <3>2. ASSUME NEW i \in 1..Len(a), a[i].kind = "open" PROVE i = 1 /\ chat.links[o] = None
      <4>1. i \in 1..Len(t) /\ a[i] = t[i]
        BY <1>2, <3>2
      <4> QED BY <1>1, <2>2, <3>2, <4>1 DEF DialOk
    <3> QED BY <1>3, <2>2, <3>1, <3>2
  <2> QED BY <2>1, <2>2
<1>6. ASSUME NEW o \in Peers, NEW r \in Flying(chat, toChat', o)
      PROVE  \/ r \in Flying(chat, toChat, o)
             \/ o = q /\ r = f /\ f.kind = "request"
  <2>1. CASE o # q
    BY <1>3, <1>6, <2>1 DEF Flying
  <2>2. CASE o = q
    <3>1. ToSet(toChat'[o]) = ToSet(toChat[o]) \cup {f}
      BY <1>2, <1>3, <2>2
    <3> QED BY <1>6, <2>2, <3>1 DEF Flying
  <2> QED BY <2>1, <2>2
<1> QED BY <1>4, <1>5, <1>6

LEMMA HangsUp ==
    ASSUME IInv, Hangup, NEW v, v.dialled = peer.dialled
    PROVE  /\ toChat' \in [Peers -> Seq(ThereType)]
           /\ DialOk(chat, toChat', v)
           /\ \A o \in Peers : \A r \in Flying(chat, toChat', o) : r \in Flying(chat, toChat, o)
<1>1. CASE peer.stream = None
  <2>1. toChat' = toChat
    BY <1>1 DEF Hangup
  <2> QED BY <2>1 DEF IInv, StreamsOk, DialOk
<1>2. CASE peer.stream # None
  <2>1. toChat' = [toChat EXCEPT ![peer.stream] = Append(@, ClosedFrame)]
    BY <1>2 DEF Hangup
  <2>2. peer.stream \in Peers /\ peer.stream <= peer.dialled
    BY <1>2 DEF IInv, PeerOk, PeerType
  <2>3. ClosedFrame \in ThereType /\ ClosedFrame.kind = "closed"
    BY DEF ThereType, ClosedFrame
  <2> QED BY <2>1, <2>2, <2>3, WritesOne
<1> QED BY <1>1, <1>2

(* What is read. *)
LEMMA TakesAnswer ==
    ASSUME IInv, peer.stream \in Peers, toRealm[peer.stream] # <<>>
    PROVE  /\ Head(toRealm[peer.stream]) \in BackType
           /\ Head(toRealm[peer.stream]).kind = "reply" =>
                Head(toRealm[peer.stream]) \in Replied(chat, toRealm)
           /\ Taken => /\ toRealm' \in [Peers -> Seq(BackType)]
                       /\ Replied(chat, toRealm') \subseteq Replied(chat, toRealm)
<1> DEFINE q == peer.stream
           t == toRealm[q]
           f == Head(t)
<1>1. toRealm \in [Peers -> Seq(BackType)]
  BY DEF IInv, StreamsOk
<1>2. Tail(t) \in Seq(BackType) /\ f \in BackType /\ ToSet(t) = {f} \cup ToSet(Tail(t))
  <2>1. t \in Seq(BackType)
    BY <1>1
  <2> HIDE DEF t
  <2> QED BY <2>1, InTail DEF t
<1>3. f.kind = "reply" => f \in Replied(chat, toRealm)
  BY <1>2 DEF Replied
<1>4. Taken => toRealm' \in [Peers -> Seq(BackType)]
  BY <1>1, <1>2 DEF Taken
<1>5. Taken => Replied(chat, toRealm') \subseteq Replied(chat, toRealm)
  <2> SUFFICES ASSUME Taken, NEW o \in Peers, NEW e \in ToSet(toRealm'[o])
               PROVE  e \in ToSet(toRealm[o])
    BY DEF Replied
  <2>1. toRealm'[q] = Tail(t) /\ \A x \in Peers \ {q} : toRealm'[x] = toRealm[x]
    BY <1>1 DEF Taken
  <2> QED BY <1>2, <2>1
<1> QED BY <1>2, <1>3, <1>4, <1>5

(* What a frame adds. *)
LEMMA SpokenMore ==
    ASSUME NEW U, NEW f,
           \A o \in Peers : \A r \in Flying(chat, U, o) : r \in Flying(chat, toChat, o) \/ r = f
    PROVE  \A g \in Spoken(chat, log, U) :
             \/ g \in Spoken(chat, log, toChat)
             \/ f.op = "JOIN" /\ g = f.member.gen
BY DEF Spoken

LEMMA SpokenSame ==
    ASSUME NEW U, \A o \in Peers : \A r \in Flying(chat, U, o) : r \in Flying(chat, toChat, o)
    PROVE  Spoken(chat, log, U) \subseteq Spoken(chat, log, toChat)
BY DEF Spoken

(* The realm is answered, or its first call taken. *)
LEMMA AnsweredRealm ==
    ASSUME IInv, peer.call # None, NEW v, v.call = None, v.hello = FALSE,
           NEW a, FairAnswer(log, Calls, a), NEW J, J \subseteq Spoken(chat, log, toChat)
    PROVE  RealmOk([realm EXCEPT !.pending[peer.call].result = a], v, J, log)
<1> DEFINE s == peer.call
           d == [realm EXCEPT !.pending[s].result = a]
           K == Spoken(chat, log, toChat)
<1>1. /\ RealmOk(realm, peer, K, log) /\ realm \in RealmType /\ s \in Sessions
      /\ realm.pending[s] = Calls /\ Calls \in PendingType /\ a \in AnswerType
      /\ s \notin ToSet(realm.calls) /\ realm.calls \in Seq(Sessions)
  BY CallTypes DEF IInv, RealmOk, RealmType, CallsOk, Calls, FairAnswer
<1>2. Answered(Calls, a) \in PendingType
  BY <1>1 DEF Answered, PendingType
<1>3. /\ d \in RealmType /\ d.sessions = realm.sessions /\ d.deferred = realm.deferred
      /\ d.generation = realm.generation /\ d.opened = realm.opened /\ d.calls = realm.calls
      /\ d.pending[s] = Answered(realm.pending[s], a)
      /\ \A t \in Sessions \ {s} : d.pending[t] = realm.pending[t]
  <2> DEFINE x == Answered(Calls, a)
             more == [realm.pending EXCEPT ![s] = x]
  <2>1. d = [realm EXCEPT !.pending = more]
    BY <1>1 DEF Answered, RealmType
  <2>2. /\ more \in [Sessions -> PendingType \cup {None}] /\ more[s] = x
        /\ \A t \in Sessions \ {s} : more[t] = realm.pending[t]
    <3>1. realm.pending \in [Sessions -> PendingType \cup {None}]
      BY <1>1 DEF RealmType
    <3> HIDE DEF x
    <3> QED BY <1>1, <1>2, <3>1 DEF x
  <2> HIDE DEF d, more, x
  <2>3. x = Answered(realm.pending[s], a)
    BY <1>1 DEF x
  <2> QED BY <1>1, <2>1, <2>2, <2>3 DEF RealmType
<1> HIDE DEF d, K
<1>4. \A t \in Sessions : Waits(d, v, t) => t # s /\ Waits(realm, peer, t)
  <2>1. None \notin Sessions
    BY NoneAssumption DEF Sessions
  <2> QED BY <1>1, <1>3, <2>1 DEF Waits
<1>5. \A t \in Sessions : Unsent(d, v, t) => Unsent(realm, peer, t)
  BY <1>3, <1>4 DEF Unsent, Waits
<1>6. v.call \notin ToSet(d.calls)
  <2>1. ToSet(d.calls) \subseteq Sessions
    BY <1>1, <1>3, InSeq
  <2> QED BY <2>1, NoneAssumption DEF Sessions
<1>7. \A t \in Sessions : Waits(d, v, t) =>
        Waits(realm, peer, t) /\ d.pending[t] = realm.pending[t]
  BY <1>3, <1>4
<1>8. \A t \in Sessions :
        \/ d.pending[t] = realm.pending[t]
        \/ realm.pending[t] # None /\ \E e : FairAnswer(log, realm.pending[t], e)
                                            /\ d.pending[t] = Answered(realm.pending[t], e)
  <2>1. realm.pending[s] # None
    BY <1>1, CallTypes, NoneApart
  <2> QED BY <1>1, <1>3, <2>1
<1>9. J \subseteq K
  BY DEF K
<1>10. RealmOk(d, v, J, log)
  BY <1>1, <1>3, <1>5, <1>6, <1>7, <1>8, <1>9, RealmMoves
<1> QED BY <1>10 DEF d

(* The first call of the queue.                                            *)
FirstCall == Head(realm.calls)

LEMMA FirstTypes ==
    ASSUME IInv, peer.call = None, realm.calls # <<>>
    PROVE  /\ FirstCall \in Sessions /\ realm.pending[FirstCall] \in PendingType
           /\ realm.pending[FirstCall].result = None
           /\ FirstCall \in ToSet(realm.calls) /\ FirstCall \notin ToSet(Tail(realm.calls))
           /\ Tail(realm.calls) \in Seq(Sessions)
           /\ ToSet(Tail(realm.calls)) \subseteq ToSet(realm.calls)
           /\ realm.pending[FirstCall].op = "JOIN" =>
                realm.pending[FirstCall].member.gen \notin Spoken(chat, log, toChat)
<1> DEFINE s == FirstCall
           t == realm.calls
<1>1. /\ t \in Seq(Sessions) /\ CallsOk(realm, peer)
      /\ GenerationOk(realm, peer, Spoken(chat, log, toChat))
  BY DEF IInv, RealmOk, RealmType
<1>2. /\ Tail(t) \in Seq(Sessions) /\ s = t[1] /\ s \in Sessions /\ Len(t) >= 1
      /\ Len(Tail(t)) = Len(t) - 1
      /\ \A i \in 1..Len(Tail(t)) : Tail(t)[i] = t[i + 1]
      /\ ToSet(t) = {s} \cup ToSet(Tail(t))
  BY <1>1, InTail DEF FirstCall
<1>3. \A i, j \in 1..Len(t) : t[i] = t[j] => i = j
  BY <1>1 DEF CallsOk
<1>4. s \notin ToSet(Tail(t))
  <2> SUFFICES ASSUME s \in ToSet(Tail(t)) PROVE FALSE
    OBVIOUS
  <2> DEFINE x == Tail(t)
  <2>3. x \in Seq(Sessions) /\ s \in ToSet(x)
    BY <1>2
  <2> HIDE DEF x
  <2>4. \E i \in 1..Len(x) : x[i] = s
    BY <2>3, InSeq
  <2>1. PICK i \in 1..Len(Tail(t)) : Tail(t)[i] = s
    BY <2>4 DEF x
  <2>2. Len(t) \in Nat /\ 1 \in 1..Len(t) /\ i + 1 \in 1..Len(t) /\ i + 1 # 1
    BY <1>1, <1>2, <2>1
  <2> QED BY <1>2, <1>3, <2>1, <2>2
<1>5. realm.pending[s] \in PendingType /\ realm.pending[s].result = None
  BY <1>1, <1>2 DEF CallsOk, Waits
<1>6. realm.pending[s].op = "JOIN" => realm.pending[s].member.gen \notin Spoken(chat, log, toChat)
  BY <1>1, <1>2 DEF GenerationOk, Unsent, Gen
<1> QED BY <1>2, <1>4, <1>5, <1>6

(* It fails. *)
LEMMA FailedRealm ==
    ASSUME IInv, peer.call = None, realm.calls # <<>>, NEW v, v.call = None, v.hello = FALSE,
           realm' = [realm EXCEPT !.calls = Tail(@),
              !.pending[FirstCall].result = [reply |-> None, dispatched |-> FALSE]]
    PROVE  RealmOk(realm', v, Spoken(chat, log, toChat), log)
<1> DEFINE s == FirstCall
           a == [reply |-> None, dispatched |-> FALSE]
           x == Answered(realm.pending[s], a)
           more == [realm.pending EXCEPT ![s] = x]
           t == Tail(realm.calls)
           K == Spoken(chat, log, toChat)
<1>1. /\ RealmOk(realm, peer, K, log) /\ realm \in RealmType /\ s \in Sessions
      /\ realm.pending[s] \in PendingType /\ realm.pending[s].result = None
      /\ t \in Seq(Sessions) /\ s \notin ToSet(t) /\ ToSet(t) \subseteq ToSet(realm.calls)
      /\ realm.pending \in [Sessions -> PendingType \cup {None}]
  BY FirstTypes DEF IInv, RealmOk, RealmType
<1>2. FairAnswer(log, realm.pending[s], a)
  BY DEF FairAnswer, AnswerType
<1>3. realm' = [realm EXCEPT !.calls = t, !.pending = more]
  BY <1>1 DEF Answered
<1>4. x \in PendingType
  BY <1>1, <1>2 DEF FairAnswer, Answered, PendingType
<1> HIDE DEF x
<1>5. /\ more \in [Sessions -> PendingType \cup {None}] /\ more[s] = x
      /\ \A o \in Sessions \ {s} : more[o] = realm.pending[o]
  BY <1>1, <1>4
<1> HIDE DEF more, t, K, a
<1>6. /\ realm' \in RealmType /\ realm'.sessions = realm.sessions
      /\ realm'.deferred = realm.deferred /\ realm'.generation = realm.generation
      /\ realm'.opened = realm.opened /\ realm'.calls = t /\ realm'.pending = more
  BY <1>1, <1>3, <1>5 DEF RealmType
<1>7. \A o \in Sessions : Waits(realm', v, o) =>
        o # s /\ o \in ToSet(realm.calls)
  <2>1. None \notin Sessions
    BY NoneAssumption DEF Sessions
  <2> QED BY <1>1, <1>6, <2>1 DEF Waits
<1>8. \A o \in Sessions : Waits(realm', v, o) =>
        Waits(realm, peer, o) /\ realm'.pending[o] = realm.pending[o]
  BY <1>5, <1>6, <1>7 DEF Waits
<1>9. \A o \in Sessions : Unsent(realm', v, o) => Unsent(realm, peer, o)
  BY <1>7, <1>8 DEF Unsent, Waits
<1>10. v.call \notin ToSet(realm'.calls)
  <2>1. ToSet(realm.calls) \subseteq Sessions
    BY <1>1, InSeq DEF RealmType
  <2>2. None \notin Sessions
    BY NoneAssumption DEF Sessions
  <2> QED BY <1>1, <1>6, <2>1, <2>2
<1>11. \A o \in Sessions :
        \/ realm'.pending[o] = realm.pending[o]
        \/ realm.pending[o] # None /\ \E e : FairAnswer(log, realm.pending[o], e)
                                            /\ realm'.pending[o] = Answered(realm.pending[o], e)
  <2>1. realm.pending[s] # None
    BY <1>1, NoneApart
  <2> QED BY <1>2, <1>5, <1>6, <2>1 DEF x
<1>12. realm'.calls = realm.calls \/ (realm.calls # <<>> /\ realm'.calls = Tail(realm.calls))
  BY <1>6 DEF t
<1>13. RealmOk(realm', v, K, log)
  <2> DEFINE d == realm'
  <2>1. /\ d \in RealmType /\ d.sessions = realm.sessions
        /\ d.deferred = realm.deferred /\ d.generation = realm.generation
        /\ d.opened = realm.opened
    BY <1>6
  <2>2. v.call \notin ToSet(d.calls)
    BY <1>10
  <2>3. d.calls = realm.calls \/ (realm.calls # <<>> /\ d.calls = Tail(realm.calls))
    BY <1>12
  <2>4. \A o \in Sessions : Waits(d, v, o) =>
          Waits(realm, peer, o) /\ d.pending[o] = realm.pending[o]
    BY <1>8
  <2>5. \A o \in Sessions : Unsent(d, v, o) => Unsent(realm, peer, o)
    BY <1>9
  <2>6. \A o \in Sessions :
        \/ d.pending[o] = realm.pending[o]
        \/ realm.pending[o] # None /\ \E e : FairAnswer(log, realm.pending[o], e)
                                            /\ d.pending[o] = Answered(realm.pending[o], e)
    BY <1>11
  <2> HIDE DEF d
  <2>7. \A g \in K : g \in K \/ \E o \in Sessions :
          Joins(realm, peer, o) /\ ~Unsent(d, v, o) /\ g = Gen(realm, o)
    OBVIOUS
  <2>8. RealmOk(d, v, K, log)
    BY <1>1, <2>1, <2>2, <2>3, <2>4, <2>5, <2>6, <2>7, RealmMoves
  <2> QED BY <2>8 DEF d
<1> QED BY <1>13 DEF K

(* It is made. *)
LEMMA StartedRealm ==
    ASSUME IInv, peer.call = None, realm.calls # <<>>, NEW v, v.call = FirstCall,
           realm' = [realm EXCEPT !.calls = Tail(@)],
           NEW J,
           \A g \in J : \/ g \in Spoken(chat, log, toChat)
                        \/ /\ realm.pending[FirstCall].op = "JOIN" /\ ~v.hello
                           /\ g = realm.pending[FirstCall].member.gen
    PROVE  RealmOk(realm', v, J, log) /\ realm'.pending = realm.pending
<1> DEFINE s == FirstCall
           t == Tail(realm.calls)
           K == Spoken(chat, log, toChat)
<1>1. /\ RealmOk(realm, peer, K, log) /\ realm \in RealmType /\ s \in Sessions
      /\ t \in Seq(Sessions) /\ s \notin ToSet(t) /\ ToSet(t) \subseteq ToSet(realm.calls)
      /\ s \in ToSet(realm.calls)
  BY FirstTypes DEF IInv, RealmOk
<1>2. realm' = [realm EXCEPT !.calls = t]
  OBVIOUS
<1>3. t = Tail(realm.calls)
  OBVIOUS
<1>4. \A g \in J : g \in K \/ (/\ realm.pending[s].op = "JOIN" /\ ~v.hello
                              /\ g = realm.pending[s].member.gen)
  OBVIOUS
<1> HIDE DEF t, K, s
<1>5. /\ realm' \in RealmType /\ realm'.sessions = realm.sessions
      /\ realm'.deferred = realm.deferred /\ realm'.generation = realm.generation
      /\ realm'.opened = realm.opened /\ realm'.calls = t /\ realm'.pending = realm.pending
  BY <1>1, <1>2 DEF RealmType
<1>6. v.call = s
  BY DEF s
<1>7. \A o \in Sessions : Waits(realm', v, o) => o \in ToSet(realm.calls)
  BY <1>1, <1>5, <1>6 DEF Waits
<1>8. \A o \in Sessions : Waits(realm', v, o) =>
        Waits(realm, peer, o) /\ realm'.pending[o] = realm.pending[o]
  BY <1>5, <1>7 DEF Waits
<1>9. \A o \in Sessions : Unsent(realm', v, o) => Unsent(realm, peer, o)
  BY <1>5, <1>7 DEF Unsent, Waits
<1>10. v.call \notin ToSet(realm'.calls)
  BY <1>1, <1>5, <1>6
<1>11. \A g \in J : g \in K \/ \E o \in Sessions :
          Joins(realm, peer, o) /\ ~Unsent(realm', v, o) /\ g = Gen(realm, o)
  <2> SUFFICES ASSUME NEW g \in J, g \notin K
               PROVE  Joins(realm, peer, s) /\ ~Unsent(realm', v, s) /\ g = Gen(realm, s)
    BY <1>1
  <2>1. realm.pending[s].op = "JOIN" /\ ~v.hello /\ g = realm.pending[s].member.gen
    BY <1>4
  <2> QED BY <1>1, <1>5, <1>6, <2>1 DEF Joins, Waits, Unsent, Gen
<1>12. realm'.calls = realm.calls \/ (realm.calls # <<>> /\ realm'.calls = Tail(realm.calls))
  BY <1>3, <1>5
<1>13. \A o \in Sessions :
        \/ realm'.pending[o] = realm.pending[o]
        \/ realm.pending[o] # None /\ \E e : FairAnswer(log, realm.pending[o], e)
                                            /\ realm'.pending[o] = Answered(realm.pending[o], e)
  BY <1>5
<1> DEFINE d == realm'
<1>14. /\ d \in RealmType /\ d.sessions = realm.sessions
      /\ d.deferred = realm.deferred /\ d.generation = realm.generation
      /\ d.opened = realm.opened
  BY <1>5
<1> HIDE DEF d
<1>15. RealmOk(d, v, J, log)
  <2> USE DEF d
  <2>1. RealmOk(realm, peer, K, log)
    BY <1>1
  <2> HIDE DEF d
  <2>2. v.call \notin ToSet(d.calls)
    BY <1>10 DEF d
  <2>3. d.calls = realm.calls \/ (realm.calls # <<>> /\ d.calls = Tail(realm.calls))
    BY <1>12 DEF d
  <2>4. \A o \in Sessions : Waits(d, v, o) =>
          Waits(realm, peer, o) /\ d.pending[o] = realm.pending[o]
    BY <1>8 DEF d
  <2>5. \A o \in Sessions : Unsent(d, v, o) => Unsent(realm, peer, o)
    BY <1>9 DEF d
  <2>6. \A o \in Sessions :
        \/ d.pending[o] = realm.pending[o]
        \/ realm.pending[o] # None /\ \E e : FairAnswer(log, realm.pending[o], e)
                                            /\ d.pending[o] = Answered(realm.pending[o], e)
    BY <1>13 DEF d
  <2>7. \A g \in J : g \in K \/ \E o \in Sessions :
          Joins(realm, peer, o) /\ ~Unsent(d, v, o) /\ g = Gen(realm, o)
    BY <1>11 DEF d
  <2> QED BY <1>14, <2>1, <2>2, <2>3, <2>4, <2>5, <2>6, <2>7, RealmMoves
<1> QED BY <1>5, <1>15 DEF d

(* The realm is left alone. *)
LEMMA LeftRealm ==
    ASSUME IInv, realm' = realm, NEW v,
           \/ peer.call = None /\ v.call = None
           \/ v.call = peer.call /\ (v.hello => peer.hello),
           NEW J,
           \A g \in J : \/ g \in Spoken(chat, log, toChat)
                        \/ /\ peer.call # None /\ ~v.hello /\ Calls.op = "JOIN"
                           /\ g = Calls.member.gen
    PROVE  RealmOk(realm', v, J, log)
<1> DEFINE K == Spoken(chat, log, toChat)
<1>1. /\ RealmOk(realm, peer, K, log) /\ realm \in RealmType
      /\ peer.call \notin ToSet(realm.calls) /\ None \notin Sessions
  BY NoneAssumption DEF IInv, RealmOk, CallsOk, Sessions
<1>2. v.call = peer.call
  OBVIOUS
<1>3. \A o \in Sessions : Waits(realm', v, o) =>
        Waits(realm, peer, o) /\ realm'.pending[o] = realm.pending[o]
  BY <1>2 DEF Waits
<1>4. \A o \in Sessions : Unsent(realm', v, o) => Unsent(realm, peer, o)
  BY <1>1, <1>2 DEF Unsent
<1>5. \A g \in J : g \in K \/ \E o \in Sessions :
          Joins(realm, peer, o) /\ ~Unsent(realm', v, o) /\ g = Gen(realm, o)
  <2> SUFFICES ASSUME NEW g \in J, g \notin K
               PROVE  \E o \in Sessions :
                 Joins(realm, peer, o) /\ ~Unsent(realm', v, o) /\ g = Gen(realm, o)
    OBVIOUS
  <2>1. peer.call # None /\ ~v.hello /\ Calls.op = "JOIN" /\ g = Calls.member.gen
    OBVIOUS
  <2>2. peer.call \in Sessions
    BY <2>1, CallTypes
  <2>3. Joins(realm, peer, peer.call) /\ ~Unsent(realm', v, peer.call)
        /\ g = Gen(realm, peer.call)
    BY <1>1, <1>2, <2>1, <2>2 DEF Joins, Waits, Unsent, Gen, Calls
  <2> QED BY <2>2, <2>3
<1> QED BY <1>1, <1>2, <1>3, <1>4, <1>5, RealmMoves

(* Ids are numbers. *)
LEMMA IdsNat ==
    ASSUME IInv
    PROVE  /\ \A q \in Peers : \A r \in Flying(chat, toChat, q) : r \in RequestType /\ r.id \in Nat
           /\ \A f \in Replied(chat, toRealm) : f \in ReplyType /\ f.id \in Nat
<1>1. ServiceOk(chat, log) /\ StreamsOk
  BY DEF IInv
<1>2. ASSUME NEW q \in Peers, NEW r \in Flying(chat, toChat, q)
      PROVE  r \in RequestType /\ r.id \in Nat
  <2>1. r \in RequestType
    BY <1>1, FlyingTypes
  <2> QED BY <2>1 DEF RequestType
<1>3. ASSUME NEW f \in Replied(chat, toRealm) PROVE f \in ReplyType /\ f.id \in Nat
  <2>1. f \in ReplyType
    BY <1>1, RepliedTypes
  <2> QED BY <2>1 DEF ReplyType
<1> QED BY <1>2, <1>3

(* The connection is given up. *)
LEMMA DisconnectedTypes ==
    ASSUME peer \in PeerType, NEW b \in BOOLEAN
    PROVE  LET v == [Disconnected EXCEPT !.reset = b] IN
           /\ v \in PeerType /\ v.stream = None /\ v.call = None /\ v.hello = FALSE
           /\ v.nextId = peer.nextId /\ v.dialled = peer.dialled
<1> DEFINE no == <<>>
<1>1. no \in Seq(PushType)
  OBVIOUS
<1>2. Disconnected = [peer EXCEPT !.stream = None, !.link = None, !.revision = peer.revision + 1,
                                  !.pushes = no, !.call = None, !.hello = FALSE]
  BY DEF Disconnected
<1> HIDE DEF no
<1> DEFINE w == Disconnected
           n == peer.revision + 1
<1>3. n \in Nat
  BY DEF PeerType
<1>4. w = [peer EXCEPT !.stream = None, !.link = None, !.revision = n,
                       !.pushes = no, !.call = None, !.hello = FALSE]
  BY <1>2
<1> HIDE DEF n, w
<1>5. /\ w \in PeerType /\ w.stream = None /\ w.call = None /\ w.hello = FALSE
      /\ w.nextId = peer.nextId /\ w.dialled = peer.dialled
  BY <1>1, <1>3, <1>4 DEF PeerType
<1> QED BY <1>5 DEF PeerType, w

LEMMA DisconnectKeeps ==
    ASSUME IInv, UNCHANGED <<toRealm, chat, log, binding, told>>,
           peer' = Disconnected \/ peer' = [Disconnected EXCEPT !.reset = FALSE],
           Hangup \/ UNCHANGED toChat,
           RealmOk(realm', peer', Spoken(chat, log, toChat), log)
    PROVE  IInv'
<1>1. peer \in PeerType /\ peer.reset \in BOOLEAN
  BY DEF IInv, PeerOk, PeerType
<1>2. \E b \in BOOLEAN : peer' = [Disconnected EXCEPT !.reset = b]
  <2>1. Disconnected = [Disconnected EXCEPT !.reset = peer.reset]
    BY <1>1 DEF Disconnected, PeerType
  <2> QED BY <1>1, <2>1
<1>3. /\ peer' \in PeerType /\ peer'.stream = None /\ peer'.call = None /\ peer'.hello = FALSE
      /\ peer'.nextId = peer.nextId /\ peer'.dialled = peer.dialled
  BY <1>1, <1>2, DisconnectedTypes
<1>4. /\ toChat' \in [Peers -> Seq(ThereType)] /\ DialOk(chat, toChat', peer')
      /\ \A o \in Peers : \A r \in Flying(chat, toChat', o) : r \in Flying(chat, toChat, o)
  <2>1. CASE Hangup
    BY <1>3, <2>1, HangsUp
  <2>2. CASE UNCHANGED toChat
    BY <1>3, <2>2 DEF IInv, StreamsOk, DialOk
  <2> QED BY <2>1, <2>2
<1>5. Spoken(chat, log, toChat') \subseteq Spoken(chat, log, toChat)
  BY <1>4, SpokenSame
<1>6. RealmOk(realm', peer', Spoken(chat, log, toChat'), log)
  BY <1>5, RealmLess
<1>7. ~Sent(peer')
  BY <1>3 DEF Sent
<1>8. WayOk(chat, log, toChat', toRealm', peer', Calls')
  <2>1. WayOk(chat, log, toChat, toRealm, peer, Calls)
    BY DEF IInv
  <2> DEFINE v == peer'
             x == Calls'
             U == toChat'
  <2>2. v \in PeerType /\ v.nextId = peer.nextId /\ ~Sent(v)
    BY <1>3, <1>7
  <2>3. \A q \in Peers : \A r \in Flying(chat, U, q) : r \in Flying(chat, toChat, q)
    BY <1>4
  <2> HIDE DEF v, x, U
  <2>4. WayOk(chat, log, U, toRealm, v, x)
    BY <1>1, <2>1, <2>2, <2>3, IdsNat, WayMoves
  <2> QED BY <2>4 DEF v, x, U
<1>9. PeerOk(peer', chat, log, Calls')
  BY <1>3, <1>7 DEF PeerOk
<1> QED BY <1>4, <1>6, <1>8, <1>9 DEF IInv, StreamsOk

LEMMA ResetKeeps ==
    ASSUME IInv, PeerReset
    PROVE  IInv'
<1>1. /\ peer.call = None /\ peer' = [Disconnected EXCEPT !.reset = FALSE] /\ Hangup
      /\ UNCHANGED <<realm, toRealm, chat, log, binding, told>>
  BY DEF PeerReset
<1>2. peer'.call = None
  BY <1>1, DisconnectedTypes DEF IInv, PeerOk
<1> DEFINE v == peer'
           J == Spoken(chat, log, toChat)
<1>3. v.call = None /\ \A g \in J : g \in Spoken(chat, log, toChat)
  BY <1>2
<1> HIDE DEF v, J
<1>4. RealmOk(realm', v, J, log)
  BY <1>1, <1>3, LeftRealm
<1> QED BY <1>1, <1>4, DisconnectKeeps DEF v, J

(* The call of the Peer fails with the connection. *)
LEMMA GivenUp ==
    ASSUME IInv, peer.call # None, NEW b \in BOOLEAN, Completed(peer.call, None, b),
           peer' = Disconnected, Hangup, UNCHANGED <<toRealm, chat, log, binding, told>>
    PROVE  IInv'
<1> DEFINE a == [reply |-> None, dispatched |-> b]
           v == peer'
           J == Spoken(chat, log, toChat)
<1>1. v.call = None /\ v.hello = FALSE
  BY DEF Disconnected, IInv, PeerOk, PeerType
<1>2. FairAnswer(log, Calls, a)
  BY DEF FairAnswer, AnswerType
<1>3. realm' = [realm EXCEPT !.pending[peer.call].result = a]
  BY DEF Completed
<1>4. J \subseteq Spoken(chat, log, toChat)
  OBVIOUS
<1> HIDE DEF a, v, J
<1>5. RealmOk(realm', v, J, log)
  BY <1>1, <1>2, <1>3, <1>4, AnsweredRealm
<1> QED BY <1>5, DisconnectKeeps DEF v, J

LEMMA TimeoutKeeps ==
    ASSUME IInv, PeerTimeout
    PROVE  IInv'
<1>1. /\ peer.call # None /\ Completed(peer.call, None, ~peer.hello)
      /\ peer' = Disconnected /\ Hangup /\ UNCHANGED <<toRealm, chat, log, binding, told>>
  BY DEF PeerTimeout, GiveUp
<1>2. (~peer.hello) \in BOOLEAN
  OBVIOUS
<1> QED BY <1>1, <1>2, GivenUp

LEMMA SkipKeeps ==
    ASSUME IInv, NEW late, PeerSkip(late)
    PROVE  IInv'
<1>1. /\ peer.call = None /\ realm.calls # <<>>
      /\ realm' = [realm EXCEPT !.calls = Tail(@),
              !.pending[FirstCall].result = [reply |-> None, dispatched |-> FALSE]]
      /\ UNCHANGED <<peer, toChat, toRealm, chat, log, binding, told>>
  BY DEF PeerSkip, FirstCall, others
<1>2. peer.hello = FALSE
  BY <1>1 DEF IInv, PeerOk, PeerType
<1>3. RealmOk(realm', peer, Spoken(chat, log, toChat), log)
  BY <1>1, <1>2, FailedRealm
<1>4. ~Sent(peer)
  BY <1>1 DEF Sent
<1>5. PeerOk(peer, chat, log, Calls') /\ WayOk(chat, log, toChat, toRealm, peer, Calls')
  BY <1>4 DEF IInv, PeerOk, WayOk, RequestOk, ReplyOk
<1> QED BY <1>1, <1>3, <1>5 DEF IInv, StreamsOk

(* The frame of call p on link l, with id n.                               *)
Framed(p, l, n) ==
    [kind |-> "request", id |-> n, op |-> p.op, link |-> l, member |-> p.member,
     send |-> p.send]

LEMMA FramedTypes ==
    ASSUME NEW p \in PendingType, NEW l \in LinkType, NEW n \in Nat
    PROVE  /\ Framed(p, l, n) \in ThereType
           /\ Framed(p, l, n).kind = "request" /\ Framed(p, l, n).id = n
           /\ Framed(p, l, n).op = p.op /\ Framed(p, l, n).link = l
           /\ Framed(p, l, n).member = p.member /\ Framed(p, l, n).send = p.send
           /\ p.op # "HELLO"
<1>1. /\ p.op \in {"JOIN", "LEAVE", "SEND", "STATE"} /\ p.member \in MemberType
      /\ p.send \in SendType \cup {None} /\ (p.op = "SEND" => p.send \in SendType)
  BY DEF PendingType
<1>2. Framed(p, l, n) \in RequestType
  BY <1>1 DEF Framed, RequestType
<1> QED BY <1>1, <1>2 DEF Framed, ThereType

(* The Peer sends its call, for the first time or again. *)
LEMMA SpeakKeeps ==
    ASSUME IInv, UNCHANGED <<chat, log, binding, told>>,
           NEW v \in PeerType, NEW p \in PendingType, NEW n \in Nat, peer' = v, Calls' = p,
           v.stream \in Peers, v.stream = peer.stream, v.dialled = peer.dialled,
           v.call # None, v.hello = FALSE, Issued(chat, v.link),
           n = v.nextId - 1,
           \/ v.nextId = peer.nextId /\ Sent(peer) /\ p = Calls
           \/ v.nextId = peer.nextId + 1,
           p.op = "JOIN" => Spent(chat, log, v.stream, v.link, p.member.gen),
           Write(v.stream, Framed(p, v.link, n)), toRealm' = toRealm \/ Taken,
           toRealm' = toRealm \/ toRealm[peer.stream] # <<>>,
           \A J : (\A g \in J : g \in Spoken(chat, log, toChat)
                                  \/ (p.op = "JOIN" /\ g = p.member.gen))
                    => RealmOk(realm', v, J, log)
    PROVE  IInv'
<1> DEFINE f == Framed(p, v.link, n)
           q == v.stream
<1>1. /\ f \in ThereType /\ f.kind = "request" /\ f.id = n /\ f.op = p.op /\ f.link = v.link
      /\ f.member = p.member /\ f.send = p.send /\ p.op # "HELLO"
  BY FramedTypes DEF Issued
<1>2. /\ peer \in PeerType /\ q <= peer.dialled /\ WayOk(chat, log, toChat, toRealm, peer, Calls)
      /\ q # None /\ q \in Peers /\ peer.stream = q
  BY NoneAssumption DEF IInv, PeerOk, Peers
<1>3. v.nextId \in Nat /\ n < v.nextId
  BY DEF PeerType
<1>4. toChat' = [toChat EXCEPT ![q] = Append(@, f)]
  BY DEF Write
<1> HIDE DEF f
<1>5. /\ toChat' \in [Peers -> Seq(ThereType)] /\ DialOk(chat, toChat', v)
      /\ \A o \in Peers : \A r \in Flying(chat, toChat', o) :
           r \in Flying(chat, toChat, o) \/ (o = q /\ r = f)
  <2>1. f.kind # "open"
    BY <1>1
  <2>2. q <= peer.dialled /\ q \in Peers /\ f \in ThereType /\ v.dialled = peer.dialled
    BY <1>1, <1>2
  <2> HIDE DEF q
  <2>3. /\ toChat' \in [Peers -> Seq(ThereType)] /\ DialOk(chat, toChat', v)
        /\ \A o \in Peers : \A r \in Flying(chat, toChat', o) :
             \/ r \in Flying(chat, toChat, o)
             \/ o = q /\ r = f /\ f.kind = "request"
    BY <1>4, <2>1, <2>2, WritesOne
  <2> QED BY <2>3
<1>6. RequestOk(chat, log, v, p, q, f)
  BY <1>1, <1>3 DEF RequestOk
<1>7. \A o \in Peers : \A r \in Flying(chat, toChat', o) :
        r \in Flying(chat, toChat, o) \/ RequestOk(chat, log, v, p, o, r)
  BY <1>5, <1>6
<1>8. toRealm' \in [Peers -> Seq(BackType)] /\ Replied(chat, toRealm') \subseteq Replied(chat, toRealm)
  <2>1. CASE toRealm' = toRealm
    BY <2>1 DEF IInv, StreamsOk
  <2>2. CASE Taken /\ toRealm[peer.stream] # <<>>
    BY <2>2, TakesAnswer
  <2> QED BY <2>1, <2>2
<1>9. v.nextId = peer.nextId => Sent(peer) /\ p = Calls
  BY <1>2 DEF PeerType
<1>10. WayOk(chat, log, toChat', toRealm', v, p)
  <2> DEFINE U == toChat'
             C == toRealm'
  <2>1. \A o \in Peers : \A r \in Flying(chat, U, o) :
          r \in Flying(chat, toChat, o) \/ RequestOk(chat, log, v, p, o, r)
    BY <1>7
  <2>2. Replied(chat, C) \subseteq Replied(chat, toRealm)
    BY <1>8
  <2> HIDE DEF U, C
  <2>3. \/ v.nextId = peer.nextId /\ (Sent(v) => Sent(peer) /\ p = Calls)
        \/ v.nextId = peer.nextId + 1
    BY <1>9
  <2>4. WayOk(chat, log, U, C, v, p)
    BY <1>2, <2>1, <2>2, <2>3, IdsNat, WayMoves
  <2> QED BY <2>4 DEF U, C
<1>11. PeerOk(v, chat, log, p)
  BY <1>2 DEF PeerOk, Sent
<1>12. RealmOk(realm', v, Spoken(chat, log, toChat'), log)
  <2> DEFINE U == toChat'
             J == Spoken(chat, log, U)
  <2>1. \A o \in Peers : \A r \in Flying(chat, U, o) : r \in Flying(chat, toChat, o) \/ r = f
    BY <1>5
  <2> HIDE DEF U
  <2>2. \A g \in J : \/ g \in Spoken(chat, log, toChat)
                     \/ f.op = "JOIN" /\ g = f.member.gen
    BY <2>1, SpokenMore
  <2>3. \A g \in J : \/ g \in Spoken(chat, log, toChat)
                     \/ p.op = "JOIN" /\ g = p.member.gen
    BY <1>1, <2>2
  <2> HIDE DEF J
  <2>4. RealmOk(realm', v, J, log)
    BY <2>3
  <2> QED BY <2>4 DEF J, U
<1> QED BY <1>5, <1>8, <1>10, <1>11, <1>12 DEF IInv, StreamsOk

LEMMA RetryKeeps ==
    ASSUME IInv, PeerRetry
    PROVE  IInv'
<1> DEFINE p == Calls
           n == peer.nextId - 1
           v == [peer EXCEPT !.retried = TRUE]
<1>1. /\ peer \in PeerType /\ peer.call # None /\ ~peer.retried /\ peer' = v
      /\ UNCHANGED <<realm, toRealm, chat, log, binding, told>>
  BY DEF PeerRetry, IInv, PeerOk
<1>2. Write(peer.stream, Framed(p, peer.link, n))
  BY DEF PeerRetry, Frame, Framed, Calls
<1>3. /\ peer.hello = FALSE /\ Sent(peer) /\ Issued(chat, peer.link)
      /\ peer.stream \in Peers /\ p \in PendingType
      /\ p.op = "JOIN" => Spent(chat, log, peer.stream, peer.link, p.member.gen)
  BY <1>1, CallTypes DEF IInv, PeerOk, Sent, PeerType
<1>4. /\ v \in PeerType /\ v.stream = peer.stream /\ v.link = peer.link /\ v.call = peer.call
      /\ v.hello = FALSE /\ v.nextId = peer.nextId /\ v.dialled = peer.dialled
  BY <1>1, <1>3 DEF PeerType
<1> HIDE DEF v
<1>5. n \in Nat /\ n = v.nextId - 1
  BY <1>1, <1>4 DEF PeerType
<1>6. Calls' = p
  BY <1>1, <1>4 DEF Calls
<1>7. \A J : (\A g \in J : g \in Spoken(chat, log, toChat) \/ (p.op = "JOIN" /\ g = p.member.gen))
               => RealmOk(realm', v, J, log)
  BY <1>1, <1>3, <1>4, LeftRealm
<1>8. /\ v.nextId = peer.nextId /\ Sent(peer) /\ p = Calls /\ v.call # None /\ peer' = v
      /\ Issued(chat, v.link) /\ v.stream \in Peers /\ toRealm' = toRealm
      /\ p.op = "JOIN" => Spent(chat, log, v.stream, v.link, p.member.gen)
      /\ Write(v.stream, Framed(p, v.link, n)) /\ p \in PendingType
      /\ UNCHANGED <<chat, log, binding, told>>
  BY <1>1, <1>2, <1>3, <1>4
<1> HIDE DEF p, n
<1> QED BY <1>4, <1>5, <1>6, <1>7, <1>8, SpeakKeeps

(* A call on the connection there is. *)
LEMMA CallOnKeeps ==
    ASSUME IInv, peer.call = None, realm.calls # <<>>, peer.stream # None,
           UNCHANGED <<toRealm, chat, log, binding, told>>,
           Write(peer.stream, Framed(realm.pending[FirstCall], peer.link, peer.nextId)),
           peer' = [peer EXCEPT !.call = FirstCall, !.nextId = @ + 1, !.retried = FALSE],
           realm' = [realm EXCEPT !.calls = Tail(@)]
    PROVE  IInv'
<1> DEFINE s == FirstCall
           p == realm.pending[s]
           n == peer.nextId
           m == n + 1
           v == [peer EXCEPT !.call = s, !.nextId = m, !.retried = FALSE]
<1>1. /\ peer \in PeerType /\ peer.stream \in Peers /\ peer.hello = FALSE
      /\ Issued(chat, peer.link) /\ n \in Nat /\ m \in Nat \ {0} /\ n = m - 1
  BY DEF IInv, PeerOk, PeerType
<1>2. /\ s \in Sessions /\ p \in PendingType
      /\ p.op = "JOIN" => p.member.gen \notin Spoken(chat, log, toChat)
  BY FirstTypes
<1>3. /\ peer' = v /\ Write(peer.stream, Framed(p, peer.link, n)) /\ m = peer.nextId + 1
  OBVIOUS
<1> HIDE DEF s, p, n, m
<1>4. /\ v \in PeerType /\ v.stream = peer.stream /\ v.link = peer.link /\ v.call = s
      /\ v.hello = FALSE /\ v.nextId = m /\ v.dialled = peer.dialled
  BY <1>1, <1>2 DEF PeerType
<1> HIDE DEF v
<1>5. \A J : (\A g \in J : g \in Spoken(chat, log, toChat) \/ (p.op = "JOIN" /\ g = p.member.gen))
               => RealmOk(realm', v, J, log) /\ realm'.pending = realm.pending
  <2> SUFFICES ASSUME NEW J,
                 \A g \in J : g \in Spoken(chat, log, toChat) \/ (p.op = "JOIN" /\ g = p.member.gen)
               PROVE  RealmOk(realm', v, J, log) /\ realm'.pending = realm.pending
    OBVIOUS
  <2>1. v.call = FirstCall /\ ~v.hello
    BY <1>4 DEF s
  <2>2. \A g \in J : \/ g \in Spoken(chat, log, toChat)
                     \/ /\ realm.pending[FirstCall].op = "JOIN" /\ ~v.hello
                        /\ g = realm.pending[FirstCall].member.gen
    BY <2>1 DEF s, p
  <2> QED BY <2>1, <2>2, StartedRealm
<1>6. Calls' = p
  <2>1. realm'.pending = realm.pending
    <3> DEFINE J == {}
    <3>1. \A g \in J : g \in Spoken(chat, log, toChat) \/ (p.op = "JOIN" /\ g = p.member.gen)
      OBVIOUS
    <3> HIDE DEF J
    <3> QED BY <1>5, <3>1
  <2> QED BY <1>3, <1>4, <2>1 DEF Calls, s, p
<1>7. p.op = "JOIN" => Spent(chat, log, v.stream, v.link, p.member.gen)
  BY <1>2 DEF Spent, Spoken
<1>8. /\ v.nextId = peer.nextId + 1 /\ v.call # None /\ peer' = v /\ n = v.nextId - 1 /\ n \in Nat
      /\ Issued(chat, v.link) /\ v.stream \in Peers /\ toRealm' = toRealm
      /\ Write(v.stream, Framed(p, v.link, n)) /\ p \in PendingType
      /\ UNCHANGED <<chat, log, binding, told>>
  <2>1. s # None
    BY <1>2, NoneAssumption DEF Sessions
  <2> QED BY <1>1, <1>2, <1>3, <1>4, <2>1
<1> QED BY <1>4, <1>5, <1>6, <1>7, <1>8, SpeakKeeps

LEMMA PutAt ==
    ASSUME NEW U \in [Peers -> Seq(ThereType)], NEW q \in Peers, NEW t \in Seq(ThereType)
    PROVE  LET V == [U EXCEPT ![q] = t] IN
           /\ V \in [Peers -> Seq(ThereType)] /\ V[q] = t
           /\ \A x \in Peers \ {q} : V[x] = U[x]
OBVIOUS

(* A call on a new connection. *)
LEMMA DialKeeps ==
    ASSUME IInv, peer.call = None, realm.calls # <<>>, peer.stream = None,
           UNCHANGED <<toRealm, chat, log, binding, told>>,
           NEW q \in Peers, q = peer.dialled + 1,
           toChat' = [toChat EXCEPT ![q] = <<[kind |-> "open"], Frame("HELLO", None, None)>>],
           peer' = [peer EXCEPT !.call = FirstCall, !.hello = TRUE, !.retried = TRUE,
                                !.stream = q, !.dialled = q, !.nextId = @ + 1],
           realm' = [realm EXCEPT !.calls = Tail(@)]
    PROVE  IInv'
<1> DEFINE s == FirstCall
           m == peer.nextId + 1
           v == [peer EXCEPT !.call = s, !.hello = TRUE, !.retried = TRUE,
                             !.stream = q, !.dialled = q, !.nextId = m]
           f == Frame("HELLO", None, None)
           o == [kind |-> "open"]
           t == <<o, f>>
           K == Spoken(chat, log, toChat)
<1>1. /\ peer \in PeerType /\ peer.nextId \in Nat /\ m \in Nat \ {0} /\ peer.nextId < m
      /\ peer.link \in LinkType \cup {None} /\ peer.dialled \in Nat /\ q \in Nat
      /\ toChat \in [Peers -> Seq(ThereType)] /\ DialOk(chat, toChat, peer)
      /\ WayOk(chat, log, toChat, toRealm, peer, Calls) /\ toRealm \in [Peers -> Seq(BackType)]
      /\ binding \in [Sessions -> Nat] /\ TellsTrue(told, log) /\ ServiceOk(chat, log)
  BY DEF IInv, StreamsOk, PeerOk, PeerType, Peers
<1>2. s \in Sessions /\ s # None /\ q # None
  BY FirstTypes, NoneAssumption DEF Sessions, Peers
<1>3. /\ peer' = v /\ toChat' = [toChat EXCEPT ![q] = t]
  OBVIOUS
<1>4. /\ f \in ThereType /\ f.kind = "request" /\ f.op = "HELLO" /\ f.id = peer.nextId
      /\ o \in ThereType /\ o.kind = "open"
  <2>1. /\ f = [kind |-> "request", id |-> peer.nextId, op |-> "HELLO", link |-> peer.link,
                member |-> None, send |-> None]
    BY DEF Frame
  <2>2. f \in RequestType
    BY <1>1, <2>1 DEF RequestType
  <2> QED BY <2>1, <2>2 DEF ThereType
<1>5. t \in Seq(ThereType) /\ ToSet(t) = {o, f} /\ Len(t) = 2 /\ t[1] = o /\ t[2] = f
  <2> HIDE DEF o, f
  <2>1. t \in Seq(ThereType) /\ Len(t) = 2 /\ t[1] = o /\ t[2] = f
    BY <1>4
  <2>2. ToSet(t) = {o, f}
    BY <2>1 DEF ToSet
  <2> QED BY <2>1, <2>2
<1>6. toChat[q] = <<>> /\ chat.links[q] = None
  <2>1. q > peer.dialled
    BY <1>1
  <2> QED BY <1>1, <2>1 DEF DialOk
<1> HIDE DEF f, o, t, s, m
<1>7. /\ v \in PeerType /\ v.call = s /\ v.hello = TRUE /\ v.retried = TRUE /\ v.stream = q
      /\ v.dialled = q /\ v.nextId = m
  BY <1>1, <1>2 DEF PeerType
<1> HIDE DEF v, K
<1>8. /\ toChat' \in [Peers -> Seq(ThereType)] /\ toChat'[q] = t
      /\ \A x \in Peers \ {q} : toChat'[x] = toChat[x]
  <2> DEFINE V == [toChat EXCEPT ![q] = t]
  <2>1. toChat' = V
    BY <1>3
  <2>2. toChat \in [Peers -> Seq(ThereType)] /\ t \in Seq(ThereType)
    BY <1>1, <1>5
  <2>3. /\ V \in [Peers -> Seq(ThereType)] /\ V[q] = t
        /\ \A x \in Peers \ {q} : V[x] = toChat[x]
    BY <2>2, PutAt
  <2> HIDE DEF V
  <2> QED BY <2>1, <2>3
<1>9. DialOk(chat, toChat', v)
  <2> SUFFICES ASSUME NEW x \in Peers
               PROVE  /\ x > v.dialled => toChat'[x] = <<>> /\ chat.links[x] = None
                      /\ \A i \in 1..Len(toChat'[x]) :
                           toChat'[x][i].kind = "open" => i = 1 /\ chat.links[x] = None
    BY DEF DialOk
  <2>1. CASE x # q
    <3>1. x > v.dialled => x > peer.dialled
      BY <1>1, <1>7 DEF Peers
    <3> QED BY <1>1, <1>8, <2>1, <3>1 DEF DialOk
  <2>2. CASE x = q
    <3>1. ~(x > v.dialled)
      BY <1>1, <1>7, <2>2
    <3>2. ASSUME NEW i \in 1..Len(t), t[i].kind = "open" PROVE i = 1
      BY <1>4, <1>5, <3>2
    <3> QED BY <1>6, <1>8, <2>2, <3>1, <3>2
  <2> QED BY <2>1, <2>2
<1>10. \A x \in Peers : \A r \in Flying(chat, toChat', x) :
         r \in Flying(chat, toChat, x) \/ r = f
  <2> SUFFICES ASSUME NEW x \in Peers, NEW r \in Flying(chat, toChat', x)
               PROVE  r \in Flying(chat, toChat, x) \/ r = f
    OBVIOUS
  <2>1. CASE x # q
    BY <1>8, <2>1 DEF Flying
  <2>2. CASE x = q
    BY <1>4, <1>5, <1>6, <1>8, <2>2 DEF Flying
  <2> QED BY <2>1, <2>2
<1>11. ~Sent(v)
  BY <1>7 DEF Sent
<1>12. \A x \in Peers : RequestOk(chat, log, v, Calls', x, f)
  BY <1>1, <1>4, <1>7, <1>11 DEF RequestOk, m
<1>13. WayOk(chat, log, toChat', toRealm', v, Calls')
  <2> DEFINE U == toChat'
             y == Calls'
  <2>1. \A x \in Peers : \A r \in Flying(chat, U, x) :
          r \in Flying(chat, toChat, x) \/ RequestOk(chat, log, v, y, x, r)
    BY <1>10, <1>12
  <2>2. v.nextId = peer.nextId + 1
    BY <1>7 DEF m
  <2> HIDE DEF U, y
  <2>4. WayOk(chat, log, U, toRealm, v, y)
    BY <1>1, <1>7, <2>1, <2>2, IdsNat, WayMoves
  <2> QED BY <2>4 DEF U, y
<1>14. PeerOk(v, chat, log, Calls')
  <2>1. v.stream <= v.dialled
    BY <1>1, <1>7
  <2> QED BY <1>2, <1>7, <1>11, <2>1 DEF PeerOk
<1>15. RealmOk(realm', v, Spoken(chat, log, toChat'), log)
  <2> DEFINE U == toChat'
             J == Spoken(chat, log, U)
  <2>1. \A x \in Peers : \A r \in Flying(chat, U, x) : r \in Flying(chat, toChat, x) \/ r = f
    BY <1>10
  <2> HIDE DEF U
  <2>2. \A g \in J : \/ g \in Spoken(chat, log, toChat)
                     \/ f.op = "JOIN" /\ g = f.member.gen
    BY <2>1, SpokenMore
  <2>3. \A g \in J : g \in Spoken(chat, log, toChat)
    BY <1>4, <2>2
  <2> HIDE DEF J
  <2>4. RealmOk(realm', v, J, log)
    BY <1>7, <2>3, StartedRealm DEF s
  <2> QED BY <2>4 DEF J, U
<1> QED BY <1>1, <1>3, <1>8, <1>9, <1>13, <1>14, <1>15 DEF IInv, StreamsOk

LEMMA CallKeeps ==
    ASSUME IInv, NEW dials, PeerCall(dials)
    PROVE  IInv'
<1> DEFINE s == FirstCall
           p == realm.pending[s]
           rest == [realm EXCEPT !.calls = Tail(@)]
           failed == [rest EXCEPT !.pending[s].result = [reply |-> None, dispatched |-> FALSE]]
           q == peer.dialled + 1
<1>1. peer.call = None /\ realm.calls # <<>> /\ UNCHANGED <<toRealm, chat, log, binding, told>>
  BY DEF PeerCall
<1>2. \/ /\ peer.stream # None
         /\ Write(peer.stream, Frame(p.op, p.member, p.send))
         /\ peer' = [peer EXCEPT !.call = s, !.nextId = @ + 1, !.retried = FALSE]
         /\ realm' = rest
      \/ /\ peer.stream = None /\ q \in Peers
         /\ toChat' = [toChat EXCEPT ![q] = <<[kind |-> "open"], Frame("HELLO", None, None)>>]
         /\ peer' = [peer EXCEPT !.call = s, !.hello = TRUE, !.retried = TRUE,
                                 !.stream = q, !.dialled = q, !.nextId = @ + 1]
         /\ realm' = rest
      \/ realm' = failed /\ peer' = Disconnected /\ UNCHANGED toChat
  BY DEF PeerCall, FirstCall
<1>3. CASE /\ peer.stream # None
           /\ Write(peer.stream, Frame(p.op, p.member, p.send))
           /\ peer' = [peer EXCEPT !.call = s, !.nextId = @ + 1, !.retried = FALSE]
           /\ realm' = rest
  <2>1. Frame(p.op, p.member, p.send) = Framed(p, peer.link, peer.nextId)
    BY DEF Frame, Framed
  <2> QED BY <1>1, <1>3, <2>1, CallOnKeeps
<1>4. CASE /\ peer.stream = None /\ q \in Peers
           /\ toChat' = [toChat EXCEPT ![q] = <<[kind |-> "open"], Frame("HELLO", None, None)>>]
           /\ peer' = [peer EXCEPT !.call = s, !.hello = TRUE, !.retried = TRUE,
                                   !.stream = q, !.dialled = q, !.nextId = @ + 1]
           /\ realm' = rest
  BY <1>1, <1>4, DialKeeps
<1>5. CASE realm' = failed /\ peer' = Disconnected /\ UNCHANGED toChat
  <2> DEFINE v == peer'
             J == Spoken(chat, log, toChat)
  <2>1. v.call = None /\ v.hello = FALSE
    BY <1>5 DEF Disconnected, IInv, PeerOk, PeerType
  <2>2. realm' = [realm EXCEPT !.calls = Tail(@),
              !.pending[FirstCall].result = [reply |-> None, dispatched |-> FALSE]]
    BY <1>5 DEF IInv, RealmOk, RealmType
  <2> HIDE DEF v
  <2>3. RealmOk(realm', v, J, log)
    BY <1>1, <2>1, <2>2, FailedRealm
  <2> QED BY <1>1, <1>5, <2>3, DisconnectKeeps DEF v
<1> QED BY <1>2, <1>3, <1>4, <1>5

(* Something is read that changes no call. *)
LEMMA ReadKeeps ==
    ASSUME IInv, peer.stream \in Peers, toRealm[peer.stream] # <<>>, Taken,
           SamePeer(peer, peer'), UNCHANGED <<realm, toChat, chat, log, binding, told>>
    PROVE  IInv'
<1>1. /\ toRealm' \in [Peers -> Seq(BackType)]
      /\ Replied(chat, toRealm') \subseteq Replied(chat, toRealm)
  BY TakesAnswer
<1>2. Calls' = Calls
  BY DEF SamePeer, Calls
<1>3. PeerOk(peer, chat, log, Calls) /\ WayOk(chat, log, toChat, toRealm, peer, Calls)
      /\ DialOk(chat, toChat, peer)
  BY DEF IInv, StreamsOk
<1>4. PeerOk(peer', chat, log, Calls) /\ WayOk(chat, log, toChat, toRealm, peer', Calls)
      /\ DialOk(chat, toChat, peer')
  BY <1>3, SameCall
<1>5. WayOk(chat, log, toChat, toRealm', peer', Calls)
  BY <1>1, <1>4 DEF WayOk
<1> DEFINE K == Spoken(chat, log, toChat)
<1>6. RealmOk(realm, peer', K, log)
  <2>1. RealmOk(realm, peer, K, log)
    BY DEF IInv
  <2> HIDE DEF K
  <2> QED BY <2>1 DEF RealmOk, CallsOk, GenerationOk, Waits, Unsent, Joins, SamePeer
<1> QED BY <1>1, <1>2, <1>4, <1>5, <1>6 DEF IInv, StreamsOk

LEMMA PushKeeps ==
    ASSUME IInv, peer.stream \in Peers, toRealm[peer.stream] # <<>>, Taken,
           Head(toRealm[peer.stream]).kind = "push", peer' = Pushed(Head(toRealm[peer.stream])),
           UNCHANGED <<realm, toChat, chat, log, binding, told>>
    PROVE  IInv'
<1> DEFINE f == Head(toRealm[peer.stream])
           pushes == Append(peer.pushes, f)
<1>1. f \in PushType
  BY TakesAnswer, AnswersApart
<1>2. peer \in PeerType
  BY DEF IInv, PeerOk
<1>3. peer' = [peer EXCEPT !.pushes = pushes]
  BY DEF Pushed
<1> HIDE DEF f
<1>4. pushes \in Seq(PushType)
  BY <1>1, <1>2 DEF PeerType
<1> HIDE DEF pushes
<1>5. SamePeer(peer, peer')
  BY <1>2, <1>3, <1>4 DEF SamePeer, PeerType
<1> QED BY <1>5, ReadKeeps

(* The link is there, and the call that waited for it is made. *)
Greets(f) ==
    /\ Write(peer.stream, [Frame(Calls.op, Calls.member, Calls.send) EXCEPT !.link = f.link])
    /\ peer' = [peer EXCEPT !.link = f.link, !.hello = FALSE, !.retried = FALSE,
                            !.nextId = @ + 1]

LEMMA GreetedKeeps ==
    ASSUME IInv, peer.call # None, peer.hello, toRealm[peer.stream] # <<>>, Taken,
           NEW f, f = Head(toRealm[peer.stream]), f.kind = "reply", f.op = "HELLO",
           f.status = "OK", Greets(f),
           UNCHANGED <<realm, chat, log, binding, told>>
    PROVE  IInv'
<1> DEFINE p == Calls
           l == f.link
           n == peer.nextId
           m == n + 1
           v == [peer EXCEPT !.link = l, !.hello = FALSE, !.retried = FALSE, !.nextId = m]
           K == Spoken(chat, log, toChat)
<1>1. /\ peer \in PeerType /\ peer.stream \in Peers /\ p \in PendingType
      /\ peer.call \in Sessions /\ n \in Nat /\ m \in Nat \ {0} /\ n = m - 1 /\ m = peer.nextId + 1
  BY CallTypes DEF IInv, PeerOk, PeerType
<1>2. Issued(chat, l) /\ l \in LinkType
  <2>1. f \in Replied(chat, toRealm)
    BY <1>1, TakesAnswer
  <2>2. ReplyOk(chat, log, peer, p, f)
    BY <2>1 DEF IInv, WayOk
  <2> QED BY <2>2 DEF ReplyOk, Issued
<1>3. Write(peer.stream, Framed(p, l, n)) /\ peer' = v
  BY DEF Frame, Framed, Greets
<1>4. p.op = "JOIN" => p.member.gen \notin K
  <2>1. GenerationOk(realm, peer, K)
    BY DEF IInv, RealmOk
  <2> QED BY <1>1, <2>1 DEF GenerationOk, Unsent, Gen, Calls
<1> HIDE DEF l, n, m
<1>5. /\ v \in PeerType /\ v.stream = peer.stream /\ v.link = l /\ v.call = peer.call
      /\ v.hello = FALSE /\ v.nextId = m /\ v.dialled = peer.dialled
  BY <1>1, <1>2 DEF PeerType
<1> HIDE DEF v, K
<1>6. Calls' = p
  BY <1>3, <1>5 DEF Calls
<1>7. \A J : (\A g \in J : g \in Spoken(chat, log, toChat) \/ (p.op = "JOIN" /\ g = p.member.gen))
               => RealmOk(realm', v, J, log)
  BY <1>5, LeftRealm
<1>8. p.op = "JOIN" => Spent(chat, log, v.stream, v.link, p.member.gen)
  BY <1>4 DEF Spent, Spoken, K
<1> HIDE DEF p
<1>9. /\ v.nextId = peer.nextId + 1 /\ v.call # None /\ peer' = v /\ n = v.nextId - 1 /\ n \in Nat
      /\ Issued(chat, v.link) /\ v.stream \in Peers /\ toRealm[peer.stream] # <<>>
      /\ Write(v.stream, Framed(p, v.link, n)) /\ p \in PendingType
      /\ UNCHANGED <<chat, log, binding, told>>
      /\ \/ v.nextId = peer.nextId /\ Sent(peer) /\ p = Calls
         \/ v.nextId = peer.nextId + 1
      /\ (toRealm' = toRealm \/ Taken) /\ (toRealm' = toRealm \/ toRealm[peer.stream] # <<>>)
  BY <1>1, <1>2, <1>3, <1>5
<1> QED BY <1>5, <1>6, <1>7, <1>8, <1>9, SpeakKeeps

(* The call has its reply. *)
LEMMA RepliedKeeps ==
    ASSUME IInv, peer.call # None, ~peer.hello, toRealm[peer.stream] # <<>>, Taken,
           NEW f, f = Head(toRealm[peer.stream]), f.kind = "reply", f.op = Calls.op,
           f.id = peer.nextId - 1, Completed(peer.call, f, TRUE),
           peer' = [peer EXCEPT !.call = None],
           UNCHANGED <<toChat, chat, log, binding, told>>
    PROVE  IInv'
<1> DEFINE a == [reply |-> f, dispatched |-> TRUE]
           v == [peer EXCEPT !.call = None]
           J == Spoken(chat, log, toChat)
<1>1. /\ peer \in PeerType /\ peer.stream \in Peers /\ peer.hello = FALSE
      /\ WayOk(chat, log, toChat, toRealm, peer, Calls) /\ PeerOk(peer, chat, log, Calls)
      /\ DialOk(chat, toChat, peer)
  BY CallTypes DEF IInv, PeerOk, PeerType, StreamsOk
<1>2. f \in Replied(chat, toRealm) /\ f \in ReplyType
  <2>1. f \in Replied(chat, toRealm)
    BY <1>1, TakesAnswer
  <2> QED BY <2>1, IdsNat
<1>3. FairAnswer(log, Calls, a)
  <2>1. ReplyOk(chat, log, peer, Calls, f)
    BY <1>1, <1>2 DEF WayOk
  <2>2. Calls.op = "SEND" => TrueReply(log, f, Calls)
    BY <2>1 DEF ReplyOk, Sent
  <2> QED BY <1>2, <2>2 DEF FairAnswer, AnswerType
<1>4. realm' = [realm EXCEPT !.pending[peer.call].result = a]
  BY DEF Completed
<1>5. /\ v \in PeerType /\ v.stream = peer.stream /\ v.link = peer.link /\ v.call = None
      /\ v.hello = FALSE /\ v.nextId = peer.nextId /\ v.dialled = peer.dialled
  BY <1>1 DEF PeerType
<1>6. peer' = v /\ J \subseteq Spoken(chat, log, toChat)
  OBVIOUS
<1> HIDE DEF a, v, J
<1>7. RealmOk(realm', v, J, log)
  BY <1>3, <1>4, <1>5, <1>6, AnsweredRealm
<1>8. ~Sent(v)
  BY <1>5 DEF Sent
<1>9. PeerOk(v, chat, log, Calls')
  BY <1>1, <1>5, <1>8 DEF PeerOk
<1>10. DialOk(chat, toChat, v)
  BY <1>1, <1>5 DEF DialOk
<1>11. /\ toRealm' \in [Peers -> Seq(BackType)]
       /\ Replied(chat, toRealm') \subseteq Replied(chat, toRealm)
  BY <1>1, TakesAnswer
<1>12. WayOk(chat, log, toChat, toRealm', v, Calls')
  BY <1>1, <1>5, <1>8, <1>11 DEF WayOk, RequestOk, ReplyOk
<1> QED BY <1>6, <1>7, <1>9, <1>10, <1>11, <1>12 DEF IInv, StreamsOk, J

LEMMA ReceiveKeeps ==
    ASSUME IInv, PeerReceive
    PROVE  IInv'
<1> DEFINE f == Head(toRealm[peer.stream])
           op == IF peer.hello THEN "HELLO" ELSE Calls.op
           old == f.kind = "reply" /\ f.id < peer.nextId - 1 /\ f.link = peer.link
           answer == /\ f.kind = "reply" /\ ~old /\ f.id = peer.nextId - 1 /\ f.op = op
                     /\ (~peer.hello => f.link = peer.link)
                     /\ (f.status = "OK" /\ ~peer.hello => f.member = Calls.member)
<1>1. /\ peer.call # None /\ toRealm[peer.stream] # <<>>
      /\ UNCHANGED <<chat, log, binding, told, faults>>
  BY DEF PeerReceive
<1>2. \/ /\ f.kind = "push" /\ Taken /\ peer' = Pushed(f) /\ UNCHANGED <<realm, toChat>>
      \/ Taken /\ UNCHANGED <<peer, realm, toChat>>
      \/ /\ answer /\ peer.hello /\ f.status = "OK" /\ Taken
         /\ Write(peer.stream, [Frame(Calls.op, Calls.member, Calls.send) EXCEPT !.link = f.link])
         /\ peer' = [peer EXCEPT !.link = f.link, !.hello = FALSE, !.retried = FALSE,
                                 !.nextId = @ + 1]
         /\ UNCHANGED realm
      \/ /\ answer /\ ~peer.hello /\ Taken /\ Completed(peer.call, f, TRUE)
         /\ peer' = [peer EXCEPT !.call = None] /\ UNCHANGED toChat
      \/ /\ Completed(peer.call, None, ~peer.hello)
         /\ peer' = Disconnected /\ Hangup /\ UNCHANGED toRealm
  BY DEF PeerReceive, Calls
<1>3. peer.stream \in Peers /\ peer \in PeerType
  BY <1>1, CallTypes DEF IInv, PeerOk
<1>4. CASE f.kind = "push" /\ Taken /\ peer' = Pushed(f) /\ UNCHANGED <<realm, toChat>>
  BY <1>1, <1>3, <1>4, PushKeeps
<1>5. CASE Taken /\ UNCHANGED <<peer, realm, toChat>>
  <2>1. SamePeer(peer, peer')
    BY <1>3, <1>5 DEF SamePeer
  <2> QED BY <1>1, <1>3, <1>5, <2>1, ReadKeeps
<1>6. CASE /\ answer /\ peer.hello /\ f.status = "OK" /\ Taken
           /\ Write(peer.stream, [Frame(Calls.op, Calls.member, Calls.send) EXCEPT !.link = f.link])
           /\ peer' = [peer EXCEPT !.link = f.link, !.hello = FALSE, !.retried = FALSE,
                                   !.nextId = @ + 1]
           /\ UNCHANGED realm
  BY <1>1, <1>6, GreetedKeeps DEF Greets
<1>7. CASE /\ answer /\ ~peer.hello /\ Taken /\ Completed(peer.call, f, TRUE)
           /\ peer' = [peer EXCEPT !.call = None] /\ UNCHANGED toChat
  BY <1>1, <1>7, RepliedKeeps
<1>8. CASE /\ Completed(peer.call, None, ~peer.hello)
           /\ peer' = Disconnected /\ Hangup /\ UNCHANGED toRealm
  BY <1>1, <1>8, GivenUp
<1> HIDE DEF answer
<1> QED BY <1>2, <1>4, <1>5, <1>6, <1>7, <1>8

LEMMA IdleKeeps ==
    ASSUME IInv, PeerIdle
    PROVE  IInv'
<1> DEFINE f == Head(toRealm[peer.stream])
<1>1. /\ peer.call = None /\ peer.stream # None /\ toRealm[peer.stream] # <<>>
      /\ UNCHANGED <<realm, chat, log, binding, told>>
  BY DEF PeerIdle
<1>2. \/ f.kind = "push" /\ Taken /\ peer' = Pushed(f) /\ UNCHANGED toChat
      \/ Taken /\ UNCHANGED <<peer, toChat>>
      \/ peer' = Disconnected /\ Hangup /\ UNCHANGED toRealm
  BY DEF PeerIdle
<1>3. peer.stream \in Peers /\ peer \in PeerType
  BY <1>1 DEF IInv, PeerOk, PeerType
<1>4. CASE f.kind = "push" /\ Taken /\ peer' = Pushed(f) /\ UNCHANGED toChat
  BY <1>1, <1>3, <1>4, PushKeeps
<1>5. CASE Taken /\ UNCHANGED <<peer, toChat>>
  <2>1. SamePeer(peer, peer')
    BY <1>3, <1>5 DEF SamePeer
  <2> QED BY <1>1, <1>3, <1>5, <2>1, ReadKeeps
<1>6. CASE peer' = Disconnected /\ Hangup /\ UNCHANGED toRealm
  <2> DEFINE v == peer'
             J == Spoken(chat, log, toChat)
  <2>1. peer.call = None /\ v.call = None
    BY <1>1, <1>3, <1>6 DEF Disconnected, PeerType
  <2>2. \A g \in J : g \in Spoken(chat, log, toChat)
    OBVIOUS
  <2> HIDE DEF v, J
  <2>3. RealmOk(realm', v, J, log)
    BY <1>1, <2>1, <2>2, LeftRealm
  <2> QED BY <1>1, <1>6, <2>3, DisconnectKeeps DEF v, J
<1> QED BY <1>2, <1>4, <1>5, <1>6

LEMMA RebindKeeps ==
    ASSUME IInv, NEW s \in Sessions, Rebind(s)
    PROVE  IInv'
<1>1. /\ UNCHANGED <<realm, peer, toChat, toRealm, chat, log, told>>
      /\ binding' = [binding EXCEPT ![s] = IF @ = 0 THEN 2 ELSE 0]
  BY DEF Rebind, others
<1>2. binding' \in [Sessions -> Nat]
  BY <1>1 DEF IInv
<1>3. SamePeer(peer, peer')
  BY <1>1 DEF SamePeer, IInv, PeerOk
<1>4. Good(realm', Spoken(chat, log, toChat), log, Calls)
  BY <1>1, HasRealm
<1> QED BY <1>1, <1>2, <1>3, <1>4, FrameKeeps DEF IInv

-----------------------------------------------------------------------------
(* The whole.                                                              *)
LEMMA ServiceStarts ==
    ASSUME Init
    PROVE  ServiceOk(chat, log) /\ Installed(chat, log) = {} /\ chat \in ChatType
           /\ chat.replies = <<>> /\ \A q \in Peers : chat.links[q] = None
<1> DEFINE no == <<>>
           links == [q \in Peers |-> None]
           c == [inc |-> 1, links |-> links, linkGen |-> 0, members |-> {}, sequence |-> 0,
                 replies |-> no, pushes |-> no, replaced |-> {}, helloDue |-> {},
                 phase |-> "events"]
<1>1. chat = c /\ log = {}
  BY DEF Init, InitService, NewService
<1>2. /\ links \in [Peers -> EndType \cup {None}] /\ no \in Seq(QueuedReply)
      /\ no \in Seq(QueuedPush) /\ no = <<>> /\ \A q \in Peers : links[q] = None
  OBVIOUS
<1> HIDE DEF no, links
<1>3. /\ chat \in ChatType /\ chat.members = {} /\ chat.replies = <<>>
      /\ \A q \in Peers : chat.links[q] = None
  BY <1>1, <1>2 DEF ChatType
<1>4. IsFiniteSet(chat.members)
  BY <1>3, FS_EmptySet
<1>5. ServiceOk(chat, log)
  BY <1>1, <1>3, <1>4 DEF ServiceOk, LinksOk, Served, OneEach, LogOnce
<1>6. Installed(chat, log) = {}
  BY <1>1, <1>3 DEF Installed
<1> QED BY <1>3, <1>5, <1>6

LEMMA RealmStarts ==
    ASSUME Init
    PROVE  /\ realm \in RealmType /\ realm.calls = <<>> /\ realm.generation = 0
           /\ \A s \in Sessions : realm.sessions[s] = None /\ realm.deferred[s] = None
                                    /\ realm.pending[s] = None
           /\ peer \in PeerType /\ peer.call = None /\ peer.stream = None /\ peer.hello = FALSE
<1> DEFINE no == <<>>
           none == [s \in Sessions |-> None]
<1>1. /\ realm = [sessions |-> none, deferred |-> none, pending |-> none, calls |-> no,
                  generation |-> 0, revision |-> 0, frame |-> "events", requests |-> 0,
                  opened |-> 0]
      /\ peer = [stream |-> None, link |-> None, revision |-> 0, reset |-> FALSE,
                 call |-> None, hello |-> FALSE, retried |-> FALSE, nextId |-> 1,
                 dialled |-> 0, pushes |-> no]
  BY DEF Init, InitRealm, NewPeer
<1>2. /\ none \in [Sessions -> SessionType \cup {None}]
      /\ none \in [Sessions -> Characters \cup {None}]
      /\ none \in [Sessions -> PendingType \cup {None}]
      /\ \A s \in Sessions : none[s] = None
      /\ no = <<>> /\ no \in Seq(Sessions) /\ no \in Seq(PushType)
  OBVIOUS
<1> HIDE DEF no, none
<1> QED BY <1>1, <1>2 DEF RealmType, PeerType

LEMMA InitHolds ==
    ASSUME Init
    PROVE  IInv
<1>1. /\ ServiceOk(chat, log) /\ Installed(chat, log) = {} /\ chat.replies = <<>>
      /\ \A q \in Peers : chat.links[q] = None
  BY ServiceStarts
<1>2. /\ realm \in RealmType /\ realm.calls = <<>> /\ realm.generation = 0
      /\ \A s \in Sessions : realm.sessions[s] = None /\ realm.deferred[s] = None
                               /\ realm.pending[s] = None
      /\ peer \in PeerType /\ peer.call = None /\ peer.stream = None /\ peer.hello = FALSE
  BY RealmStarts
<1>3. /\ toChat = [q \in Peers |-> <<>>] /\ toRealm = [q \in Peers |-> <<>>]
      /\ binding \in [Sessions -> {1}] /\ told = {}
  BY DEF Init, InitService
<1>4. /\ \A q \in Peers : toChat[q] = <<>> /\ toRealm[q] = <<>>
      /\ toChat \in [Peers -> Seq(ThereType)] /\ toRealm \in [Peers -> Seq(BackType)]
  BY <1>3
<1>5. StreamsOk
  BY <1>1, <1>4 DEF StreamsOk, DialOk
<1>6. \A q \in Peers : Flying(chat, toChat, q) = {}
  BY <1>1, <1>4, InEmpty DEF Flying
<1>7. Replied(chat, toRealm) = {}
  BY <1>1, <1>4, InEmpty DEF Replied
<1>8. Spoken(chat, log, toChat) = {}
  BY <1>1, <1>6 DEF Spoken
<1> DEFINE K == Spoken(chat, log, toChat)
<1>9. RealmOk(realm, peer, K, log)
  <2>1. \A s \in Sessions : ~Waits(realm, peer, s)
    BY <1>2, InEmpty, NoneAssumption DEF Waits, Sessions
  <2>2. CallsOk(realm, peer)
    BY <1>2, <2>1, InEmpty DEF CallsOk
  <2>3. GenerationOk(realm, peer, K)
    BY <1>8, <2>1, UnsentJoins DEF GenerationOk, Joins
  <2>4. SessionsOk(realm) /\ ResultsOk(realm, log)
    BY <1>2 DEF SessionsOk, ResultsOk
  <2> QED BY <1>2, <2>2, <2>3, <2>4 DEF RealmOk
<1>10. PeerOk(peer, chat, log, Calls)
  BY <1>2 DEF PeerOk, Sent
<1>11. WayOk(chat, log, toChat, toRealm, peer, Calls)
  BY <1>6, <1>7 DEF WayOk
<1>12. binding \in [Sessions -> Nat] /\ TellsTrue(told, log)
  BY <1>3 DEF TellsTrue
<1> QED BY <1>1, <1>5, <1>9, <1>10, <1>11, <1>12 DEF IInv

LEMMA FrameStepKeeps ==
    ASSUME IInv, FrameStep
    PROVE  IInv'
<1>1. ASSUME NEW s \in Sessions, NEW c \in Characters, Select(s, c) PROVE IInv'
  BY <1>1, SelectKeeps
<1>2. ASSUME NEW s \in Sessions, Close(s) PROVE IInv'
  BY <1>2, CloseKeeps
<1>3. ASSUME NEW s \in Sessions, CompleteFinish(s) PROVE IInv'
  BY <1>3, FinishKeeps
<1>4. ASSUME NEW s \in Sessions, Request(s, "STATE", None) PROVE IInv'
  BY <1>4, RequestKeeps
<1>5. ASSUME NEW s \in Sessions, NEW q \in 1..(realm.requests + 1), NEW x \in Texts,
             NEW i \in 1..(MaxFaults + 1),
             Request(s, "SEND", [seq |-> q, text |-> x, inc |-> i])
      PROVE  IInv'
  <2> DEFINE send == [seq |-> q, text |-> x, inc |-> i]
  <2>1. send \in SendType
    BY DEF SendType
  <2> HIDE DEF send
  <2>2. Request(s, "SEND", send)
    BY <1>5 DEF send
  <2> QED BY <2>1, <2>2, RequestKeeps
<1>6. CASE CompleteStart
  BY <1>6, StartKeeps
<1>7. CASE CompleteEnd
  BY <1>7, EndKeeps
<1> QED BY <1>1, <1>2, <1>3, <1>4, <1>5, <1>6, <1>7 DEF FrameStep

LEMMA ServiceStepKeeps ==
    ASSUME IInv, ServiceStep \/ ServiceFault, UNCHANGED realmSide
    PROVE  IInv'
<1>1. ServiceHas
  BY HasService
<1>2. ASSUME NEW p \in Peers, ServiceEvent(p) PROVE ServiceMoves
  BY <1>1, <1>2, EventMoves
<1>3. ASSUME NEW p \in Peers, NEW expired \in BOOLEAN, NEW limited \in BOOLEAN,
             RunRound(p, expired, limited)
      PROVE  ServiceMoves
  BY <1>1, <1>3, RoundMoves
<1>4. ASSUME NEW p \in Peers, ServiceDrops(p) PROVE ServiceMoves
  BY <1>1, <1>4, DropsMoves
<1>5. CASE ServiceSend
  BY <1>1, <1>5, SendMoves, ServiceKeeps
<1>6. CASE ServiceCrash
  BY <1>1, <1>6, CrashMoves, ServiceKeeps
<1>7. CASE \E p \in Peers : ServiceEvent(p) \/ RunRound(p, FALSE, FALSE)
  BY <1>2, <1>3, <1>7, ServiceKeeps
<1>8. CASE \E p \in Peers :
             ServiceDrops(p) \/ RunRound(p, TRUE, FALSE) \/ RunRound(p, FALSE, TRUE)
  BY <1>3, <1>4, <1>8, ServiceKeeps
<1> QED BY <1>5, <1>6, <1>7, <1>8 DEF ServiceStep, ServiceFault

LEMMA StutterKeeps ==
    ASSUME IInv, UNCHANGED vars
    PROVE  IInv'
<1>1. UNCHANGED <<chat, toChat, toRealm, log, realm, peer, binding, told>>
  BY DEF vars, realmSide
<1>2. Calls' = Calls
  BY <1>1 DEF Calls
<1> QED BY <1>1, <1>2 DEF IInv, StreamsOk

LEMMA NextKeeps ==
    ASSUME IInv, Next
    PROVE  IInv'
<1>1. CASE FrameStep
  BY <1>1, FrameStepKeeps
<1>2. CASE PeerStep
  BY <1>2, ResetKeeps, ReceiveKeeps, IdleKeeps DEF PeerStep
<1>3. CASE PeerSkip(FALSE) \/ PeerCall(TRUE)
  BY <1>3, SkipKeeps, CallKeeps
<1>4. CASE (ServiceStep \/ ServiceFault) /\ UNCHANGED realmSide
  BY <1>4, ServiceStepKeeps
<1>5. CASE RealmFault
  BY <1>5, TimeoutKeeps, RetryKeeps, SkipKeeps, CallKeeps, RebindKeeps DEF RealmFault
<1> QED BY <1>1, <1>2, <1>3, <1>4, <1>5 DEF Next

-----------------------------------------------------------------------------
(* The realm, its Peer and the chat service stay well formed, and agree on *)
(* what was sent: every frame under way is of a link that was issued, and  *)
(* no membership takes effect twice on it.                                 *)
THEOREM Invariant == Spec => []IInv
<1>1. IInv /\ [Next]_vars => IInv'
  BY NextKeeps, StutterKeeps
<1> QED BY InitHolds, <1>1, PTL DEF Spec

(* A send is accepted at most once, however often its frame was sent, the  *)
(* connection closed or the service restarted, and whoever was told        *)
(* ACCEPTED holds the receipt of the own message.                          *)
THEOREM SendsOnce == Spec => []AcceptedOnce
<1>1. IInv => AcceptedOnce
  BY DEF IInv, ServiceOk, LogOnce, TellsTrue, AcceptedOnce
<1> QED BY Invariant, <1>1, PTL
=============================================================================
