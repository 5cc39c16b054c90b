---------------------------- MODULE LoginPathProofs ----------------------------
(***************************************************************************)
(* The two services a client passes on its way to a gateway, which share   *)
(* no state: the account check and the queue.                              *)
(*                                                                         *)
(* LoginVerify: answers of the HTTP server reach the client that asked, in *)
(* order, for any clients and scripts of requests, any number of           *)
(* descriptors and connections and any limits on input and output.  The    *)
(* inductive invariant looks at a client's flow: the answers it has read,  *)
(* those the kernel holds and those of its connection's output. The flow   *)
(* is in order, and as long as the requests that were parsed, less the one *)
(* that is waited for. A token that is waited for leads to the connection  *)
(* that waits for it, because close_connection takes the token with the    *)
(* connection and a token is never given out twice.                        *)
(*                                                                         *)
(* QueueScheduler: numbers, releases and restarts, for every number of     *)
(* identities, every window, leeway and budget, and unbounded time.        *)
(***************************************************************************)
EXTENDS LoginVerify, QueueScheduler, FiniteSetTheorems, SequenceTheorems,
        WellFoundedInduction, TLAPS

-----------------------------------------------------------------------------
(* LoginVerify.                                                            *)

(* Types: a connection, a client and an answer, as far as the proof needs them. *)
Answers == [to : Clients, n : Nat, status : {"200", "503", "400", "431"}]

Keeps == BOOLEAN \cup {Script[c][n].keep : c \in Clients, n \in Nat}

Connection ==
    [client : Clients \cup {None}, handshake_complete : BOOLEAN,
     read : Int, input : Int, next : Nat \ {0}, body : BOOLEAN,
     awaiting : Nat, awaiting_keep : Keeps,
     close_after_flush : BOOLEAN, peer_closed : BOOLEAN,
     registered : BOOLEAN, reads : BOOLEAN, writes : BOOLEAN,
     output : Seq(Answers)]

Ends == {"no", "refused", "broken", "handshake", "overflow", "expired", "done"}

Client ==
    [stage : {"away", "dialing", "linked", "closed"}, sent : Int, fin : BOOLEAN, rst : BOOLEAN,
     wire : Seq(Answers), got : Seq(Answers), ended : Ends]

Asked == [client : Clients, n : Nat]

(* Nothing but refusals follows a refusal. *)
Final(s) == \A i, j \in 1..Len(s) : i < j /\ Refusal(s[i]) => Refusal(s[j])

Good(s, c) == InOrder(s, c) /\ Final(s)

(* What a client has, is about to get, and its connection still has to send. *)
Flow(cl, cn) == cl.got \o cl.wire \o cn.output

(* A connection has answered the requests it has parsed, all but the one it *)
(* waits for, or it has refused; and it waits for an answer to its own.     *)
Served(cn, cl, ask) ==
    LET s == Flow(cl, cn) IN
    /\ Good(s, cn.client)
    /\ Refused(s) => cn.close_after_flush
    /\ cn.close_after_flush => cn.awaiting = None
    /\ cn.awaiting # None =>
         /\ cn.awaiting \in 1..Len(ask)
         /\ ask[cn.awaiting] = [client |-> cn.client, n |-> cn.next - 1]
    /\ Refused(s) \/ Len(s) = IF cn.awaiting = None THEN cn.next - 1 ELSE cn.next - 2

TypeInv ==
    /\ client \in [Clients -> Client]
    /\ connections \in [Descriptors -> Connection]
    /\ awaiting \subseteq [token : Nat \ {0}, handle : Descriptors]
    /\ asked \in Seq(Asked)
    /\ next_token = Len(asked) + 1
    /\ loop.at \in {"parse", "flush"} => loop.handle \in Open

(* The inductive invariant: connections and clients belong together, and a *)
(* token that is waited for is the one of the connection it leads to.      *)
Inv ==
    /\ TypeInv
    /\ \A h \in Open : Served(connections[h], client[connections[h].client], asked)
    /\ \A h \in Open : client[connections[h].client].stage = "linked"
    /\ \A g, h \in Open : connections[g].client = connections[h].client => g = h
    /\ \A h \in Descriptors : connections[h].client = None => connections[h].awaiting = None
    /\ \A a \in awaiting : connections[a.handle].awaiting = a.token
    /\ \A c \in Clients :
         /\ Good(client[c].got \o client[c].wire, c)
         /\ client[c].stage \in {"away", "dialing"} => client[c].got = <<>> /\ client[c].wire = <<>>
         /\ Len(client[c].wire) <= SockRoom

-----------------------------------------------------------------------------
(* Sequences of answers. *)

(* The first part of one in order is in order. *)
LEMMA GoodPart ==
    ASSUME NEW c, NEW s \in Seq(Answers), NEW t \in Seq(Answers), Good(s \o t, c)
    PROVE  Good(s, c)
<1>1. /\ Len(s) \in Nat /\ Len(t) \in Nat /\ Len(s \o t) = Len(s) + Len(t)
      /\ \A i \in 1..Len(s) : (s \o t)[i] = s[i]
  BY ConcatProperties, LenProperties
<1> DEFINE u == s \o t
<1>2. /\ Len(s) <= Len(u) /\ Len(u) \in Nat /\ \A i \in 1..Len(s) : u[i] = s[i] /\ i \in 1..Len(u)
  BY <1>1
<1>3. Good(u, c)
  OBVIOUS
<1> HIDE DEF u
<1>4. InOrder(s, c)
  BY <1>1, <1>2, <1>3 DEF Good, InOrder
<1>5. Final(s)
  BY <1>1, <1>2, <1>3 DEF Good, Final
<1> QED BY <1>4, <1>5 DEF Good

(* An answer more. *)
LEMMA GoodMore ==
    ASSUME NEW c, NEW s \in Seq(Answers), NEW a \in Answers, Good(s, c), a.to = c,
           \/ ~Refused(s) /\ a.n = Len(s) + 1
           \/ Refused(s) /\ Refusal(a)
    PROVE  /\ Append(s, a) \in Seq(Answers) /\ Len(Append(s, a)) = Len(s) + 1
           /\ Good(Append(s, a), c)
           /\ Refused(Append(s, a)) <=> Refused(s) \/ Refusal(a)
<1> DEFINE u == Append(s, a)
<1>1. /\ u \in Seq(Answers) /\ Len(u) = Len(s) + 1 /\ Len(s) \in Nat
      /\ \A i \in 1..Len(s) : u[i] = s[i] /\ i \in 1..Len(u)
      /\ u[Len(s) + 1] = a
      /\ \A i \in 1..Len(u) : i \in 1..Len(s) \/ i = Len(s) + 1
  BY AppendProperties, LenProperties
<1> HIDE DEF u
<1>2. Refused(u) <=> Refused(s) \/ Refusal(a)
  BY <1>1 DEF Refused
<1>3. InOrder(u, c)
  <2> SUFFICES ASSUME NEW i \in 1..Len(u)
               PROVE  /\ u[i].to = c
                      /\ \/ u[i].n = i
                         \/ Refusal(u[i]) /\ \E j \in 1..(i - 1) : Refusal(u[j])
    BY DEF InOrder
  <2>1. CASE i \in 1..Len(s)
    <3>1. u[i] = s[i] /\ \A j \in 1..(i - 1) : j \in 1..Len(s) /\ u[j] = s[j]
      BY <1>1, <2>1
    <3> QED BY <2>1, <3>1 DEF Good, InOrder
  <2>2. CASE i = Len(s) + 1
    <3>1. u[i] = a /\ 1..(i - 1) = 1..Len(s)
      BY <1>1, <2>2
    <3> QED BY <1>1, <2>2, <3>1 DEF Refused
  <2> QED BY <1>1, <2>1, <2>2
<1>4. Final(u)
  <2> SUFFICES ASSUME NEW i \in 1..Len(u), NEW j \in 1..Len(u), i < j, Refusal(u[i])
               PROVE  Refusal(u[j])
    BY DEF Final
  <2>1. i \in 1..Len(s) /\ u[i] = s[i]
    BY <1>1
  <2>2. CASE j \in 1..Len(s)
    BY <1>1, <2>1, <2>2 DEF Good, Final
  <2>3. CASE j = Len(s) + 1
    BY <1>1, <2>1, <2>3 DEF Refused
  <2> QED BY <1>1, <2>2, <2>3
<1> QED BY <1>1, <1>2, <1>3, <1>4 DEF Good, u

(* Concatenation. *)
LEMMA Assoc ==
    ASSUME NEW s \in Seq(Answers), NEW t \in Seq(Answers), NEW u \in Seq(Answers)
    PROVE  /\ (s \o t) \o u = s \o (t \o u)
           /\ s \o t \in Seq(Answers) /\ Len(s \o t) = Len(s) + Len(t)
<1>1. (s \o t) \o u = s \o (t \o u)
  BY ConcatAssociative
<1>2. s \o t \in Seq(Answers) /\ Len(s \o t) = Len(s) + Len(t)
  BY ConcatProperties
<1> QED BY <1>1, <1>2

(* The client reads an answer, *)
LEMMA FlowRead ==
    ASSUME NEW g \in Seq(Answers), NEW w \in Seq(Answers), NEW o \in Seq(Answers), w # <<>>
    PROVE  /\ Append(g, Head(w)) \in Seq(Answers) /\ Tail(w) \in Seq(Answers)
           /\ Len(Tail(w)) = Len(w) - 1
           /\ Append(g, Head(w)) \o Tail(w) = g \o w
<1>1. /\ Head(w) \in Answers /\ Tail(w) \in Seq(Answers) /\ Len(Tail(w)) = Len(w) - 1
      /\ Append(g, Head(w)) \in Seq(Answers)
  BY HeadTailProperties, AppendProperties
<1>2. Append(g, Head(w)) = g \o <<Head(w)>>
  BY <1>1, AppendIsConcat
<1>3. w = <<Head(w)>> \o Tail(w)
  BY <1>1
<1>4. <<Head(w)>> \in Seq(Answers)
  BY <1>1, SMTT(30)
<1>5. (g \o <<Head(w)>>) \o Tail(w) = g \o (<<Head(w)>> \o Tail(w))
  <2> DEFINE h == <<Head(w)>>
             t == Tail(w)
  <2>1. h \in Seq(Answers) /\ t \in Seq(Answers)
    BY <1>1, <1>4
  <2> HIDE DEF h, t
  <2>2. (g \o h) \o t = g \o (h \o t)
    BY <2>1, Assoc, SMTT(40)
  <2> QED BY <2>2 DEF h, t
<1> QED BY <1>1, <1>2, <1>3, <1>5

SendIs(g, w, o, n, full, left) ==
    /\ full \in Seq(Answers) /\ left \in Seq(Answers) /\ Len(full) = Len(w) + n
    /\ (g \o full) \o left = (g \o w) \o o

(* the connection sends n of its answers: w becomes full, and left is left, *)
LEMMA FlowSend ==
    ASSUME NEW g \in Seq(Answers), NEW w \in Seq(Answers), NEW o \in Seq(Answers), NEW n \in 0..Len(o)
    PROVE  SendIs(g, w, o, n, w \o SubSeq(o, 1, n), SubSeq(o, n + 1, Len(o)))
<1> DEFINE a == SubSeq(o, 1, n)
           b == SubSeq(o, n + 1, Len(o))
<1>1. Len(o) \in Nat /\ n \in Nat /\ n <= Len(o) /\ \A i \in 1..Len(o) : o[i] \in Answers
  BY LenProperties, ElementOfSeq
<1>2. a \in Seq(Answers) /\ Len(a) = n
  BY <1>1, SubSeqProperties
<1>3. b \in Seq(Answers) /\ Len(b) = Len(o) - n
  BY <1>1, SubSeqProperties
<1>4. a \o b = o
  <2>1. a \o b = SubSeq(o, 1, Len(o))
    <3>1. 1 \in 1..Len(o) + 1 /\ n \in (1 - 1)..Len(o) /\ Len(o) \in n..Len(o)
      BY <1>1
    <3> QED BY <3>1, ConcatAdjacentSubSeq
  <2> QED BY <2>1, SubSeqFull
<1> HIDE DEF a, b
<1>5. PICK x \in Seq(Answers), y \in Seq(Answers) : x = a /\ y = b
  BY <1>2, <1>3
<1>6. /\ w \o x \in Seq(Answers) /\ Len(w \o x) = Len(w) + Len(x)
      /\ (g \o (w \o x)) \o y = (g \o w) \o (x \o y)
  <2>1. w \o x \in Seq(Answers) /\ Len(w \o x) = Len(w) + Len(x)
    BY Assoc
  <2> DEFINE p == g \o w
  <2>2. p \in Seq(Answers)
    BY Assoc
  <2>3. g \o (w \o x) = p \o x
    BY Assoc, SMTT(40)
  <2> HIDE DEF p
  <2>4. (p \o x) \o y = p \o (x \o y)
    BY <2>2, Assoc, SMTT(40)
  <2> QED BY <2>1, <2>3, <2>4 DEF p
<1>7. x \o y = o /\ Len(x) = n /\ Len(y) = Len(o) - n
  BY <1>2, <1>3, <1>4, <1>5
<1> QED BY <1>5, <1>6, <1>7 DEF a, b, SendIs

(* and gets one more to send. *)
LEMMA FlowMore ==
    ASSUME NEW s \in Seq(Answers), NEW o \in Seq(Answers), NEW a \in Answers
    PROVE  /\ Append(o, a) \in Seq(Answers)
           /\ s \o Append(o, a) = Append(s \o o, a)
<1>1. Append(o, a) = o \o <<a>> /\ <<a>> \in Seq(Answers) /\ Append(o, a) \in Seq(Answers)
  BY AppendIsConcat, AppendProperties
<1>2. s \o o \in Seq(Answers)
  BY ConcatProperties
<1>3. Append(s \o o, a) = (s \o o) \o <<a>>
  BY <1>2, AppendIsConcat
<1> QED BY <1>1, <1>3, Assoc

-----------------------------------------------------------------------------
(* One connection changes, or goes. *)

(* More has been asked. *)
Later(ask, new) == Len(ask) <= Len(new) /\ \A t \in 1..Len(ask) : new[t] = ask[t]

(* and what is right of a connection stays right. *)
LEMMA ServedLater ==
    ASSUME NEW cn, NEW cl, NEW ask \in Seq(Asked), NEW new \in Seq(Asked),
           Later(ask, new), Served(cn, cl, ask)
    PROVE  Served(cn, cl, new)
<1>1. Len(ask) \in Nat /\ Len(new) \in Nat
  BY LenProperties
<1>2. cn.awaiting # None => /\ cn.awaiting \in 1..Len(new)
                            /\ new[cn.awaiting] = [client |-> cn.client, n |-> cn.next - 1]
  BY <1>1 DEF Served, Later
<1> QED BY <1>2 DEF Served

(* A connection that is accepted, *)
LEMMA NewIsConnection ==
    ASSUME NEW c \in Clients \cup {None}
    PROVE  NewConnection(c) \in Connection
<1>1. <<>> \in Seq(Answers) /\ TRUE \in Keeps
  BY EmptySeq DEF Keeps
<1>2. 0 \in Int /\ 1 \in Nat \ {0} /\ None \in Nat
  BY DEF None
<1> QED BY <1>1, <1>2, Zenon DEF NewConnection, Connection

(* and none. *)
LEMMA FreeIsConnection == Free \in Connection /\ Free.client = None /\ Free.awaiting = None
<1> DEFINE cn == NewConnection(None)
<1>1. cn \in Connection /\ cn.client = None /\ cn.awaiting = None
  BY NewIsConnection DEF NewConnection
<1>2. Free = [cn EXCEPT !.registered = FALSE]
  BY DEF Free
<1> HIDE DEF cn
<1> QED BY <1>1, <1>2 DEF Connection

(* The client and the connection h become cl and cn. *)
LEMMA ReplaceKeeps ==
    ASSUME Inv, NEW h \in Open, NEW cn \in Connection, NEW cl \in Client,
           cn.client = connections[h].client, cl.stage = "linked", Len(cl.wire) <= SockRoom,
           Served(cn, cl, asked'),
           asked' \in Seq(Asked), next_token' = Len(asked') + 1, Later(asked, asked'),
           connections' = [connections EXCEPT ![h] = cn],
           client' = [client EXCEPT ![cn.client] = cl],
           awaiting' \subseteq [token : Nat \ {0}, handle : Descriptors],
           \A a \in awaiting' : IF a.handle = h THEN a.token = cn.awaiting ELSE a \in awaiting,
           loop'.at \in {"parse", "flush"} => loop'.handle = h
    PROVE  Inv'
<1>0. /\ TypeInv /\ h \in Descriptors /\ cn.client # None /\ cn.client \in Clients
      /\ asked \in Seq(Asked)
  BY DEF Inv, TypeInv, Open, Connection
<1>1. /\ connections'[h] = cn
      /\ \A g \in Descriptors : g # h => connections'[g] = connections[g]
      /\ connections' \in [Descriptors -> Connection]
  BY <1>0 DEF TypeInv
<1>2. /\ client'[cn.client] = cl
      /\ \A c \in Clients : c # cn.client => client'[c] = client[c]
      /\ client' \in [Clients -> Client]
  BY <1>0 DEF TypeInv
<1>3. Open' = Open
  BY <1>0, <1>1 DEF Open
<1>4. TypeInv'
  BY <1>1, <1>2, <1>3 DEF TypeInv
<1>5. \A g \in Open : g # h => connections[g].client # cn.client /\ connections[g].client \in Clients
  BY <1>0 DEF Inv, Open, TypeInv, Connection
<1>6. \A g \in Open' : Served(connections'[g], client'[connections'[g].client], asked')
  <2> SUFFICES ASSUME NEW g \in Open, g # h
               PROVE  Served(connections[g], client[connections[g].client], asked')
    BY <1>0, <1>1, <1>2, <1>3, <1>5 DEF Open
  <2> QED BY <1>0, ServedLater DEF Inv
<1>7. \A g \in Open' : client'[connections'[g].client].stage = "linked"
  BY <1>0, <1>1, <1>2, <1>3, <1>5 DEF Inv, Open
<1>8. \A f, g \in Open' : connections'[f].client = connections'[g].client => f = g
  BY <1>1, <1>3 DEF Inv, Open
<1>9. \A g \in Descriptors : connections'[g].client = None => connections'[g].awaiting = None
  BY <1>0, <1>1 DEF Inv
<1>10. \A a \in awaiting' : connections'[a.handle].awaiting = a.token
  <2> SUFFICES ASSUME NEW a \in awaiting'
               PROVE  connections'[a.handle].awaiting = a.token
    OBVIOUS
  <2>1. a.handle \in Descriptors
    OBVIOUS
  <2> QED BY <1>1, <2>1 DEF Inv
<1>11. Good(cl.got \o cl.wire, cn.client)
  <2>1. /\ cl.got \o cl.wire \in Seq(Answers) /\ cn.output \in Seq(Answers)
        /\ Good((cl.got \o cl.wire) \o cn.output, cn.client)
    BY Assoc DEF Client, Connection, Served, Flow
  <2> QED BY <2>1, GoodPart
<1>12. \A c \in Clients :
         /\ Good(client'[c].got \o client'[c].wire, c)
         /\ client'[c].stage \in {"away", "dialing"} => client'[c].got = <<>> /\ client'[c].wire = <<>>
         /\ Len(client'[c].wire) <= SockRoom
  BY <1>2, <1>11 DEF Inv
<1> QED BY <1>4, <1>6, <1>7, <1>8, <1>9, <1>10, <1>12 DEF Inv

(* The connection h goes, and the client becomes cl. *)
LEMMA GoneKeeps ==
    ASSUME Inv, NEW h \in Open, NEW cl \in Client, cl.stage = "closed", Len(cl.wire) <= SockRoom,
           Good(cl.got \o cl.wire, connections[h].client),
           asked' \in Seq(Asked), next_token' = Len(asked') + 1, Later(asked, asked'),
           connections' = [connections EXCEPT ![h] = Free],
           client' = [client EXCEPT ![connections[h].client] = cl],
           awaiting' \subseteq awaiting, \A a \in awaiting' : a.handle # h,
           loop' = Idle
    PROVE  Inv'
<1> DEFINE d == connections[h].client
<1>0. /\ TypeInv /\ h \in Descriptors /\ d # None /\ d \in Clients
      /\ asked \in Seq(Asked)
  BY DEF Inv, TypeInv, Open, Connection
<1>1. Free \in Connection /\ Free.client = None /\ Free.awaiting = None
  BY FreeIsConnection
<1>2. /\ connections'[h] = Free
      /\ \A g \in Descriptors : g # h => connections'[g] = connections[g]
      /\ connections' \in [Descriptors -> Connection]
  <2> HIDE DEF Free
  <2> QED BY <1>0, <1>1 DEF TypeInv
<1> HIDE DEF d
<1>3. /\ client'[d] = cl
      /\ \A c \in Clients : c # d => client'[c] = client[c]
      /\ client' \in [Clients -> Client]
  BY <1>0 DEF TypeInv, d
<1>4. Open' = Open \ {h}
  BY <1>0, <1>1, <1>2 DEF Open
<1>5. TypeInv'
  BY <1>0, <1>2, <1>3 DEF TypeInv, Idle
<1>6. \A g \in Open : g # h => connections[g].client # d /\ connections[g].client \in Clients
  BY <1>0 DEF Inv, Open, TypeInv, Connection, d
<1>7. \A g \in Open' : Served(connections'[g], client'[connections'[g].client], asked')
  <2> SUFFICES ASSUME NEW g \in Open, g # h
               PROVE  Served(connections[g], client[connections[g].client], asked')
    BY <1>0, <1>2, <1>3, <1>4, <1>6 DEF Open
  <2> QED BY <1>0, ServedLater DEF Inv
<1>8. \A g \in Open' : client'[connections'[g].client].stage = "linked"
  BY <1>0, <1>2, <1>3, <1>4, <1>6 DEF Inv, Open
<1>9. \A f, g \in Open' : connections'[f].client = connections'[g].client => f = g
  BY <1>2, <1>4 DEF Inv, Open
<1>10. \A g \in Descriptors : connections'[g].client = None => connections'[g].awaiting = None
  BY <1>0, <1>1, <1>2 DEF Inv
<1>11. \A a \in awaiting' : connections'[a.handle].awaiting = a.token
  <2> SUFFICES ASSUME NEW a \in awaiting'
               PROVE  connections'[a.handle].awaiting = a.token
    OBVIOUS
  <2>1. a \in awaiting /\ a.handle \in Descriptors /\ a.handle # h
    BY <1>0 DEF TypeInv
  <2> QED BY <1>2, <2>1 DEF Inv
<1>12. \A c \in Clients :
         /\ Good(client'[c].got \o client'[c].wire, c)
         /\ client'[c].stage \in {"away", "dialing"} => client'[c].got = <<>> /\ client'[c].wire = <<>>
         /\ Len(client'[c].wire) <= SockRoom
  BY <1>3 DEF Inv, d
<1> QED BY <1>5, <1>7, <1>8, <1>9, <1>10, <1>11, <1>12 DEF Inv

(* A client changes by itself. *)
LEMMA ClientKeeps ==
    ASSUME Inv, NEW c \in Clients, NEW cl \in Client,
           cl.got \o cl.wire = client[c].got \o client[c].wire, Len(cl.wire) <= SockRoom,
           \/ cl.stage = client[c].stage /\ client[c].stage \notin {"away", "dialing"}
           \/ /\ client[c].stage \in {"away", "dialing"} /\ cl.stage # "linked"
              /\ cl.got = <<>> /\ cl.wire = <<>>
           \/ cl.stage = client[c].stage /\ cl.got = client[c].got /\ cl.wire = client[c].wire,
           client' = [client EXCEPT ![c] = cl],
           UNCHANGED <<connections, awaiting, next_token, loop, asked>>
    PROVE  Inv'
<1>0. TypeInv
  BY DEF Inv
<1>1. /\ client'[c] = cl
      /\ \A d \in Clients : d # c => client'[d] = client[d]
      /\ client' \in [Clients -> Client]
  BY <1>0 DEF TypeInv
<1>2. TypeInv' /\ Open' = Open
  BY <1>0, <1>1 DEF TypeInv, Open
<1>3. \A h \in Open : /\ h \in Descriptors /\ connections[h].client \in Clients
                      /\ client[connections[h].client].stage = "linked"
  BY <1>0 DEF Inv, Open, TypeInv, Connection
<1>4. \A h \in Open : client'[connections[h].client].stage = "linked"
  BY <1>1, <1>3
<1>5. \A h \in Open : Served(connections[h], client'[connections[h].client], asked)
  <2> SUFFICES ASSUME NEW h \in Open, connections[h].client = c
               PROVE  Served(connections[h], cl, asked)
    BY <1>1, <1>3 DEF Inv
  <2>1. Served(connections[h], client[c], asked) /\ Flow(cl, connections[h]) = Flow(client[c], connections[h])
    BY DEF Inv, Flow
  <2> QED BY <2>1 DEF Served
<1>6. \A d \in Clients :
         /\ Good(client'[d].got \o client'[d].wire, d)
         /\ client'[d].stage \in {"away", "dialing"} => client'[d].got = <<>> /\ client'[d].wire = <<>>
         /\ Len(client'[d].wire) <= SockRoom
  BY <1>1 DEF Inv
<1> QED BY <1>2, <1>4, <1>5, <1>6 DEF Inv

-----------------------------------------------------------------------------
(* The steps of the clients and of the loop. *)

(* A connection that has neither sent, parsed nor been answered. *)
Quiet(cn, new) ==
    /\ new.client = cn.client /\ new.output = cn.output /\ new.next = cn.next
    /\ new.awaiting = cn.awaiting /\ new.close_after_flush = cn.close_after_flush

(* It is served as it was. *)
LEMMA QuietServed ==
    ASSUME NEW cn, NEW new, NEW cl, NEW ask, Quiet(cn, new), Served(cn, cl, ask)
    PROVE  Served(new, cl, ask)
BY DEF Quiet, Served, Flow

(* What Inv says of a connection that is open. *)
LEMMA OpenFacts ==
    ASSUME Inv, NEW h \in Open
    PROVE  /\ h \in Descriptors /\ connections[h] \in Connection
           /\ connections[h].client \in Clients /\ connections[h].client # None
           /\ client[connections[h].client] \in Client
           /\ client[connections[h].client].stage = "linked"
           /\ Len(client[connections[h].client].wire) <= SockRoom
           /\ Good(client[connections[h].client].got \o client[connections[h].client].wire,
                   connections[h].client)
           /\ Served(connections[h], client[connections[h].client], asked)
           /\ asked \in Seq(Asked) /\ Len(asked) \in Nat /\ next_token = Len(asked) + 1
           /\ Later(asked, asked)
<1>1. /\ h \in Descriptors /\ connections[h] \in Connection /\ connections[h].client # None
      /\ asked \in Seq(Asked) /\ next_token = Len(asked) + 1
  BY DEF Inv, TypeInv, Open
<1>2. connections[h].client \in Clients
  BY <1>1 DEF Connection
<1>3. client[connections[h].client] \in Client
  BY <1>2 DEF Inv, TypeInv
<1>4. Len(asked) \in Nat
  BY <1>1, LenProperties
<1> QED BY <1>1, <1>2, <1>3, <1>4 DEF Inv, Later

(* close_connection. *)
LEMMA CloseKeeps ==
    ASSUME Inv, NEW h \in Open, NEW why \in Ends, close_connection(h, why),
           asked' \in Seq(Asked), next_token' = Len(asked') + 1, Later(asked, asked')
    PROVE  Inv'
<1> DEFINE d == connections[h].client
           cl == [client[d] EXCEPT !.stage = "closed", !.ended = why]
<1>1. /\ client[d] \in Client /\ Len(client[d].wire) <= SockRoom
      /\ Good(client[d].got \o client[d].wire, d) /\ d \in Clients
  BY OpenFacts
<1>2. client \in [Clients -> Client]
  BY DEF Inv, TypeInv
<1>3. client' = [client EXCEPT ![d].stage = "closed", ![d].ended = why]
  BY DEF close_connection
<1> HIDE DEF d
<1>4. client' = [client EXCEPT ![d] = cl]
  BY <1>1, <1>2, <1>3
<1>5. cl \in Client /\ cl.stage = "closed" /\ cl.wire = client[d].wire /\ cl.got = client[d].got
  BY <1>1 DEF Client
<1> HIDE DEF cl
<1>6. Len(cl.wire) <= SockRoom /\ Good(cl.got \o cl.wire, connections[h].client)
  BY <1>1, <1>5 DEF d
<1>7. /\ connections' = [connections EXCEPT ![h] = Free] /\ loop' = Idle
      /\ awaiting' \subseteq awaiting /\ \A a \in awaiting' : a.handle # h
  BY DEF close_connection
<1> QED BY <1>4, <1>5, <1>6, <1>7, GoneKeeps DEF d

(* The clients. *)
LEMMA UnitsToNat == \A c \in Clients : \A n \in 0..Len(Script[c]) : UnitsTo(c, n) \in Nat
<1> SUFFICES ASSUME NEW c \in Clients, NEW n \in 0..Len(Script[c])
             PROVE  UnitsTo(c, n) \in Nat
  OBVIOUS
<1>1. n \in Nat
  BY HttpAssumption, LenProperties DEF HttpAssumption
<1>2. IsFiniteSet(1..n)
  BY <1>1, FS_Interval
<1>3. Cardinality({i \in 1..n : Script[c][i].kind = "verify"}) \in Nat
  BY <1>2, FS_Subset, FS_CardinalityType
<1> QED BY <1>1, <1>3 DEF UnitsTo

(* connect, send, close their writing side or break, *)
LEMMA ClientStepKeeps == Inv /\ ClientStep => Inv'
<1> SUFFICES ASSUME Inv, ClientStep PROVE Inv'
  OBVIOUS
<1>1. PICK c \in Clients : \/ Connect(c) \/ ShutsWrite(c) \/ Breaks(c)
                           \/ \E n \in 1..UnitsTo(c, Len(Script[c])) : Sends(c, n)
  BY DEF ClientStep
<1>2. client[c] \in Client /\ Len(client[c].wire) <= SockRoom
  BY DEF Inv, TypeInv
<1>3. CASE Connect(c)
  <2> DEFINE cl == [client[c] EXCEPT !.stage = "dialing"]
  <2>1. client[c].stage = "away" /\ client[c].got = <<>> /\ client[c].wire = <<>>
    BY <1>3 DEF Connect, Inv
  <2>2. cl \in Client /\ cl.stage = "dialing" /\ cl.got = client[c].got /\ cl.wire = client[c].wire
    BY <1>2 DEF Client
  <2>3. client' = [client EXCEPT ![c] = cl] /\ UNCHANGED <<connections, awaiting, next_token, loop, asked>>
    BY <1>3 DEF Connect
  <2> HIDE DEF cl
  <2> QED BY <1>2, <2>1, <2>2, <2>3, ClientKeeps
<1>4. CASE ShutsWrite(c)
  <2> DEFINE cl == [client[c] EXCEPT !.fin = TRUE]
  <2>2. cl \in Client /\ cl.stage = client[c].stage /\ cl.got = client[c].got /\ cl.wire = client[c].wire
    BY <1>2 DEF Client
  <2>3. client' = [client EXCEPT ![c] = cl] /\ UNCHANGED <<connections, awaiting, next_token, loop, asked>>
    BY <1>4 DEF ShutsWrite
  <2> HIDE DEF cl
  <2> QED BY <1>2, <2>2, <2>3, ClientKeeps
<1>5. CASE Breaks(c)
  <2> DEFINE cl == [client[c] EXCEPT !.rst = TRUE]
  <2>2. cl \in Client /\ cl.stage = client[c].stage /\ cl.got = client[c].got /\ cl.wire = client[c].wire
    BY <1>2 DEF Client
  <2>3. client' = [client EXCEPT ![c] = cl] /\ UNCHANGED <<connections, awaiting, next_token, loop, asked>>
    BY <1>5 DEF Breaks
  <2> HIDE DEF cl
  <2> QED BY <1>2, <2>2, <2>3, ClientKeeps
<1>6. CASE \E n \in 1..UnitsTo(c, Len(Script[c])) : Sends(c, n)
  <2>0. UnitsTo(c, Len(Script[c])) \in Nat
    <3>1. Len(Script[c]) \in Nat
      BY HttpAssumption, LenProperties DEF HttpAssumption
    <3> QED BY <3>1, UnitsToNat
  <2>1. PICK n \in Int : Sends(c, n)
    BY <1>6, <2>0
  <2> DEFINE cl == [client[c] EXCEPT !.sent = @ + n]
  <2>2. cl \in Client /\ cl.stage = client[c].stage /\ cl.got = client[c].got /\ cl.wire = client[c].wire
    BY <1>2 DEF Client
  <2>3. client' = [client EXCEPT ![c] = cl] /\ UNCHANGED <<connections, awaiting, next_token, loop, asked>>
    BY <2>1 DEF Sends
  <2> HIDE DEF cl
  <2> QED BY <1>2, <2>2, <2>3, ClientKeeps
<1> QED BY <1>1, <1>3, <1>4, <1>5, <1>6

(* and read. *)
LEMMA ReadsKeeps == ASSUME Inv, NEW c \in Clients, Reads(c) PROVE Inv'
<1> DEFINE g == client[c].got
           w == client[c].wire
           cl == [client[c] EXCEPT !.wire = Tail(w), !.got = Append(g, Head(w))]
<1>1. client[c] \in Client /\ Len(w) <= SockRoom /\ w # <<>> /\ client \in [Clients -> Client]
  BY DEF Inv, TypeInv, Reads
<1>2. client[c].stage \notin {"away", "dialing"}
  BY <1>1 DEF Inv
<1>3. g \in Seq(Answers) /\ w \in Seq(Answers)
  BY <1>1 DEF Client
<1>4. /\ Append(g, Head(w)) \in Seq(Answers) /\ Tail(w) \in Seq(Answers)
      /\ Len(Tail(w)) = Len(w) - 1 /\ Len(w) \in Nat
      /\ Append(g, Head(w)) \o Tail(w) = g \o w
  <2> HIDE DEF g, w
  <2> QED BY <1>1, <1>3, FlowRead, LenProperties
<1>5. client' = [client EXCEPT ![c] = cl]
  BY <1>1 DEF Reads
<1>6. /\ cl \in Client /\ cl.stage = client[c].stage
      /\ cl.got = Append(g, Head(w)) /\ cl.wire = Tail(w)
  BY <1>1, <1>4 DEF Client
<1>7. UNCHANGED <<connections, awaiting, next_token, loop, asked>>
  BY DEF Reads
<1> HIDE DEF cl
<1>8. cl.got \o cl.wire = client[c].got \o client[c].wire
  BY <1>4, <1>6
<1>9. Len(cl.wire) <= SockRoom
  BY <1>1, <1>4, <1>6, HttpAssumption DEF HttpAssumption
<1> QED BY <1>2, <1>5, <1>6, <1>7, <1>8, <1>9, ClientKeeps

(* A nonempty set of natural numbers has a least element. *)
LEMMA LeastOf ==
    ASSUME NEW T, T \subseteq Nat, T # {}
    PROVE  Min(T) \in T
<1> DEFINE R == {p \in Nat \X Nat : p[1] < p[2]}
<1>1. IsWellFoundedOn(R, Nat)
  BY NatLessThanWellFounded, Zenon DEF OpToRel
<1> HIDE DEF R
<1>2. PICK x \in T : \A y \in T : ~(<<y, x>> \in R)
  BY <1>1, WFMin
<1>3. \A y \in T : ~(y < x)
  BY <1>2 DEF R
<1>4. \A y \in T : x <= y
  BY <1>3
<1> QED BY <1>4 DEF Min

(* accept_connections. *)
LEMMA AcceptKeeps == ASSUME Inv, NEW c \in Clients, Accept(c) PROVE Inv'
<1>0. /\ TypeInv /\ client[c] \in Client /\ client[c].stage = "dialing"
      /\ client \in [Clients -> Client] /\ connections \in [Descriptors -> Connection]
      /\ Len(client[c].wire) <= SockRoom
      /\ client[c].got = <<>> /\ client[c].wire = <<>>
      /\ UNCHANGED <<awaiting, next_token, loop, asked>>
      /\ loop = Idle
  BY DEF Inv, TypeInv, Accept
<1>1. CASE /\ client' = [client EXCEPT ![c].stage = "closed", ![c].ended = "refused"]
           /\ UNCHANGED connections
  <2> DEFINE cl == [client[c] EXCEPT !.stage = "closed", !.ended = "refused"]
  <2>1. client' = [client EXCEPT ![c] = cl]
    BY <1>0, <1>1
  <2>2. cl \in Client /\ cl.stage = "closed" /\ cl.got = client[c].got /\ cl.wire = client[c].wire
    BY <1>0 DEF Client, Ends
  <2> HIDE DEF cl
  <2>3. cl.got \o cl.wire = client[c].got \o client[c].wire /\ Len(cl.wire) <= SockRoom
    BY <1>0, <2>2
  <2>4. cl.got = <<>> /\ cl.wire = <<>> /\ cl.stage # "linked" /\ client[c].stage \in {"away", "dialing"}
    BY <1>0, <2>2
  <2>5. UNCHANGED <<connections, awaiting, next_token, loop, asked>>
    BY <1>0, <1>1
  <2> QED BY <2>1, <2>2, <2>3, <2>4, <2>5, ClientKeeps
<1>2. CASE /\ Cardinality(Open) < MaxConnections
           /\ connections' = [connections EXCEPT ![Min(Descriptors \ Open)] = NewConnection(c)]
           /\ client' = [client EXCEPT ![c].stage = "linked"]
  <2> DEFINE h == Min(Descriptors \ Open)
             cl == [client[c] EXCEPT !.stage = "linked"]
             cn == NewConnection(c)
  <2>1. h \in Descriptors \ Open
    <3>1. Descriptors \ Open # {}
      <4>1. Open \subseteq Descriptors /\ IsFiniteSet(Descriptors)
            /\ MaxConnections <= Cardinality(Descriptors) /\ MaxConnections \in Nat
            /\ Cardinality(Descriptors) \in Nat
        BY HttpAssumption, FS_CardinalityType DEF HttpAssumption, Open
      <4>2. Open # Descriptors
        BY <1>2, <4>1
      <4> QED BY <4>1, <4>2
    <3>2. Descriptors \ Open \subseteq Nat
      BY HttpAssumption DEF HttpAssumption
    <3> QED BY <3>1, <3>2, LeastOf
  <2>2. cn \in Connection /\ cn.client = c /\ cn.output = <<>> /\ cn.next = 1
        /\ cn.awaiting = None /\ cn.close_after_flush = FALSE
    BY NewIsConnection DEF NewConnection
  <2>3. cl \in Client /\ cl.stage = "linked" /\ cl.got = client[c].got /\ cl.wire = client[c].wire
    BY <1>0 DEF Client
  <2>4. connections' = [connections EXCEPT ![h] = cn] /\ client' = [client EXCEPT ![c] = cl]
    BY <1>2
  <2> HIDE DEF h, cl, cn
  <2>5. /\ connections'[h] = cn
        /\ \A g \in Descriptors : g # h => connections'[g] = connections[g]
        /\ connections' \in [Descriptors -> Connection]
    BY <1>0, <2>1, <2>2, <2>4
  <2>6. /\ client'[c] = cl
        /\ \A d \in Clients : d # c => client'[d] = client[d]
        /\ client' \in [Clients -> Client]
    BY <1>0, <2>3, <2>4
  <2>7. c # None
    BY HttpAssumption DEF HttpAssumption, None
  <2>8. Open' = Open \cup {h}
    BY <2>1, <2>2, <2>5, <2>7 DEF Open
  <2>9. TypeInv'
    BY <1>0, <2>5, <2>6, <2>8 DEF TypeInv
  <2>10. \A g \in Open : /\ g # h /\ g \in Descriptors /\ connections[g].client \in Clients
                         /\ client[connections[g].client].stage = "linked"
                         /\ connections[g].client # c
    BY <1>0, <2>1 DEF Inv, Open, TypeInv, Connection
  <2>11. Flow(cl, cn) = <<>> /\ Len(<<>>) = 0 /\ \A i \in 1..0 : FALSE
    <3>1. <<>> \in Seq(Answers) /\ <<>> \o <<>> = <<>>
      BY EmptySeq, ConcatEmptySeq
    <3> QED BY <1>0, <2>2, <2>3, <3>1 DEF Flow
  <2>12. Served(cn, cl, asked)
    BY <2>2, <2>11 DEF Served, Good, InOrder, Final, Refused
  <2>13. \A g \in Open' : Served(connections'[g], client'[connections'[g].client], asked')
    BY <1>0, <2>2, <2>5, <2>6, <2>8, <2>10, <2>12 DEF Inv
  <2>14. \A g \in Open' : client'[connections'[g].client].stage = "linked"
    BY <2>2, <2>3, <2>5, <2>6, <2>8, <2>10
  <2>15. \A f, g \in Open' : connections'[f].client = connections'[g].client => f = g
    BY <2>2, <2>5, <2>8, <2>10 DEF Inv
  <2>16. \A g \in Descriptors : connections'[g].client = None => connections'[g].awaiting = None
    BY <2>2, <2>5 DEF Inv
  <2>17. \A a \in awaiting' : connections'[a.handle].awaiting = a.token
    <3> SUFFICES ASSUME NEW a \in awaiting
                 PROVE  connections'[a.handle].awaiting = a.token
      BY <1>0
    <3>1. a.handle \in Descriptors /\ a.token \in Nat \ {0} /\ connections[a.handle].awaiting = a.token
      BY <1>0 DEF Inv, TypeInv
    <3>2. a.handle # h
      BY <2>1, <3>1 DEF Inv, Open, None
    <3> QED BY <2>5, <3>1, <3>2
  <2>18. \A d \in Clients :
           /\ Good(client'[d].got \o client'[d].wire, d)
           /\ client'[d].stage \in {"away", "dialing"} => client'[d].got = <<>> /\ client'[d].wire = <<>>
           /\ Len(client'[d].wire) <= SockRoom
    BY <2>3, <2>6 DEF Inv
  <2> QED BY <2>9, <2>13, <2>14, <2>15, <2>16, <2>17, <2>18 DEF Inv
<1> QED BY <1>1, <1>2 DEF Accept

(* sweep_deadlines. *)
LEMMA ExpireKeeps == ASSUME Inv, NEW h \in Descriptors, Sweep(h) PROVE Inv'
<1>1. h \in Open /\ close_connection(h, "expired") /\ UNCHANGED <<next_token, asked>> /\ "expired" \in Ends
  BY DEF Sweep, Ends
<1>2. asked' \in Seq(Asked) /\ next_token' = Len(asked') + 1 /\ Later(asked, asked')
  BY <1>1, OpenFacts
<1> QED BY <1>1, <1>2, CloseKeeps

(* A connection that changes and leaves the client alone. *)
LEMMA QuietKeeps ==
    ASSUME Inv, NEW h \in Open, NEW cn \in Connection,
           cn.client = connections[h].client,
           Served(cn, client[cn.client], asked),
           connections' = [connections EXCEPT ![h] = cn],
           loop'.handle = h,
           cn.awaiting = connections[h].awaiting,
           UNCHANGED <<client, awaiting, next_token, asked>>
    PROVE  Inv'
<1> DEFINE cl == client[cn.client]
<1>1. /\ cl \in Client /\ cl.stage = "linked" /\ Len(cl.wire) <= SockRoom
      /\ asked \in Seq(Asked) /\ next_token = Len(asked) + 1 /\ Later(asked, asked)
      /\ client \in [Clients -> Client] /\ cn.client \in Clients
  BY OpenFacts DEF Inv, TypeInv
<1>2. client' = [client EXCEPT ![cn.client] = cl]
  BY <1>1
<1>3. /\ awaiting' \subseteq [token : Nat \ {0}, handle : Descriptors]
      /\ \A a \in awaiting' : IF a.handle = h THEN a.token = cn.awaiting ELSE a \in awaiting
  BY DEF Inv, TypeInv
<1>4. Served(cn, cl, asked') /\ asked' \in Seq(Asked) /\ next_token' = Len(asked') + 1 /\ Later(asked, asked')
  BY <1>1
<1> HIDE DEF cl
<1> QED BY <1>1, <1>2, <1>3, <1>4, ReplaceKeeps

-----------------------------------------------------------------------------
(* Answers. *)

(* An answer is put behind those there are. *)
LEMMA FlowAppend ==
    ASSUME NEW cn \in Connection, NEW cl \in Client, NEW a \in Answers, NEW new \in Connection,
           new.output = Append(cn.output, a)
    PROVE  /\ Flow(cl, cn) \in Seq(Answers) /\ Len(Flow(cl, cn)) \in Nat
           /\ Flow(cl, new) = Append(Flow(cl, cn), a)
<1>1. cl.got \in Seq(Answers) /\ cl.wire \in Seq(Answers) /\ cn.output \in Seq(Answers)
  BY DEF Client, Connection
<1> DEFINE s == cl.got \o cl.wire
           o == cn.output
<1>2. s \in Seq(Answers)
  BY <1>1, Assoc
<1>3. o \in Seq(Answers)
  BY <1>1
<1> HIDE DEF s, o
<1>4. s \o Append(o, a) = Append(s \o o, a)
  BY <1>2, <1>3, FlowMore
<1>5. s \o o \in Seq(Answers) /\ Len(s \o o) \in Nat
  BY <1>2, <1>3, Assoc, LenProperties
<1>6. Flow(cl, cn) = s \o o /\ Flow(cl, new) = s \o Append(o, a)
  BY DEF Flow, s, o
<1> QED BY <1>4, <1>5, <1>6

(* reject_and_close, *)
LEMMA RefuseServed ==
    ASSUME NEW cn \in Connection, NEW new \in Connection, NEW cl \in Client, NEW ask,
           NEW status \in {"400", "431"}, cn.client \in Clients,
           Served(cn, cl, ask), cn.awaiting = None,
           new.client = cn.client, new.next = cn.next, new.awaiting = None, new.close_after_flush,
           new.output = cn.output \/ new.output = Append(cn.output, Answer(cn.client, cn.next, status))
    PROVE  Served(new, cl, ask)
<1> DEFINE s == Flow(cl, cn)
           a == Answer(cn.client, cn.next, status)
<1>1. Good(s, cn.client) /\ (Refused(s) \/ Len(s) = cn.next - 1) /\ cn.next \in Nat
  BY DEF Served, Connection
<1>2. CASE new.output = cn.output
  BY <1>1, <1>2 DEF Served, Flow
<1>3. CASE new.output = Append(cn.output, a)
  <2>1. a \in Answers /\ a.to = cn.client /\ a.n = cn.next /\ Refusal(a)
    BY <1>1 DEF Answer, Answers, Refusal
  <2> HIDE DEF a
  <2>2. s \in Seq(Answers) /\ Len(s) \in Nat /\ Flow(cl, new) = Append(s, a)
    BY <1>3, <2>1, FlowAppend
  <2> HIDE DEF s
  <2>3. \/ ~Refused(s) /\ a.n = Len(s) + 1
        \/ Refused(s) /\ Refusal(a)
    BY <1>1, <2>1, <2>2
  <2>4. Good(Append(s, a), cn.client) /\ Refused(Append(s, a))
    BY <1>1, <2>1, <2>2, <2>3, GoodMore
  <2> QED BY <2>2, <2>4 DEF Served
<1> QED BY <1>2, <1>3

(* queue_response of dispatch_request, *)
LEMMA AnswerServed ==
    ASSUME NEW cn \in Connection, NEW new \in Connection, NEW cl \in Client, NEW ask, NEW later,
           NEW status \in {"200", "503"}, cn.client \in Clients,
           Served(cn, cl, ask), cn.awaiting = None, ~cn.close_after_flush,
           new.client = cn.client, new.next = cn.next + 1, new.awaiting = None,
           new.output = Append(cn.output, Answer(cn.client, cn.next, status))
    PROVE  Served(new, cl, later)
<1> DEFINE s == Flow(cl, cn)
           a == Answer(cn.client, cn.next, status)
<1>1. Good(s, cn.client) /\ ~Refused(s) /\ Len(s) = cn.next - 1 /\ cn.next \in Nat
  BY DEF Served, Connection
<1>2. a \in Answers /\ a.to = cn.client /\ a.n = cn.next /\ ~Refusal(a)
  BY <1>1 DEF Answer, Answers, Refusal
<1>2a. new.output = Append(cn.output, a)
  OBVIOUS
<1> HIDE DEF a
<1>3. s \in Seq(Answers) /\ Len(s) \in Nat /\ Flow(cl, new) = Append(s, a)
  BY <1>2, <1>2a, FlowAppend
<1> HIDE DEF s
<1>4. a.n = Len(s) + 1
  BY <1>1, <1>2, <1>3
<1>5. /\ Good(Append(s, a), cn.client) /\ ~Refused(Append(s, a))
      /\ Len(Append(s, a)) = Len(s) + 1
  BY <1>1, <1>2, <1>3, <1>4, GoodMore
<1> QED BY <1>1, <1>3, <1>5 DEF Served

(* a deferred response, *)
LEMMA DeferServed ==
    ASSUME NEW cn \in Connection, NEW new \in Connection, NEW cl \in Client, NEW ask, NEW later,
           NEW token \in 1..Len(later), token # None,
           later[token] = [client |-> cn.client, n |-> cn.next],
           Served(cn, cl, ask), cn.awaiting = None, ~cn.close_after_flush,
           new.client = cn.client, new.next = cn.next + 1, new.awaiting = token,
           new.output = cn.output, new.close_after_flush = cn.close_after_flush
    PROVE  Served(new, cl, later)
<1>1. cn.next \in Nat
  BY DEF Connection
<1>2. Flow(cl, new) = Flow(cl, cn)
  BY DEF Flow
<1>3. new.next - 1 = cn.next /\ new.next - 2 = cn.next - 1
  BY <1>1
<1> QED BY <1>2, <1>3 DEF Served

(* and complete. *)
LEMMA CompleteServed ==
    ASSUME NEW cn \in Connection, NEW new \in Connection, NEW cl \in Client, NEW ask \in Seq(Asked),
           cn.client \in Clients,
           Served(cn, cl, ask), cn.awaiting # None,
           new.client = cn.client, new.next = cn.next, new.awaiting = None,
           new.output = Append(cn.output, Answer(ask[cn.awaiting].client, ask[cn.awaiting].n, "200"))
    PROVE  Served(new, cl, ask)
<1> DEFINE s == Flow(cl, cn)
           a == Answer(ask[cn.awaiting].client, ask[cn.awaiting].n, "200")
<1>1. Good(s, cn.client) /\ ~Refused(s) /\ Len(s) = cn.next - 2 /\ cn.next \in Nat
  BY DEF Served, Connection
<1>2. ask[cn.awaiting] = [client |-> cn.client, n |-> cn.next - 1] /\ ask[cn.awaiting] \in Asked
  BY ElementOfSeq DEF Served
<1>3. a \in Answers /\ a.to = cn.client /\ a.n = cn.next - 1 /\ ~Refusal(a)
  BY <1>1, <1>2 DEF Answer, Answers, Refusal, Asked
<1>3a. new.output = Append(cn.output, a)
  OBVIOUS
<1> HIDE DEF a
<1>4. s \in Seq(Answers) /\ Len(s) \in Nat /\ Flow(cl, new) = Append(s, a)
  BY <1>3, <1>3a, FlowAppend
<1> HIDE DEF s
<1>5. a.n = Len(s) + 1
  BY <1>1, <1>3, <1>4
<1>6. /\ Good(Append(s, a), cn.client) /\ ~Refused(Append(s, a))
      /\ Len(Append(s, a)) = Len(s) + 1
  BY <1>1, <1>3, <1>4, <1>5, GoodMore
<1> QED BY <1>1, <1>4, <1>6 DEF Served

-----------------------------------------------------------------------------
(* The loop services a connection. *)

(* Connections with one field changed or more. *)
ReadTo(cn, sent, fin) ==
    [cn EXCEPT !.handshake_complete = TRUE, !.read = sent, !.input = @ + (sent - cn.read), !.peer_closed = fin]

(* Connection h has read what its client has sent. *)
LEMMA ReadToIs ==
    ASSUME NEW cn \in Connection, NEW sent \in Int, NEW fin \in BOOLEAN
    PROVE  ReadTo(cn, sent, fin) \in Connection /\ Quiet(cn, ReadTo(cn, sent, fin))
<1>1. cn.input + (sent - cn.read) \in Int
  BY DEF Connection
<1> QED BY <1>1 DEF ReadTo, Connection, Quiet

Refusing(cn, o) == [cn EXCEPT !.close_after_flush = TRUE, !.output = o]

(* Nothing is parsed any more. *)
LEMMA RefusingIs ==
    ASSUME NEW cn \in Connection, NEW o \in Seq(Answers)
    PROVE  LET new == Refusing(cn, o) IN
           /\ new \in Connection /\ new.client = cn.client /\ new.next = cn.next
           /\ new.awaiting = cn.awaiting /\ new.close_after_flush = TRUE /\ new.output = o
BY DEF Refusing, Connection

(* Connection h refuses what it has read or parsed; cn is what it was but for that. *)
LEMMA RefusesKeeps ==
    ASSUME Inv, NEW h \in Open, NEW cn \in Connection, Quiet(connections[h], cn),
           cn.awaiting = None, NEW status \in {"400", "431"},
           connections' = [connections EXCEPT ![h] =
               Refusing(cn, IF Len(cn.output) < MaxOutput
                              THEN Append(cn.output, Answer(cn.client, cn.next, status)) ELSE cn.output)],
           loop'.handle = h, UNCHANGED <<client, awaiting, next_token, asked>>
    PROVE  Inv'
<1> DEFINE a == Answer(cn.client, cn.next, status)
           o == IF Len(cn.output) < MaxOutput THEN Append(cn.output, a) ELSE cn.output
           new == Refusing(cn, o)
           c == connections[h].client
<1>0. /\ connections[h] \in Connection /\ c \in Clients /\ client[c] \in Client
      /\ Served(connections[h], client[c], asked) /\ cn.client = c
  BY OpenFacts DEF Quiet
<1>1. Served(cn, client[c], asked)
  BY <1>0, QuietServed
<1>2. a \in Answers /\ cn.output \in Seq(Answers)
  BY <1>0 DEF Answer, Answers, Connection
<1>3. o \in Seq(Answers)
  BY <1>2, AppendProperties
<1>4. connections' = [connections EXCEPT ![h] = new]
  OBVIOUS
<1>5. o = cn.output \/ o = Append(cn.output, Answer(cn.client, cn.next, status))
  OBVIOUS
<1> HIDE DEF o, c
<1>6. /\ new \in Connection /\ new.client = cn.client /\ new.next = cn.next
      /\ new.awaiting = None /\ new.close_after_flush = TRUE /\ new.output = o
  BY <1>3, RefusingIs
<1> HIDE DEF new
<1>7. Served(new, client[c], asked)
  BY <1>0, <1>1, <1>5, <1>6, RefuseServed
<1>8. new.client = connections[h].client /\ new.awaiting = connections[h].awaiting
  BY <1>0, <1>6 DEF Quiet, c
<1> QED BY <1>0, <1>4, <1>6, <1>7, <1>8, QuietKeeps

(* service_connection: an error, a handshake that failed, bytes, or room to write. *)
LEMMA ServesKeeps == ASSUME Inv, NEW h \in Descriptors, service_connection(h) PROVE Inv'
<1> DEFINE cn == connections[h]
           c == cn.client
           shaken == [cn EXCEPT !.handshake_complete = TRUE]
           in == ReadTo(cn, client[c].sent, client[c].fin)
<1>1. h \in Open /\ UNCHANGED <<next_token, asked>>
  BY DEF service_connection, Ready
<1>2. /\ cn \in Connection /\ c \in Clients /\ client[c] \in Client
      /\ Served(cn, client[c], asked)
      /\ asked' \in Seq(Asked) /\ next_token' = Len(asked') + 1 /\ Later(asked, asked')
      /\ connections \in [Descriptors -> Connection]
  BY <1>1, OpenFacts DEF Inv, TypeInv
<1>3. ASSUME NEW why \in {"broken", "handshake", "overflow"}, close_connection(h, why) PROVE Inv'
  <2>1. why \in Ends
    BY DEF Ends
  <2> QED BY <1>1, <1>2, <1>3, <2>1, CloseKeeps
<1>4. in \in Connection /\ Quiet(cn, in)
  <2>1. client[c].sent \in Int /\ client[c].fin \in BOOLEAN
    BY <1>2 DEF Client
  <2> QED BY <1>2, <2>1, ReadToIs
<1>5. CASE Received(h, shaken)
  <2>1. /\ shaken.client = c /\ shaken.read = cn.read /\ shaken.awaiting = cn.awaiting
        /\ in = [shaken EXCEPT !.read = client[c].sent, !.input = @ + (client[c].sent - shaken.read),
                               !.peer_closed = client[c].fin]
    BY <1>2 DEF ReadTo, Connection
  <2> DEFINE refused == [in EXCEPT !.close_after_flush = TRUE,
                                   !.output = IF Len(@) < MaxOutput THEN Append(@, Answer(c, cn.next, "431")) ELSE @]
  <2>1a. shaken.next = cn.next
    BY <1>2 DEF Connection
  <2> HIDE DEF in, shaken
  <2>2. \/ /\ connections' = [connections EXCEPT ![h] = in]
           /\ loop' = [at |-> "parse", handle |-> h]
           /\ UNCHANGED <<client, awaiting>>
        \/ close_connection(h, "overflow")
        \/ /\ cn.awaiting = None
           /\ connections' = [connections EXCEPT ![h] = refused]
           /\ loop' = [at |-> "flush", handle |-> h]
           /\ UNCHANGED <<client, awaiting>>
    BY <1>5, <2>1, <2>1a DEF Received
  <2>3. CASE /\ connections' = [connections EXCEPT ![h] = in]
             /\ loop' = [at |-> "parse", handle |-> h]
             /\ UNCHANGED <<client, awaiting>>
    <3>1. Served(in, client[c], asked)
      BY <1>2, <1>4, QuietServed
    <3>2. in.client = c /\ in.awaiting = cn.awaiting /\ loop'.handle = h
      BY <1>4, <2>3 DEF Quiet
    <3> QED BY <1>1, <1>4, <2>3, <3>1, <3>2, QuietKeeps
  <2>4. CASE /\ cn.awaiting = None
             /\ connections' = [connections EXCEPT ![h] = refused]
             /\ loop' = [at |-> "flush", handle |-> h]
             /\ UNCHANGED <<client, awaiting>>
    <3>1. in.client = c /\ in.next = cn.next /\ in.awaiting = None /\ loop'.handle = h
      BY <1>4, <2>4 DEF Quiet
    <3>2. refused = Refusing(in, IF Len(in.output) < MaxOutput
                                   THEN Append(in.output, Answer(in.client, in.next, "431")) ELSE in.output)
      BY <3>1 DEF Refusing
    <3> HIDE DEF refused
    <3>3. UNCHANGED <<client, awaiting, next_token, asked>>
      BY <1>1, <2>4
    <3>4. connections' = [connections EXCEPT ![h] = 
               Refusing(in, IF Len(in.output) < MaxOutput
                              THEN Append(in.output, Answer(in.client, in.next, "431")) ELSE in.output)]
      BY <2>4, <3>2
    <3> QED BY <1>1, <1>4, <3>1, <3>3, <3>4, RefusesKeeps
  <2> QED BY <1>3, <2>2, <2>3, <2>4
<1>6. CASE /\ loop' = [at |-> "flush", handle |-> h]
           /\ UNCHANGED <<client, connections, awaiting>>
  <2>1. connections' = [connections EXCEPT ![h] = cn] /\ loop'.handle = h
    BY <1>2, <1>6
  <2> QED BY <1>1, <1>2, <1>6, <2>1, QuietKeeps
<1> QED BY <1>3, <1>5, <1>6 DEF service_connection

-----------------------------------------------------------------------------
(* One turn of parse_and_dispatch. *)

Taken(cn, i, b, n) == [cn EXCEPT !.input = i, !.body = b, !.next = n]

(* The parser has taken something from the input. *)
LEMMA TakenIs ==
    ASSUME NEW cn \in Connection, NEW i \in Int, NEW b \in BOOLEAN, NEW n \in Nat \ {0}
    PROVE  LET new == Taken(cn, i, b, n) IN
           /\ new \in Connection /\ new.client = cn.client /\ new.next = n
           /\ new.awaiting = cn.awaiting /\ new.close_after_flush = cn.close_after_flush
           /\ new.output = cn.output
BY DEF Taken, Connection

(* What was parsed. *)
LEMMA ParsedIs ==
    ASSUME NEW cn \in Connection
    PROVE  LET p == TryParse(cn)  new == Parsed(cn, p) IN
           /\ new \in Connection /\ new.client = cn.client
           /\ new.next = IF p.verdict = "request" THEN cn.next + 1 ELSE cn.next
           /\ new.awaiting = cn.awaiting /\ new.close_after_flush = cn.close_after_flush
           /\ new.output = cn.output
<1> DEFINE p == TryParse(cn)
           n == IF p.verdict = "request" THEN cn.next + 1 ELSE cn.next
<1>1. p.took \in Int /\ p.body \in BOOLEAN
  <2>1. \A r : Units(r) \in Int
    BY DEF Units
  <2>2. cn.input \in Int /\ cn.body \in BOOLEAN
    BY DEF Connection
  <2> DEFINE need == IF cn.body THEN 1 ELSE Units(Script[cn.client][cn.next])
  <2>3. need \in Int
    BY <2>1
  <2>4. \/ p = [verdict |-> "more", took |-> 0, body |-> cn.body]
        \/ p = [verdict |-> "bad", took |-> 0, body |-> FALSE]
        \/ p = [verdict |-> "more", took |-> cn.input, body |-> TRUE]
        \/ p = [verdict |-> "request", took |-> need, body |-> FALSE]
    BY Zenon DEF TryParse
  <2> HIDE DEF p, need
  <2>5. p.took \in Int
    BY <2>2, <2>3, <2>4
  <2>6. p.body = cn.body \/ p.body = TRUE \/ p.body = FALSE
    <3>1. CASE p = [verdict |-> "more", took |-> 0, body |-> cn.body]
      BY <3>1, Zenon
    <3>2. CASE p = [verdict |-> "bad", took |-> 0, body |-> FALSE]
      BY <3>2
    <3>3. CASE p = [verdict |-> "more", took |-> cn.input, body |-> TRUE]
      BY <3>3
    <3>4. CASE p = [verdict |-> "request", took |-> need, body |-> FALSE]
      BY <3>4
    <3> QED BY <2>4, <3>1, <3>2, <3>3, <3>4
  <2> QED BY <2>2, <2>5, <2>6
<1>2. cn.input - p.took \in Int /\ n \in Nat \ {0}
  BY <1>1 DEF Connection
<1>3. Parsed(cn, p) = Taken(cn, cn.input - p.took, p.body, n)
  BY DEF Parsed, Taken
<1> HIDE DEF p, n
<1>4. /\ Taken(cn, cn.input - p.took, p.body, n) \in Connection
      /\ Taken(cn, cn.input - p.took, p.body, n).client = cn.client
      /\ Taken(cn, cn.input - p.took, p.body, n).next = n
      /\ Taken(cn, cn.input - p.took, p.body, n).awaiting = cn.awaiting
      /\ Taken(cn, cn.input - p.took, p.body, n).close_after_flush = cn.close_after_flush
      /\ Taken(cn, cn.input - p.took, p.body, n).output = cn.output
  BY <1>1, <1>2, TakenIs
<1> QED BY <1>3, <1>4 DEF p, n

Deferring(cn, t, k) == [cn EXCEPT !.awaiting = t, !.awaiting_keep = k]

(* The response is deferred, *)
LEMMA DeferringIs ==
    ASSUME NEW cn \in Connection, NEW t \in Nat, NEW k \in Keeps
    PROVE  LET new == Deferring(cn, t, k) IN
           /\ new \in Connection /\ new.client = cn.client /\ new.next = cn.next
           /\ new.awaiting = t /\ new.close_after_flush = cn.close_after_flush
           /\ new.output = cn.output
BY DEF Deferring, Connection

Answering(cn, o, f) == [cn EXCEPT !.output = o, !.close_after_flush = f]

(* or put in the output. *)
LEMMA AnsweringIs ==
    ASSUME NEW cn \in Connection, NEW o \in Seq(Answers), NEW f \in BOOLEAN
    PROVE  LET new == Answering(cn, o, f) IN
           /\ new \in Connection /\ new.client = cn.client /\ new.next = cn.next
           /\ new.awaiting = cn.awaiting /\ new.output = o
BY DEF Answering, Connection

(* A request that the handler gets. *)
LEMMA RequestKeeps ==
    ASSUME Inv, NEW h \in Open, NEW after \in Connection,
           connections[h].awaiting = None, ~connections[h].close_after_flush,
           after.client = connections[h].client, after.next = connections[h].next + 1,
           after.awaiting = None, after.close_after_flush = connections[h].close_after_flush,
           after.output = connections[h].output,
           next_token' = next_token + 1,
           asked' = Append(asked, [client |-> connections[h].client, n |-> connections[h].next]),
           NEW keep \in Keeps,
           \/ /\ connections' = [connections EXCEPT ![h] = Deferring(after, next_token, keep)]
              /\ awaiting' = awaiting \cup {[token |-> next_token, handle |-> h]}
              /\ UNCHANGED <<client, loop>> /\ loop.handle = h
           \/ \E status \in {"200", "503"} :
                queue_response(h, after, Answer(connections[h].client, connections[h].next, status), keep)
    PROVE  Inv'
<1> DEFINE cn == connections[h]
           c == cn.client
           ask == [client |-> c, n |-> cn.next]
<1>1. /\ h \in Descriptors /\ cn \in Connection /\ c \in Clients /\ client[c] \in Client /\ c # None
      /\ Served(cn, client[c], asked) /\ client[c].stage = "linked" /\ Len(client[c].wire) <= SockRoom
      /\ asked \in Seq(Asked) /\ Len(asked) \in Nat /\ next_token = Len(asked) + 1
      /\ client \in [Clients -> Client]
      /\ awaiting \subseteq [token : Nat \ {0}, handle : Descriptors]
  BY OpenFacts DEF Inv, TypeInv
<1>2. ask \in Asked
  BY <1>1 DEF Asked, Connection
<1>3. /\ asked' \in Seq(Asked) /\ Len(asked') = Len(asked) + 1 /\ Later(asked, asked')
      /\ asked'[next_token] = ask /\ next_token' = Len(asked') + 1
      /\ next_token \in 1..Len(asked') /\ next_token # None
  <2>1. asked' = Append(asked, ask)
    OBVIOUS
  <2> HIDE DEF ask
  <2>2. /\ asked' \in Seq(Asked) /\ Len(asked') = Len(asked) + 1
        /\ \A i \in 1..Len(asked) : asked'[i] = asked[i]
        /\ asked'[Len(asked) + 1] = ask
    BY <1>1, <1>2, <2>1, AppendProperties
  <2> QED BY <1>1, <2>2 DEF Later, None
<1>4. CASE /\ connections' = [connections EXCEPT ![h] = Deferring(after, next_token, keep)]
           /\ awaiting' = awaiting \cup {[token |-> next_token, handle |-> h]}
           /\ UNCHANGED <<client, loop>> /\ loop.handle = h
  <2> DEFINE new == Deferring(after, next_token, keep)
  <2>1. next_token \in Nat \ {0}
    BY <1>1
  <2>2. /\ new \in Connection /\ new.client = c /\ new.next = cn.next + 1
        /\ new.awaiting = next_token /\ new.close_after_flush = cn.close_after_flush
        /\ new.output = cn.output
    BY <2>1, DeferringIs
  <2>3. connections' = [connections EXCEPT ![h] = new]
    BY <1>4
  <2> HIDE DEF new, ask
  <2>4. Served(new, client[c], asked')
    BY <1>1, <1>3, <2>2, DeferServed DEF ask
  <2>5. client' = [client EXCEPT ![new.client] = client[c]]
    BY <1>1, <1>4, <2>2
  <2>6. awaiting' \subseteq [token : Nat \ {0}, handle : Descriptors]
    BY <1>1, <1>4, <2>1
  <2>7. \A a \in awaiting' : IF a.handle = h THEN a.token = new.awaiting ELSE a \in awaiting
    <3> SUFFICES ASSUME NEW a \in awaiting', a.handle = h, a \in awaiting
                 PROVE  FALSE
      BY <1>4, <2>2
    <3> QED BY <1>1 DEF Inv, None
  <2>8. loop'.handle = h
    BY <1>4
  <2> QED BY <1>1, <1>3, <2>2, <2>3, <2>4, <2>5, <2>6, <2>7, <2>8, ReplaceKeeps
<1>5. ASSUME NEW status \in {"200", "503"}, queue_response(h, after, Answer(c, cn.next, status), keep)
      PROVE  Inv'
  <2> DEFINE a == Answer(c, cn.next, status)
             f == after.close_after_flush \/ ~keep
             o == Append(after.output, a)
             new == Answering(after, o, f)
  <2>1. \/ close_connection(h, "overflow")
        \/ /\ connections' = [connections EXCEPT ![h] = new]
           /\ loop' = [at |-> "parse", handle |-> h]
           /\ UNCHANGED <<client, awaiting>>
    BY <1>5 DEF queue_response, Answering
  <2>2. CASE close_connection(h, "overflow")
    <3>1. "overflow" \in Ends
      BY DEF Ends
    <3> QED BY <1>3, <2>2, <3>1, CloseKeeps
  <2>3. CASE /\ connections' = [connections EXCEPT ![h] = new]
             /\ loop' = [at |-> "parse", handle |-> h]
             /\ UNCHANGED <<client, awaiting>>
    <3>1. a \in Answers /\ after.output \in Seq(Answers)
      BY <1>1 DEF Answer, Answers, Connection
    <3>2. o \in Seq(Answers) /\ f \in BOOLEAN /\ o = Append(cn.output, a)
      BY <3>1, AppendProperties
    <3> HIDE DEF o, f, a
    <3>3. /\ new \in Connection /\ new.client = c /\ new.next = cn.next + 1
          /\ new.awaiting = None /\ new.output = Append(cn.output, a)
      BY <3>2, AnsweringIs
    <3> HIDE DEF new, ask
    <3>4. Served(new, client[c], asked')
      <4>1. /\ cn \in Connection /\ client[c] \in Client /\ cn.client \in Clients
            /\ Served(cn, client[c], asked) /\ cn.awaiting = None /\ ~cn.close_after_flush
        BY <1>1
      <4>2. /\ new.client = cn.client /\ new.next = cn.next + 1 /\ new.awaiting = None
            /\ new.output = Append(cn.output, Answer(cn.client, cn.next, status))
        BY <3>3 DEF a
      <4> HIDE DEF cn, c
      <4> QED BY <3>3, <4>1, <4>2, AnswerServed
    <3>5. client' = [client EXCEPT ![new.client] = client[c]]
      BY <1>1, <2>3, <3>3
    <3>6. \A b \in awaiting' : IF b.handle = h THEN b.token = new.awaiting ELSE b \in awaiting
      BY <2>3, <3>3 DEF Inv
    <3>7. awaiting' \subseteq [token : Nat \ {0}, handle : Descriptors] /\ loop'.handle = h
      BY <1>1, <2>3
    <3> QED BY <1>1, <1>3, <2>3, <3>3, <3>4, <3>5, <3>6, <3>7, ReplaceKeeps
  <2> QED BY <2>1, <2>2, <2>3
<1> QED BY <1>4, <1>5

(* It parses no request, or a bad one, or hands one to the handler. *)
LEMMA ParseKeeps == ASSUME Inv, Parse PROVE Inv'
<1> DEFINE h == loop.handle
           cn == connections[h]
           c == cn.client
           p == TryParse(cn)
           after == Parsed(cn, p)
           stops == cn.awaiting # None \/ cn.close_after_flush
           keep == Script[c][cn.next].keep
<1>1. h \in Open /\ loop.at = "parse" /\ ParseStep(dispatch)
  BY DEF Inv, TypeInv, Parse, ParseStep
<1>2. /\ cn \in Connection /\ c \in Clients /\ Served(cn, client[c], asked)
      /\ connections \in [Descriptors -> Connection] /\ cn.next \in Nat
  BY <1>1, OpenFacts DEF Inv, TypeInv, Connection
<1>3. /\ after \in Connection /\ after.client = c
      /\ after.next = IF p.verdict = "request" THEN cn.next + 1 ELSE cn.next
      /\ after.awaiting = cn.awaiting /\ after.close_after_flush = cn.close_after_flush
      /\ after.output = cn.output
  BY <1>2, ParsedIs
<1>4. \/ /\ stops \/ p.verdict = "more"
         /\ connections' = [connections EXCEPT ![h] = IF stops THEN cn ELSE after]
         /\ loop' = [at |-> "flush", handle |-> h]
         /\ UNCHANGED <<client, awaiting, next_token, asked>>
      \/ /\ ~stops /\ p.verdict = "bad"
         /\ connections' = [connections EXCEPT ![h] =
              [cn EXCEPT !.close_after_flush = TRUE,
                         !.output = IF Len(@) < MaxOutput THEN Append(@, Answer(c, cn.next, "400")) ELSE @]]
         /\ loop' = [at |-> "flush", handle |-> h]
         /\ UNCHANGED <<client, awaiting, next_token, asked>>
      \/ /\ ~stops /\ p.verdict = "request"
         /\ next_token' = next_token + 1
         /\ asked' = Append(asked, [client |-> c, n |-> cn.next])
         /\ \/ /\ connections' = [connections EXCEPT ![h] =
                    [after EXCEPT !.awaiting = next_token, !.awaiting_keep = keep]]
               /\ awaiting' = awaiting \cup {[token |-> next_token, handle |-> h]}
               /\ UNCHANGED <<client, loop>>
            \/ \E status \in {"200", "503"} :
                 queue_response(h, after, Answer(c, cn.next, status), keep)
  <2> HIDE DEF after
  <2> QED BY <1>1 DEF ParseStep, after
<1> HIDE DEF after, p
<1>5. CASE /\ stops \/ p.verdict = "more"
           /\ connections' = [connections EXCEPT ![h] = IF stops THEN cn ELSE after]
           /\ loop' = [at |-> "flush", handle |-> h]
           /\ UNCHANGED <<client, awaiting, next_token, asked>>
  <2> DEFINE new == IF stops THEN cn ELSE after
  <2>1. new \in Connection /\ Quiet(cn, new)
    BY <1>2, <1>3, <1>5 DEF Quiet
  <2>2. connections' = [connections EXCEPT ![h] = new] /\ loop'.handle = h
    BY <1>5
  <2> HIDE DEF new
  <2>3. Served(new, client[c], asked) /\ new.client = c /\ new.awaiting = cn.awaiting
    BY <1>2, <2>1, QuietServed DEF Quiet
  <2> QED BY <1>1, <1>5, <2>1, <2>2, <2>3, QuietKeeps
<1>6. CASE /\ ~stops /\ p.verdict = "bad"
           /\ connections' = [connections EXCEPT ![h] =
                [cn EXCEPT !.close_after_flush = TRUE,
                           !.output = IF Len(@) < MaxOutput THEN Append(@, Answer(c, cn.next, "400")) ELSE @]]
           /\ loop' = [at |-> "flush", handle |-> h]
           /\ UNCHANGED <<client, awaiting, next_token, asked>>
  <2>1. connections' = [connections EXCEPT ![h] =
               Refusing(cn, IF Len(cn.output) < MaxOutput
                              THEN Append(cn.output, Answer(cn.client, cn.next, "400")) ELSE cn.output)]
    BY <1>6 DEF Refusing
  <2>2. Quiet(cn, cn) /\ cn.awaiting = None /\ loop'.handle = h
    BY <1>6 DEF Quiet
  <2> QED BY <1>1, <1>2, <1>6, <2>1, <2>2, RefusesKeeps
<1>7. CASE /\ ~stops /\ p.verdict = "request"
           /\ next_token' = next_token + 1
           /\ asked' = Append(asked, [client |-> c, n |-> cn.next])
           /\ \/ /\ connections' = [connections EXCEPT ![h] =
                      [after EXCEPT !.awaiting = next_token, !.awaiting_keep = keep]]
                 /\ awaiting' = awaiting \cup {[token |-> next_token, handle |-> h]}
                 /\ UNCHANGED <<client, loop>>
              \/ \E status \in {"200", "503"} :
                   queue_response(h, after, Answer(c, cn.next, status), keep)
  <2>1. keep \in Keeps
    BY <1>2 DEF Keeps
  <2>2. [after EXCEPT !.awaiting = next_token, !.awaiting_keep = keep] = Deferring(after, next_token, keep)
    BY DEF Deferring
  <2>3. /\ cn.awaiting = None /\ ~cn.close_after_flush /\ after.next = cn.next + 1 /\ after.awaiting = None
    BY <1>3, <1>7
  <2>4. \/ /\ connections' = [connections EXCEPT ![h] = Deferring(after, next_token, keep)]
           /\ awaiting' = awaiting \cup {[token |-> next_token, handle |-> h]}
           /\ UNCHANGED <<client, loop>> /\ loop.handle = h
        \/ \E status \in {"200", "503"} :
             queue_response(h, after, Answer(c, cn.next, status), keep)
    BY <1>7, <2>2
  <2> HIDE DEF keep
  <2> QED BY <1>1, <1>3, <1>7, <2>1, <2>3, <2>4, RequestKeeps
<1> QED BY <1>4, <1>5, <1>6, <1>7

-----------------------------------------------------------------------------
(* flush_and_settle. *)

Interest(cn, o, g, r, w) == [cn EXCEPT !.output = o, !.registered = g, !.reads = r, !.writes = w]

(* The connection whose output is o, with its interest up to date. *)
LEMMA InterestIs ==
    ASSUME NEW cn \in Connection, NEW o \in Seq(Answers)
    PROVE  LET new == update_interest([cn EXCEPT !.output = o]) IN
           /\ new \in Connection /\ new.client = cn.client /\ new.next = cn.next
           /\ new.awaiting = cn.awaiting /\ new.close_after_flush = cn.close_after_flush
           /\ new.output = o
<1> DEFINE cm == [cn EXCEPT !.output = o]
           f == ~cm.peer_closed
           g == cm.output # <<>>
<1>1. /\ cm \in Connection /\ cm.client = cn.client /\ cm.next = cn.next
      /\ cm.awaiting = cn.awaiting /\ cm.close_after_flush = cn.close_after_flush
      /\ cm.output = o
  BY DEF Connection
<1>2. f \in BOOLEAN /\ g \in BOOLEAN
  OBVIOUS
<1>3. \/ update_interest(cm) = [cm EXCEPT !.registered = FALSE]
      \/ update_interest(cm) = [cm EXCEPT !.registered = TRUE, !.reads = f, !.writes = g]
  BY DEF update_interest
<1> HIDE DEF cm, f, g
<1>4. /\ [cm EXCEPT !.registered = FALSE] \in Connection
      /\ [cm EXCEPT !.registered = TRUE, !.reads = f, !.writes = g] \in Connection
  BY <1>1, <1>2 DEF Connection
<1>5. /\ Quiet(cm, [cm EXCEPT !.registered = FALSE])
      /\ Quiet(cm, [cm EXCEPT !.registered = TRUE, !.reads = f, !.writes = g])
  BY <1>1 DEF Connection, Quiet
<1>6. update_interest(cm) \in Connection /\ Quiet(cm, update_interest(cm))
  BY <1>3, <1>4, <1>5
<1> QED BY <1>1, <1>6 DEF Quiet, cm

(* How much of n answers the kernel takes. *)
LEMMA MinOfTwo ==
    ASSUME NEW m \in Int, NEW n \in Int
    PROVE  Min({m, n}) \in {m, n} /\ Min({m, n}) <= m /\ Min({m, n}) <= n
<1>1. \E x \in {m, n} : \A y \in {m, n} : x <= y
  OBVIOUS
<1> QED BY <1>1 DEF Min

Sent(cl, w, s, e) == [cl EXCEPT !.wire = w, !.stage = s, !.ended = e]

(* The client of a connection that has sent. *)
LEMMA SentIs ==
    ASSUME NEW cl \in Client, NEW w \in Seq(Answers), NEW s \in {cl.stage, "closed"},
           NEW e \in {cl.ended, "done"}
    PROVE  LET new == Sent(cl, w, s, e) IN
           new \in Client /\ new.got = cl.got /\ new.wire = w /\ new.stage = s
<1>1. s \in {"away", "dialing", "linked", "closed"} /\ e \in Ends
  BY DEF Client, Ends
<1> QED BY <1>1 DEF Sent, Client

(* What the kernel takes goes to the client, and a connection that is done is closed. *)
LEMMA FlushKeeps == ASSUME Inv, FlushStep PROVE Inv'
<1> DEFINE h == loop.handle
           cn == connections[h]
           c == cn.client
           cl == client[c]
           wire == cl.wire
           n == Min({Len(cn.output), SockRoom - Len(wire)})
           left == SubSeq(cn.output, n + 1, Len(cn.output))
           full == wire \o SubSeq(cn.output, 1, n)
           settled == /\ cn.close_after_flush \/ cn.peer_closed
                      /\ cn.awaiting = None /\ left = <<>>
           new == update_interest([cn EXCEPT !.output = left])
           sent == Sent(cl, full, IF settled THEN "closed" ELSE cl.stage, IF settled THEN "done" ELSE cl.ended)
<1>1. h \in Open /\ loop' = Idle /\ UNCHANGED <<next_token, asked>>
  BY DEF Inv, TypeInv, FlushStep
<1>2. /\ h \in Descriptors /\ cn \in Connection /\ c \in Clients /\ cl \in Client
      /\ cl.stage = "linked" /\ Len(cl.wire) <= SockRoom /\ Served(cn, cl, asked)
      /\ asked' \in Seq(Asked) /\ next_token' = Len(asked') + 1 /\ Later(asked, asked')
      /\ client \in [Clients -> Client]
      /\ awaiting \subseteq [token : Nat \ {0}, handle : Descriptors]
  BY <1>1, OpenFacts DEF Inv, TypeInv
<1>3. /\ cn.output \in Seq(Answers) /\ wire \in Seq(Answers) /\ cl.got \in Seq(Answers)
      /\ Len(cn.output) \in Nat /\ Len(wire) \in Nat /\ SockRoom \in Nat
  BY <1>2, HttpAssumption, LenProperties DEF Connection, Client, HttpAssumption
<1>4. n \in 0..Len(cn.output) /\ n <= SockRoom - Len(wire)
  <2>1. SockRoom - Len(wire) \in Int /\ Len(cn.output) \in Int
    BY <1>3
  <2>2. n \in {Len(cn.output), SockRoom - Len(wire)} /\ n <= Len(cn.output) /\ n <= SockRoom - Len(wire)
    BY <2>1, MinOfTwo
  <2> HIDE DEF n
  <2>3. n >= 0
    BY <1>2, <1>3, <2>2
  <2> QED BY <2>1, <2>2, <2>3
<1> HIDE DEF n
<1>5. /\ full \in Seq(Answers) /\ left \in Seq(Answers)
      /\ Len(full) = Len(wire) + n
      /\ (cl.got \o full) \o left = (cl.got \o wire) \o cn.output
  <2> DEFINE g == cl.got
             o == cn.output
  <2>1. g \in Seq(Answers) /\ wire \in Seq(Answers) /\ o \in Seq(Answers) /\ n \in 0..Len(o)
    BY <1>3, <1>4
  <2> HIDE DEF wire, g, o
  <2>2. SendIs(g, wire, o, n, wire \o SubSeq(o, 1, n), SubSeq(o, n + 1, Len(o)))
    BY <2>1, FlowSend
  <2>3. SendIs(g, wire, o, n, full, left)
    BY <2>2 DEF o
  <2> HIDE DEF full, left
  <2> QED BY <2>3 DEF SendIs, g, o
<1>5a. Len(full) = Len(wire) + n
  BY <1>5
<1>6. Len(full) <= SockRoom
  <2> HIDE DEF full, wire
  <2>1. n \in Int
    BY <1>4
  <2>2. Len(wire) \in Nat /\ SockRoom \in Nat /\ n <= SockRoom - Len(wire)
    BY <1>3, <1>4
  <2> QED BY <1>5a, <2>1, <2>2
<1>7. \/ close_connection(h, "broken")
      \/ /\ connections' = [connections EXCEPT ![h] = IF settled THEN Free ELSE new]
         /\ client' = [client EXCEPT ![c] = sent]
         /\ UNCHANGED awaiting
  <2>1. \/ close_connection(h, "broken")
        \/ /\ connections' = [connections EXCEPT ![h] = IF settled THEN Free ELSE new]
           /\ client' = [client EXCEPT ![c].wire = full,
                                       ![c].stage = IF settled THEN "closed" ELSE @,
                                       ![c].ended = IF settled THEN "done" ELSE @]
           /\ UNCHANGED awaiting
    BY DEF FlushStep, n
  <2> HIDE DEF full, settled, new, cn, c
  <2> QED BY <1>2, <2>1 DEF Sent
<1> HIDE DEF full, left
<1>8. CASE close_connection(h, "broken")
  <2>1. "broken" \in Ends
    BY DEF Ends
  <2> QED BY <1>1, <1>2, <1>8, <2>1, CloseKeeps
<1>9. CASE /\ connections' = [connections EXCEPT ![h] = IF settled THEN Free ELSE new]
           /\ client' = [client EXCEPT ![c] = sent]
           /\ UNCHANGED awaiting
  <2>1. /\ sent \in Client /\ sent.got = cl.got /\ sent.wire = full
        /\ sent.stage = IF settled THEN "closed" ELSE cl.stage
    <3> HIDE DEF settled, cl
    <3> QED BY <1>2, <1>5, SentIs
  <2> HIDE DEF sent
  <2>2. CASE settled
    <3>1. Good(sent.got \o sent.wire, c)
      <4>1. Good((cl.got \o full) \o left, c)
        BY <1>2, <1>5 DEF Served, Flow
      <4>2. cl.got \o full \in Seq(Answers)
        BY <1>3, <1>5, Assoc
      <4> QED BY <1>5, <2>1, <4>1, <4>2, GoodPart
    <3>2. \A a \in awaiting' : a.handle # h
      <4> SUFFICES ASSUME NEW a \in awaiting, a.handle = h PROVE FALSE
        BY <1>9
      <4>1. cn.awaiting = a.token /\ a.token \in Nat \ {0}
        BY <1>2 DEF Inv
      <4> QED BY <2>2, <4>1 DEF None
    <3>3. sent.stage = "closed" /\ Len(sent.wire) <= SockRoom /\ awaiting' \subseteq awaiting
      BY <1>6, <1>9, <2>1, <2>2
    <3>4. connections' = [connections EXCEPT ![h] = Free] /\ client' = [client EXCEPT ![connections[h].client] = sent]
      BY <1>9, <2>2
    <3> HIDE DEF settled, new
    <3> QED BY <1>1, <1>2, <2>1, <3>1, <3>2, <3>3, <3>4, GoneKeeps
  <2>3. CASE ~settled
    <3>1. /\ new \in Connection /\ new.client = c /\ new.next = cn.next
          /\ new.awaiting = cn.awaiting /\ new.close_after_flush = cn.close_after_flush
          /\ new.output = left
      BY <1>2, <1>5, InterestIs
    <3>2. connections' = [connections EXCEPT ![h] = new] /\ client' = [client EXCEPT ![new.client] = sent]
      BY <1>9, <2>3, <3>1
    <3>3. sent.stage = "linked" /\ Len(sent.wire) <= SockRoom
      BY <1>2, <1>6, <2>1, <2>3
    <3> HIDE DEF settled, new
    <3>4. Flow(sent, new) = Flow(cl, cn)
      BY <1>5, <2>1, <3>1 DEF Flow
    <3>5. Served(new, sent, asked')
      BY <1>1, <1>2, <3>1, <3>4 DEF Served
    <3>6. /\ awaiting' \subseteq [token : Nat \ {0}, handle : Descriptors]
          /\ \A a \in awaiting' : IF a.handle = h THEN a.token = new.awaiting ELSE a \in awaiting
      BY <1>2, <1>9, <3>1 DEF Inv
    <3>7. loop'.at \in {"parse", "flush"} => loop'.handle = h
      BY <1>1 DEF Idle
    <3> QED BY <1>1, <1>2, <2>1, <3>1, <3>2, <3>3, <3>5, <3>6, <3>7, ReplaceKeeps
  <2> QED BY <2>2, <2>3
<1> QED BY <1>7, <1>8, <1>9

(* complete. *)
Completing(cn, o, f) == [cn EXCEPT !.awaiting = None, !.close_after_flush = f, !.output = o]

(* The connection of a token is answered. *)
LEMMA CompletingIs ==
    ASSUME NEW cn \in Connection, NEW o \in Seq(Answers), NEW f \in BOOLEAN
    PROVE  LET new == Completing(cn, o, f) IN
           /\ new \in Connection /\ new.client = cn.client /\ new.next = cn.next
           /\ new.awaiting = None /\ new.output = o
<1>1. None \in Nat
  BY DEF None
<1> QED BY <1>1 DEF Completing, Connection

(* The answer goes to the connection that waits for the token, or to nobody. *)
LEMMA CompleteKeeps == ASSUME Inv, NEW token, complete(token) PROVE Inv'
<1>1. CASE /\ \A a \in awaiting : a.token # token
           /\ UNCHANGED http
  BY <1>1 DEF http, Inv, TypeInv, Open
<1>2. CASE \E a \in awaiting : a.token = token
  <2> DEFINE b == CHOOSE a \in awaiting : a.token = token
             h == b.handle
             cn == connections[h]
             c == cn.client
             cl == client[c]
             o == Append(cn.output, Answer(asked[token].client, asked[token].n, "200"))
             f == cn.close_after_flush \/ ~cn.awaiting_keep
             new == Completing(cn, o, f)
  <2>1. b \in awaiting /\ b.token = token
    BY <1>2
  <2>2. h \in Descriptors /\ token \in Nat \ {0} /\ cn.awaiting = token
    BY <2>1 DEF Inv, TypeInv
  <2>3. c # None /\ h \in Open
    BY <2>2 DEF Inv, Open, None
  <2>4. \/ close_connection(h, "overflow") /\ UNCHANGED <<next_token, asked>>
        \/ /\ awaiting' = {a \in awaiting : a.token # token}
           /\ connections' = [connections EXCEPT ![h] = new]
           /\ loop' = [at |-> "parse", handle |-> h]
           /\ UNCHANGED <<client, next_token, asked>>
    BY <1>2, <2>3 DEF complete, Completing
  <2> HIDE DEF b
  <2>5. /\ cn \in Connection /\ c \in Clients /\ cl \in Client
        /\ cl.stage = "linked" /\ Len(cl.wire) <= SockRoom /\ Served(cn, cl, asked)
        /\ asked \in Seq(Asked) /\ next_token = Len(asked) + 1 /\ Later(asked, asked)
        /\ client \in [Clients -> Client]
        /\ awaiting \subseteq [token : Nat \ {0}, handle : Descriptors]
    BY <2>3, OpenFacts DEF Inv, TypeInv
  <2>6. CASE close_connection(h, "overflow") /\ UNCHANGED <<next_token, asked>>
    <3>1. "overflow" \in Ends
      BY DEF Ends
    <3>2. asked' \in Seq(Asked) /\ next_token' = Len(asked') + 1 /\ Later(asked, asked')
      BY <2>5, <2>6
    <3> QED BY <2>3, <2>6, <3>1, <3>2, CloseKeeps
  <2>7. CASE /\ awaiting' = {a \in awaiting : a.token # token}
             /\ connections' = [connections EXCEPT ![h] = new]
             /\ loop' = [at |-> "parse", handle |-> h]
             /\ UNCHANGED <<client, next_token, asked>>
    <3>1. o \in Seq(Answers)
      <4>1. cn.awaiting # None
        BY <2>2 DEF None
      <4>2. cn.awaiting \in 1..Len(asked)
        BY <2>5, <4>1 DEF Served
      <4>3. asked[token] \in Asked
        BY <2>2, <2>5, <4>2, ElementOfSeq
      <4>4. Answer(asked[token].client, asked[token].n, "200") \in Answers
        BY <4>3 DEF Answer, Answers, Asked
      <4>5. cn.output \in Seq(Answers)
        BY <2>5 DEF Connection
      <4> QED BY <4>4, <4>5, AppendProperties
    <3>2. f \in BOOLEAN
      OBVIOUS
    <3> HIDE DEF o, f
    <3>3. /\ new \in Connection /\ new.client = c /\ new.next = cn.next
          /\ new.awaiting = None /\ new.output = o
      BY <2>5, <3>1, <3>2, CompletingIs
    <3> HIDE DEF new
    <3>4. Served(new, cl, asked)
      <4>1. cn.awaiting # None
        BY <2>2 DEF None
      <4>2. new.output = Append(cn.output, Answer(asked[cn.awaiting].client, asked[cn.awaiting].n, "200"))
        BY <2>2, <3>3 DEF o
      <4>3. cn.client \in Clients /\ new.client = cn.client
        BY <2>5, <3>3
      <4> HIDE DEF cn
      <4> QED BY <2>5, <3>3, <4>1, <4>2, <4>3, CompleteServed
    <3>5. client' = [client EXCEPT ![new.client] = cl]
      BY <2>5, <2>7, <3>3
    <3>6. /\ awaiting' \subseteq [token : Nat \ {0}, handle : Descriptors]
          /\ \A a \in awaiting' : IF a.handle = h THEN a.token = new.awaiting ELSE a \in awaiting
      <4>1. awaiting' \subseteq awaiting
        BY <2>7
      <4>2. ASSUME NEW a \in awaiting', a.handle = h PROVE FALSE
        BY <2>2, <2>7, <4>2 DEF Inv
      <4> QED BY <2>5, <4>1, <4>2
    <3>7. /\ loop'.handle = h /\ asked' \in Seq(Asked) /\ next_token' = Len(asked') + 1
          /\ Later(asked, asked') /\ Served(new, cl, asked')
      BY <2>5, <2>7, <3>4
    <3>8. connections' = [connections EXCEPT ![h] = new] /\ new.client = connections[h].client
      BY <2>7, <3>3
    <3> QED BY <2>3, <2>5, <3>3, <3>5, <3>6, <3>7, <3>8, ReplaceKeeps
  <2> QED BY <2>4, <2>6, <2>7
<1> QED BY <1>1, <1>2 DEF complete

-----------------------------------------------------------------------------
(* Inv holds at the start, *)
LEMMA InitInv == Init => Inv
<1> SUFFICES ASSUME Init PROVE Inv
  OBVIOUS
<1>1. /\ client = [c \in Clients |-> NewClient] /\ connections = [h \in Descriptors |-> Free]
      /\ awaiting = {} /\ next_token = 1 /\ loop = Idle /\ asked = <<>>
  BY DEF Init, HttpInit
<1>2. /\ <<>> \in Seq(Answers) /\ <<>> \in Seq(Asked) /\ Len(<<>>) = 0 /\ <<>> \o <<>> = <<>>
      /\ SockRoom \in Nat
  BY EmptySeq, ConcatEmptySeq, HttpAssumption DEF HttpAssumption
<1>3. NewClient \in Client /\ NewClient.got = <<>> /\ NewClient.wire = <<>>
  BY <1>2 DEF NewClient, Client, Ends
<1>4. \A c : Good(<<>>, c)
  BY <1>2 DEF Good, InOrder, Final
<1>5. Open = {}
  BY <1>1, FreeIsConnection DEF Open
<1>6. TypeInv
  BY <1>1, <1>2, <1>3, FreeIsConnection DEF TypeInv, Idle
<1>7. \A h \in Descriptors : connections[h].client = None => connections[h].awaiting = None
  BY <1>1, FreeIsConnection
<1>8. \A c \in Clients : client[c] = NewClient
  BY <1>1
<1>9. \A c \in Clients :
         /\ Good(client[c].got \o client[c].wire, c)
         /\ client[c].stage \in {"away", "dialing"} => client[c].got = <<>> /\ client[c].wire = <<>>
         /\ Len(client[c].wire) <= SockRoom
  <2> TAKE c \in Clients
  <2>1. client[c].got = <<>> /\ client[c].wire = <<>> /\ 0 <= SockRoom
    BY <1>2, <1>3, <1>8
  <2> QED BY <1>2, <1>4, <2>1
<1> QED BY <1>1, <1>5, <1>6, <1>7, <1>9 DEF Inv

(* every step keeps it, *)
LEMMA NextInv == Inv /\ [Next]_vars => Inv'
<1> SUFFICES ASSUME Inv, [Next]_vars PROVE Inv'
  OBVIOUS
<1>0. CASE UNCHANGED http
  BY <1>0 DEF http, Inv, TypeInv, Open
<1>1. CASE ClientStep
  BY <1>1, ClientStepKeeps
<1>2. CASE Expire
  BY <1>2, ExpireKeeps DEF Expire
<1>3. CASE Parse
  BY <1>3, ParseKeeps
<1>4. CASE Flush
  BY <1>4, FlushKeeps DEF Flush
<1>5. CASE Drain
  BY <1>5, CompleteKeeps DEF Drain
<1>6. CASE TakeJob \/ FinishJob
  BY <1>0, <1>6 DEF TakeJob, FinishJob
<1>7. CASE \E c \in Clients : ClientReads(c) \/ Accepts(c)
  BY <1>7, ReadsKeeps, AcceptKeeps DEF ClientReads, Accepts
<1>8. CASE \E h \in Descriptors : Serves(h)
  BY <1>8, ServesKeeps DEF Serves
<1>9. CASE UNCHANGED vars
  BY <1>0, <1>9 DEF vars
<1> QED BY <1>1, <1>2, <1>3, <1>4, <1>5, <1>6, <1>7, <1>8, <1>9 DEF Next

(* OwnAnswers: a client of the HTTP server gets the answers to its own      *)
(* requests in their order, then nothing but refusals, whatever is          *)
(* pipelined, deferred, closed or expired and whoever gets the descriptor.  *)
THEOREM AnswersAreOwn == Spec => []OwnAnswers
<1>1. Inv => OwnAnswers
  <2> SUFFICES ASSUME Inv, NEW c \in Clients
               PROVE  InOrder(client[c].got, c) /\ Final(client[c].got)
    BY DEF OwnAnswers, Final
  <2>1. client[c].got \in Seq(Answers) /\ client[c].wire \in Seq(Answers)
        /\ Good(client[c].got \o client[c].wire, c)
    BY DEF Inv, TypeInv, Client
  <2> QED BY <2>1, GoodPart DEF Good
<1> QED BY <1>1, InitInv, NextInv, PTL DEF Spec

-----------------------------------------------------------------------------
(* QueueScheduler.                                                         *)

(* A set of natural numbers below a bound has a greatest element.  Prune   *)
(* uses it to find how many leading batches are over.                      *)
LEMMA GreatestBelow ==
    ASSUME NEW n \in Nat, NEW S \in SUBSET (0..n), 0 \in S
    PROVE  \E k \in S : \A j \in S : j <= k
<1> DEFINE T == { m \in 0..n : n - m \in S }
<1>1. n \in T
  OBVIOUS
<1>2. T \subseteq Nat /\ T # {}
  BY <1>1
<1> DEFINE R == { p \in Nat \X Nat : p[1] < p[2] }
<1>0. IsWellFoundedOn(R, Nat)
  BY NatLessThanWellFounded, Zenon DEF OpToRel
<1> HIDE DEF R, T
<1>3. PICK x \in T : \A y \in T : ~(<<y, x>> \in R)
  BY <1>0, <1>2, WFMin
<1> USE DEF T
<1>4. \A y \in T : x <= y
  <2>1. SUFFICES ASSUME NEW y \in T, y < x PROVE FALSE
    BY <1>2
  <2>2. <<y, x>> \in R
    BY <2>1, <1>2 DEF R
  <2>3. QED BY <2>2, <1>3
<1>5. \A j \in S : j <= n - x
  <2>1. SUFFICES ASSUME NEW j \in S PROVE j <= n - x
    OBVIOUS
  <2>2. n - j \in T
    OBVIOUS
  <2>3. QED BY <2>2, <1>4
<1>6. n - x \in S
  OBVIOUS
<1>7. QED BY <1>5, <1>6

(* The least of three natural numbers, as release_batch takes it. *)
LEMMA MinOfThree ==
    ASSUME NEW a \in Int, NEW b \in Int, NEW c \in Int
    PROVE  /\ Min({a, b, c}) \in {a, b, c}
           /\ Min({a, b, c}) <= a
           /\ Min({a, b, c}) <= b
           /\ Min({a, b, c}) <= c
<1>1. \E x \in {a, b, c} : \A y \in {a, b, c} : x <= y
  OBVIOUS
<1>2. Min({a, b, c}) \in {a, b, c} /\ \A y \in {a, b, c} : Min({a, b, c}) <= y
  BY <1>1 DEF Min
<1>3. QED BY <1>2

-----------------------------------------------------------------------------
(* The release ledger.                                                     *)

(* No batch of s was released after t. *)
ReleasedBy(s, t) == \A k \in 1..Len(s.batches) : s.batches[k].at <= t

(* Prune drops a prefix of the batches and moves the pruned mark to the    *)
(* end of what it dropped; the watermarks stay.                            *)
LEMMA PruneShape ==
    ASSUME NEW s \in Snapshot, NEW now \in Int
    PROVE  \E n \in 0..Len(s.batches) :
             Prune(s, now) =
               [released |-> s.released, next |-> s.next,
                pruned   |-> IF n = 0 THEN s.pruned ELSE s.batches[n].last,
                batches  |-> SubSeq(s.batches, n + 1, Len(s.batches))]
<1> DEFINE over == { k \in 0..Len(s.batches) :
                       \A j \in 1..k : WindowOver(s.batches[j], now) }
           n == CHOOSE k \in over : \A j \in over : j <= k
<1>1. Len(s.batches) \in Nat
  BY DEF Snapshot
<1>2. \E k \in over : \A j \in over : j <= k
  <2>1. over \in SUBSET (0..Len(s.batches)) /\ 0 \in over
    BY <1>1
  <2>2. QED BY <2>1, <1>1, GreatestBelow
<1>3. n \in 0..Len(s.batches)
  <2>1. n \in over
    BY <1>2
  <2>2. QED BY <2>1
<1>4. QED BY <1>3 DEF Prune

(* Pruning keeps a snapshot well formed and valid. *)
LEMMA PruneKeeps ==
    ASSUME NEW s \in Snapshot, NEW now \in Int
    PROVE  /\ Prune(s, now) \in Snapshot
           /\ Prune(s, now).next = s.next
           /\ Prune(s, now).released = s.released
           /\ Valid(s) => Valid(Prune(s, now))
           /\ \A t \in Int : ReleasedBy(s, t) => ReleasedBy(Prune(s, now), t)
<1> DEFINE p == Prune(s, now)
           q == s.batches
<1>1. PICK n \in 0..Len(q) :
        p = [released |-> s.released, next |-> s.next,
             pruned   |-> IF n = 0 THEN s.pruned ELSE q[n].last,
             batches  |-> SubSeq(q, n + 1, Len(q))]
  BY PruneShape
<1>2. /\ q \in Seq(Batch)
      /\ Len(q) \in Nat
      /\ \A k \in 1..Len(q) : q[k] \in Batch
  BY DEF Snapshot
<1>3. /\ p.batches \in Seq(Batch)
      /\ Len(p.batches) = Len(q) - n
      /\ \A k \in 1..(Len(q) - n) : p.batches[k] = q[n + k]
  BY <1>1, <1>2, SubSeqProperties
<1>4. p.pruned \in Nat
  <2>1. s.pruned \in Nat
    BY DEF Snapshot
  <2>2. ASSUME n # 0 PROVE q[n].last \in Nat
    <3>1. n \in 1..Len(q)
      BY <1>2, <2>2
    <3>2. q[n] \in Batch
      BY <1>2, <3>1
    <3> QED BY <3>2 DEF Batch
  <2> QED BY <1>1, <2>1, <2>2
<1>5. p \in Snapshot /\ p.next = s.next /\ p.released = s.released
  BY <1>1, <1>3, <1>4 DEF Snapshot
<1>6. ASSUME Valid(s) PROVE Valid(p)
  <2>1. \A k \in 1..Len(q) :
           /\ q[k].first = IF k = 1 THEN s.pruned + 1 ELSE q[k-1].last + 1
           /\ q[k].first <= q[k].last
           /\ q[k].last <= s.released
           /\ k > 1 => q[k-1].at <= q[k].at
    BY <1>6 DEF Valid
  <2>2. p.released < p.next /\ p.pruned <= p.released
    BY <1>1, <1>2, <1>6, <2>1 DEF Valid
  <2>3. ASSUME NEW k \in 1..Len(p.batches)
        PROVE  LET b == p.batches[k] IN
               /\ b.first = IF k = 1 THEN p.pruned + 1 ELSE p.batches[k-1].last + 1
               /\ b.first <= b.last
               /\ b.last <= p.released
               /\ k > 1 => p.batches[k-1].at <= b.at
    <3>1. n + k \in 1..Len(q) /\ p.batches[k] = q[n + k]
      BY <1>3, <1>2, <2>3
    <3>2. CASE k = 1
      <4>1. p.pruned = IF n = 0 THEN s.pruned ELSE q[n].last
        BY <1>1
      <4>2. (n + k = 1) <=> (n = 0)
        BY <3>2
      <4>3. n # 0 => (n + k) - 1 = n
        BY <3>2
      <4>4. q[n+k].first = p.pruned + 1
        BY <2>1, <3>1, <4>1, <4>2, <4>3
      <4>5. QED BY <4>4, <1>5, <2>1, <3>1, <3>2
    <3>3. CASE k # 1
      <4>1. k - 1 \in 1..(Len(q) - n) /\ n + (k - 1) = (n + k) - 1 /\ n + k # 1 /\ n + k > 1
        BY <3>3, <1>3, <1>2
      <4>2. p.batches[k-1] = q[(n + k) - 1]
        BY <4>1, <1>3
      <4>3. QED BY <4>1, <4>2, <3>1, <3>3, <2>1, <1>5
    <3>4. QED BY <3>2, <3>3
  <2>4. p.released = IF p.batches = <<>> THEN p.pruned
                                         ELSE p.batches[Len(p.batches)].last
    <3>1. s.released = IF q = <<>> THEN s.pruned ELSE q[Len(q)].last
      BY <1>6 DEF Valid
    <3>2. CASE n = Len(q)
      <4>1. p.batches = <<>>
        BY <3>2, <1>3, <1>2, EmptySeq
      <4>2. p.pruned = IF n = 0 THEN s.pruned ELSE q[n].last
        BY <1>1
      <4>3. (n = 0) <=> (q = <<>>)
        BY <3>2, <1>2, EmptySeq
      <4>4. QED BY <4>1, <4>2, <4>3, <3>1, <3>2, <1>5
    <3>3. CASE n # Len(q)
      <4>1. Len(q) - n \in 1..(Len(q) - n) /\ n + (Len(q) - n) = Len(q) /\ Len(q) # 0
        BY <3>3, <1>2
      <4>2. p.batches[Len(p.batches)] = q[Len(q)]
        BY <4>1, <1>3
      <4>3. p.batches # <<>> /\ q # <<>>
        BY <4>1, <1>3, <1>2, EmptySeq
      <4>4. QED BY <4>2, <4>3, <3>1, <1>5
    <3>4. QED BY <3>2, <3>3
  <2>5. QED BY <2>2, <2>3, <2>4 DEF Valid
<1>7. ASSUME NEW t \in Int, ReleasedBy(s, t) PROVE ReleasedBy(p, t)
  <2>1. \A k \in 1..(Len(q) - n) : n + k \in 1..Len(q)
    BY <1>2
  <2>2. QED BY <2>1, <1>3, <1>7 DEF ReleasedBy
<1>8. QED BY <1>5, <1>6, <1>7

(* Appending the next batch at a time not before the last one keeps the    *)
(* ledger valid, and what the watermarks have in common with before.       *)
LEMMA WithBatchKeeps ==
    ASSUME NEW s \in Snapshot, NEW n \in Nat, NEW now \in Int
    PROVE  LET w == WithBatch(s, n, now) IN
           /\ w \in Snapshot
           /\ w.next = s.next
           /\ w.released = s.released + n
           /\ \A t \in Int : now <= t /\ ReleasedBy(s, t) => ReleasedBy(w, t)
           /\ ( /\ Valid(s)
                /\ n > 0
                /\ s.released + n < s.next
                /\ s.batches # <<>> => s.batches[Len(s.batches)].at <= now )
              => Valid(w)
<1> DEFINE w == WithBatch(s, n, now)
           q == s.batches
           b == [first |-> s.released + 1, last |-> s.released + n, at |-> now]
<1>1. q \in Seq(Batch) /\ Len(q) \in Nat /\ s.released \in Nat /\ s.next \in Nat /\ s.pruned \in Nat
      /\ \A k \in 1..Len(q) : q[k] \in Batch
  BY DEF Snapshot
<1>2. b \in Batch
  BY <1>1 DEF Batch
<1>3. w = [released |-> s.released + n, next |-> s.next, pruned |-> s.pruned,
           batches |-> Append(q, b)]
  BY DEF WithBatch
<1>4. /\ w.batches \in Seq(Batch)
      /\ Len(w.batches) = Len(q) + 1
      /\ w.batches[Len(q) + 1] = b
      /\ \A k \in 1..Len(q) : w.batches[k] = q[k]
  BY <1>1, <1>2, <1>3, AppendProperties
<1>5. w \in Snapshot /\ w.next = s.next /\ w.released = s.released + n /\ w.pruned = s.pruned
  BY <1>1, <1>3, <1>4 DEF Snapshot
<1>6. ASSUME NEW t \in Int, now <= t, ReleasedBy(s, t) PROVE ReleasedBy(w, t)
  <2>1. SUFFICES ASSUME NEW k \in 1..Len(w.batches)
                 PROVE  w.batches[k].at <= t
    BY DEF ReleasedBy
  <2>2. CASE k \in 1..Len(q)
    BY <2>2, <1>4, <1>6 DEF ReleasedBy
  <2>3. CASE k = Len(q) + 1
    BY <2>3, <1>4, <1>6
  <2>4. QED BY <2>1, <2>2, <2>3, <1>1, <1>4
<1>7. ASSUME Valid(s), n > 0, s.released + n < s.next,
             q # <<>> => q[Len(q)].at <= now
      PROVE  Valid(w)
  <2>1. /\ \A k \in 1..Len(q) :
             /\ q[k].first = IF k = 1 THEN s.pruned + 1 ELSE q[k-1].last + 1
             /\ q[k].first <= q[k].last
             /\ q[k].last <= s.released
             /\ k > 1 => q[k-1].at <= q[k].at
        /\ s.released = IF q = <<>> THEN s.pruned ELSE q[Len(q)].last
        /\ s.pruned <= s.released
    BY <1>7 DEF Valid
  <2>2. q = <<>> <=> Len(q) = 0
    BY <1>1, EmptySeq
  <2>3. ASSUME NEW k \in 1..Len(w.batches)
        PROVE  LET c == w.batches[k] IN
               /\ c.first = IF k = 1 THEN w.pruned + 1 ELSE w.batches[k-1].last + 1
               /\ c.first <= c.last
               /\ c.last <= w.released
               /\ k > 1 => w.batches[k-1].at <= c.at
    <3>1. CASE k \in 1..Len(q)
      <4>1. k # 1 => k - 1 \in 1..Len(q)
        BY <3>1, <1>1
      <4>2. w.batches[k] = q[k] /\ (k # 1 => w.batches[k-1] = q[k-1])
        BY <3>1, <4>1, <1>4
      <4>3. q[k].last <= w.released
        <5>1. q[k].last \in Nat /\ q[k].last <= s.released
          BY <3>1, <2>1, <1>1 DEF Batch
        <5>2. w.released = s.released + n
          BY <1>5
        <5> HIDE DEF w, q
        <5>3. QED BY <5>1, <5>2, <1>1
      <4>4. QED BY <3>1, <4>2, <4>3, <2>1, <1>5
    <3>2. CASE k = Len(q) + 1
      <4>1. w.batches[k] = b
        BY <3>2, <1>4
      <4>2. CASE Len(q) = 0
        BY <3>2, <4>1, <4>2, <2>1, <2>2, <1>1, <1>5, <1>7
      <4>3. CASE Len(q) # 0
        <5>1. Len(q) \in 1..Len(q) /\ k - 1 = Len(q) /\ k # 1
          BY <4>3, <3>2, <1>1
        <5>2. w.batches[k-1] = q[Len(q)]
          BY <5>1, <1>4
        <5>3. q[Len(q)].last = s.released /\ q[Len(q)].at <= now
          BY <4>3, <2>1, <2>2, <1>7
        <5>4. QED BY <5>1, <5>2, <5>3, <4>1, <1>1, <1>5, <1>7
      <4>4. QED BY <4>2, <4>3
    <3>3. QED BY <3>1, <3>2, <1>4, <1>1
  <2>4. w.batches # <<>> /\ w.batches[Len(w.batches)].last = w.released
    BY <1>4, <1>1, <1>5, EmptySeq
  <2>5. QED BY <2>3, <2>4, <2>1, <1>1, <1>5, <1>7 DEF Valid
<1>8. QED BY <1>5, <1>6, <1>7

-----------------------------------------------------------------------------
(* Type correctness.                                                       *)

(* An issuance lease never ends before the identity does. *)
LEMMA BucketCoversExpiry ==
    ASSUME NEW i \in Identities
    PROVE  Bucket(i) \in Nat /\ Bucket(i) >= IdentityExpiry[i]
<1> DEFINE x == IdentityExpiry[i]
           L == LeaseBucket
           d == (x + L - 1) \div L
<1>1. x \in Nat /\ L \in Nat /\ L > 0
  BY ConstantsAssumption
<1> HIDE DEF x, L
<1>2. d \in Nat /\ d * L <= x + L - 1 /\ x + L - 1 < d * L + L
  BY <1>1, SMTT(30)
<1> HIDE DEF d
<1>3. d * L \in Nat
  BY <1>1, <1>2
<1> DEFINE m == d * L
<1>4. m \in Nat /\ x + L - 1 < m + L
  BY <1>2, <1>3
<1> HIDE DEF m
<1>5. m >= x
  BY <1>1, <1>4
<1>6. QED BY <1>4, <1>5 DEF Bucket, m, d, x, L

LEMMA SizeOfBatch ==
    ASSUME TypeOK
    PROVE  /\ Wall \in Int
           /\ BatchSize \in Int
           /\ BatchSize <= core.next - 1 - core.released
<1>1. allowance \in Int /\ ReleaseStep \in Int /\ core.next \in Nat /\ core.released \in Nat
  BY ConstantsAssumption DEF TypeOK, SnapshotType, Snapshot
<1>2. Wall \in Int
  BY ConstantsAssumption DEF TypeOK, Wall
<1> DEFINE m == core.next - 1 - core.released
<1>3. m \in Int
  BY <1>1
<1>4. BatchSize = Min({allowance, ReleaseStep, m})
  BY DEF BatchSize
<1> HIDE DEF m
<1>5. BatchSize \in Int /\ BatchSize <= m
  BY <1>1, <1>3, <1>4, MinOfThree
<1>6. QED BY <1>2, <1>5 DEF m

LEMMA PrunedType ==
    ASSUME NEW s, SnapshotType(s), NEW now \in Int
    PROVE  SnapshotType(Prune(s, now))
BY PruneKeeps DEF SnapshotType

LEMMA ReleasedType ==
    ASSUME TypeOK, BatchSize > 0
    PROVE  SnapshotType(Released)
<1> DEFINE w == WithBatch(core, BatchSize, Wall)
<1>1. Wall \in Int /\ BatchSize \in Nat /\ BatchSize <= core.next - 1 - core.released
  BY SizeOfBatch
<1>2. core \in Snapshot /\ core.next \in Nat /\ core.released \in Nat /\ core.next <= MaxNumber
  BY DEF TypeOK, SnapshotType, Snapshot
<1>3. w \in Snapshot /\ w.next = core.next /\ w.released = core.released + BatchSize
  BY <1>1, <1>2, WithBatchKeeps
<1>4. SnapshotType(w)
  BY <1>1, <1>2, <1>3, ConstantsAssumption DEF SnapshotType
<1>5. QED BY <1>1, <1>4, PrunedType DEF Released

LEMMA CommittedType ==
    ASSUME TypeOK, core.next # MaxNumber
    PROVE  /\ SnapshotType(Committed)
           /\ Committed = [released |-> core.released, next |-> core.next + 1,
                           pruned |-> core.pruned, batches |-> core.batches]
<1>1. core \in Snapshot /\ core.next <= MaxNumber /\ core.released <= MaxNumber
  BY DEF TypeOK, SnapshotType
<1>2. Committed = [released |-> core.released, next |-> core.next + 1,
                   pruned |-> core.pruned, batches |-> core.batches]
  BY <1>1 DEF Snapshot, Committed
<1>3. Committed \in Snapshot /\ Committed.next = core.next + 1
      /\ Committed.released = core.released
  BY <1>1, <1>2 DEF Snapshot
<1>4. core.next \in Nat
  BY <1>1 DEF Snapshot
<1>5. QED BY <1>1, <1>2, <1>3, <1>4, ConstantsAssumption DEF SnapshotType

LEMMA LeaseType ==
    ASSUME TypeOK, NEW i \in Identities
    PROVE  /\ \A b \in DOMAIN LeasesWith(i) : b \in Nat /\ LeasesWith(i)[b] \in Nat
           /\ core.next \in Nat => NewMapping(i) \in Mapping
<1>1. Bucket(i) \in Nat /\ drift \in Nat /\ Wall \in Int
  BY BucketCoversExpiry, SizeOfBatch, ConstantsAssumption DEF TypeOK
<1>2. \A b \in CachedBuckets : b \in DOMAIN leases /\ b \in Nat /\ leases[b] \in Nat
  BY DEF TypeOK, CachedBuckets
<1>3. DOMAIN LeasesWith(i) = CachedBuckets \cup {Bucket(i)}
  BY DEF LeasesWith
<1>4. \A b \in DOMAIN LeasesWith(i) : b \in Nat /\ LeasesWith(i)[b] \in Nat
  BY <1>1, <1>2, <1>3 DEF LeasesWith
<1>5. LeasesWith(i)[Bucket(i)] \in Nat
  BY <1>3, <1>4
<1>6. QED BY <1>1, <1>4, <1>5 DEF NewMapping, Mapping

LEMMA InitTypeOK == QueueInit => TypeOK
<1> SUFFICES ASSUME QueueInit PROVE TypeOK
  OBVIOUS
<1>1. SnapshotType(EmptyCore) /\ SnapshotType(NoSnapshot)
  BY ConstantsAssumption, EmptySeq DEF SnapshotType, EmptyCore, NoSnapshot, Snapshot
<1>2. issuance \in [Identities -> Mapping]
  BY DEF QueueInit, NoMapping, Mapping
<1>3. up \in BOOLEAN /\ uncertain \in BOOLEAN
  BY Zenon DEF QueueInit
<1>4. \A b \in DOMAIN leases : b \in Nat /\ leases[b] \in Nat
  BY DEF QueueInit, NoLeases
<1>5. /\ clock \in 0..MaxTime /\ drift \in 0..MaxStepBack
      /\ allowance \in 0..MaxAllowance /\ progress \in Nat
  BY ConstantsAssumption DEF QueueInit
<1>6. QED BY <1>1, <1>2, <1>3, <1>4, <1>5 DEF QueueInit, TypeOK

(* Each action keeps TypeOK; the actions that touch only typed inputs are   *)
(* taken together at the end.                                              *)
LEMMA NextTypeOK == TypeOK /\ [QueueNext]_queueVars => TypeOK'
<1> SUFFICES ASSUME TypeOK, [QueueNext]_queueVars PROVE TypeOK'
  OBVIOUS
<1> USE ConstantsAssumption
<1>0. /\ Wall \in Int /\ core.next \in Nat
      /\ SnapshotType(core) /\ SnapshotType(snap)
      /\ SnapshotType(EmptyCore)
      /\ NoMapping \in Mapping
  <2>1. SnapshotType(EmptyCore)
    BY EmptySeq DEF SnapshotType, EmptyCore, Snapshot
  <2>2. QED BY <2>1, SizeOfBatch DEF TypeOK, SnapshotType, Snapshot, NoMapping, Mapping
<1>1. ASSUME NEW i \in Identities, IssueWithoutLease(i) PROVE TypeOK'
  BY <1>1 DEF IssueWithoutLease, TypeOK, CachedBuckets, time, etcd, handedOut
<1>2. ASSUME NEW i \in Identities, ApplyTxn(i), IssueReady(i)
      PROVE  SnapshotType(snap') /\ issuance' \in [Identities -> Mapping]
  BY <1>0, <1>2, CommittedType, LeaseType DEF ApplyTxn, IssueReady, TypeOK
<1>3. ASSUME NEW i \in Identities, NEW m, NEW s, SnapshotType(s), Deliver(i, m, s)
      PROVE  SnapshotType(core')
  BY <1>0, <1>3, PrunedType DEF Deliver
<1>4. ASSUME NEW i \in Identities, IssueAnswered(i) PROVE TypeOK'
  <2>1. SnapshotType(snap') /\ issuance' \in [Identities -> Mapping]
    BY <1>2, <1>4 DEF IssueAnswered
  <2>2. SnapshotType(core') /\ uncertain' \in BOOLEAN
    BY <1>0, <1>3, <1>4, <2>1 DEF IssueAnswered, TypeOK
  <2>3. \A b \in DOMAIN leases' : b \in Nat /\ leases'[b] \in Nat
    BY <1>4, LeaseType DEF IssueAnswered
  <2>4. QED BY <1>4, <2>1, <2>2, <2>3 DEF IssueAnswered, TypeOK, time
<1>5. ASSUME NEW i \in Identities, IssueUnanswered(i) PROVE TypeOK'
  <2>1. SnapshotType(snap') /\ issuance' \in [Identities -> Mapping]
    BY <1>0, <1>2, <1>5 DEF IssueUnanswered, TypeOK
  <2>2. SnapshotType(core') /\ uncertain' \in BOOLEAN
    BY <1>0, <1>3, <1>5, <2>1 DEF IssueUnanswered, TypeOK
  <2>3. \A b \in DOMAIN leases' : b \in Nat /\ leases'[b] \in Nat
    BY <1>5, LeaseType DEF IssueUnanswered
  <2>4. NewMapping(i) \in Mapping /\ SnapshotType(Committed)
    BY <1>0, <1>5, LeaseType, CommittedType DEF IssueUnanswered, IssueReady
  <2>5. \A w \in late' : w.map \in Mapping /\ SnapshotType(w.snap)
    BY <1>5, <2>4 DEF IssueUnanswered, TypeOK
  <2>6. QED BY <1>5, <2>1, <2>2, <2>3, <2>5 DEF IssueUnanswered, TypeOK, time
<1>6. CASE RefreshBudgets
  BY <1>6 DEF RefreshBudgets, TypeOK, time, etcd, handedOut
<1>7. CASE ReleaseNothing
  BY <1>0, <1>7, PrunedType DEF ReleaseNothing, TypeOK, time, etcd, handedOut
<1>8. CASE ReleaseClockBack \/ Crash
  <2>1. up' \in BOOLEAN /\ uncertain' \in BOOLEAN
    BY <1>8, Zenon DEF ReleaseClockBack, Crash
  <2>2. \A b \in DOMAIN leases' : b \in Nat /\ leases'[b] \in Nat
    BY <1>8 DEF ReleaseClockBack, Crash, NoLeases
  <2>3. QED BY <1>0, <1>8, <2>1, <2>2
        DEF ReleaseClockBack, Crash, TypeOK, time, etcd, handedOut
<1>9. CASE ReleaseSaved
  BY <1>9, ReleasedType DEF ReleaseSaved, TypeOK, time, handedOut
<1>10. CASE ReleaseNotSaved
  <2>1. SnapshotType(Released) /\ SnapshotType(core')
    BY <1>0, <1>10, ReleasedType, PrunedType DEF ReleaseNotSaved
  <2>2. SnapshotType(snap')
    BY <1>0, <1>10, <2>1 DEF ReleaseNotSaved
  <2>3. \A w \in late' : w.map \in Mapping /\ SnapshotType(w.snap)
    BY <1>0, <1>10, <2>1 DEF ReleaseNotSaved, TypeOK
  <2>4. QED BY <1>10, <2>1, <2>2, <2>3 DEF ReleaseNotSaved, TypeOK, time, handedOut
<1>11. ASSUME NEW t \in tokens, Query(t) PROVE TypeOK'
  BY <1>11 DEF Query, TypeOK, time, memory, etcd
<1>12. CASE Progress
  <2>1. progress' \in Nat
    BY <1>12 DEF Progress, TypeOK, SnapshotType, Snapshot
  <2>2. QED BY <1>12, <2>1 DEF Progress, TypeOK, time, memory, etcd
<1>13. CASE Start
  <2>1. SnapshotType(core')
    BY <1>0, <1>13, PrunedType DEF Start
  <2>2. QED BY <1>13, <2>1 DEF Start, TypeOK, time, etcd, handedOut
<1>14. ASSUME NEW i \in Identities, LeaseExpires(i) PROVE TypeOK'
  BY <1>0, <1>14 DEF LeaseExpires, TypeOK, time, memory, handedOut
<1>15. ASSUME NEW w \in late, ApplyLate(w) PROVE TypeOK'
  BY <1>15 DEF ApplyLate, TypeOK, time, memory, handedOut
<1>16. CASE Tick
  BY <1>16 DEF Tick, TypeOK, memory, etcd, handedOut
<1>17. CASE ClockSet
  BY <1>17 DEF ClockSet, TypeOK, memory, etcd, handedOut
<1>18. CASE UNCHANGED queueVars
  BY <1>18 DEF queueVars, TypeOK, time, memory, etcd, handedOut
<1>19. QED
  BY <1>1, <1>4, <1>5, <1>6, <1>7, <1>8, <1>9, <1>10, <1>11, <1>12, <1>13,
     <1>14, <1>15, <1>16, <1>17, <1>18 DEF QueueNext, Issue, ReleaseFrame

(* Types hold throughout, and next_number never exceeds its width: the     *)
(* service refuses the last number instead of wrapping around.             *)
THEOREM TypeCorrect == QueueSpec => []TypeOK
<1>1. QED BY InitTypeOK, NextTypeOK, PTL DEF QueueSpec

-----------------------------------------------------------------------------
(* Uniqueness of queue numbers.                                            *)

(* Both ledgers are valid and hold no release from the future. *)
LedgersValid ==
    /\ Valid(core)
    /\ ReleasedBy(core, clock)
    /\ snap = NoSnapshot \/ Valid(snap)
    /\ ReleasedBy(snap, clock)

(* Every number in use is below the durable watermark. *)
NumbersBelow ==
    /\ \A i \in Identities : Mapped(i) =>
         /\ issuance[i].number \in 1..(snap.next - 1)
         /\ issuance[i].issued_at < IdentityExpiry[i]
    /\ \A t \in tokens : t.number \in 1..(snap.next - 1)

(* No two identities share a number, in etcd or in the tokens. *)
NumbersDistinct ==
    /\ \A i, j \in Identities :
         Mapped(i) /\ Mapped(j) /\ issuance[i].number = issuance[j].number => i = j
    /\ \A i \in Identities, t \in tokens :
         Mapped(i) /\ issuance[i].number = t.number => t.id = i
    /\ UniqueNumbers

(* A process that may still issue has the durable watermark in memory. *)
InStep ==
    up /\ ~uncertain => core.next = IF snap = NoSnapshot THEN 1 ELSE snap.next

(* The inductive invariant behind UniqueNumbers and RestartAccepted. *)
UniqueInv ==
    /\ TypeOK
    /\ LedgersValid
    /\ NumbersBelow
    /\ NumbersDistinct
    /\ InStep
    /\ late = {}

(* The process's clock is behind by no more than the leeway. *)
LEMMA WallClose ==
    ASSUME TypeOK, MaxStepBack <= Leeway
    PROVE  Wall \in Int /\ Wall <= clock /\ clock <= Wall + Leeway /\ clock \in Int
BY ConstantsAssumption DEF TypeOK, Wall

(* So restore accepts every valid ledger without a release from the future. *)
LEMMA RestoreAccepts ==
    ASSUME TypeOK, MaxStepBack <= Leeway,
           NEW s \in Snapshot, Valid(s), ReleasedBy(s, clock)
    PROVE  Restorable(s, Wall)
<1>1. \A k \in 1..Len(s.batches) : s.batches[k].at \in Int
  <2>1. s.batches \in Seq(Batch)
    BY DEF Snapshot
  <2>2. \A k \in 1..Len(s.batches) : s.batches[k] \in Batch
    BY <2>1
  <2>3. QED BY <2>2 DEF Batch
<1>2. QED BY <1>1, WallClose, ConstantsAssumption DEF Restorable, ReleasedBy

LEMMA ReleasedKeeps ==
    ASSUME TypeOK, MaxStepBack <= Leeway, Valid(core), ReleasedBy(core, clock),
           BatchSize > 0, ~ClockWentBack
    PROVE  /\ Valid(Released)
           /\ ReleasedBy(Released, clock)
           /\ Released.next = core.next
<1> DEFINE w == WithBatch(core, BatchSize, Wall)
<1>1. Wall \in Int /\ BatchSize \in Nat /\ BatchSize <= core.next - 1 - core.released
  BY SizeOfBatch
<1>2. core \in Snapshot /\ core.next \in Nat /\ core.released \in Nat
  BY DEF TypeOK, SnapshotType, Snapshot
<1>3. core.batches # <<>> => core.batches[Len(core.batches)].at <= Wall
  <2>1. SUFFICES ASSUME core.batches # <<>>
                 PROVE  core.batches[Len(core.batches)].at <= Wall
    OBVIOUS
  <2>2. core.batches \in Seq(Batch)
    BY <1>2 DEF Snapshot
  <2>3. Len(core.batches) \in 1..Len(core.batches)
    BY <2>1, <2>2, EmptySeq
  <2>4. core.batches[Len(core.batches)].at \in Int
    <3>1. core.batches[Len(core.batches)] \in Batch
      BY <2>2, <2>3
    <3>2. QED BY <3>1 DEF Batch
  <2>5. QED BY <2>1, <2>4, <1>1 DEF ClockWentBack
<1>4. core.released + BatchSize < core.next
  BY <1>1, <1>2
<1>5. w \in Snapshot /\ Valid(w) /\ w.next = core.next /\ ReleasedBy(w, clock)
  BY <1>1, <1>2, <1>3, <1>4, WithBatchKeeps, WallClose
<1>6. QED BY <1>1, <1>5, PruneKeeps, WallClose DEF Released

LEMMA PrunedKeeps ==
    ASSUME TypeOK, MaxStepBack <= Leeway,
           NEW s \in Snapshot, Valid(s), ReleasedBy(s, clock)
    PROVE  /\ Valid(Prune(s, Wall))
           /\ ReleasedBy(Prune(s, Wall), clock)
           /\ Prune(s, Wall).next = s.next
BY PruneKeeps, WallClose

LEMMA InitUniqueInv == QueueInit => UniqueInv
<1> SUFFICES ASSUME QueueInit PROVE UniqueInv
  OBVIOUS
<1>1. TypeOK
  BY InitTypeOK
<1>2. Valid(EmptyCore) /\ ReleasedBy(EmptyCore, clock) /\ ReleasedBy(NoSnapshot, clock)
  BY EmptySeq DEF Valid, EmptyCore, NoSnapshot, ReleasedBy
<1>3. \A i \in Identities : ~Mapped(i)
  BY DEF QueueInit, Mapped
<1>4. QED
  BY <1>1, <1>2, <1>3 DEF QueueInit, UniqueInv, LedgersValid, NumbersBelow, NumbersDistinct,
     InStep, UniqueNumbers

(* What the issuing transaction leaves in etcd, whether it wrote or not. *)
DurableAfter ==
    /\ snap' = NoSnapshot \/ Valid(snap')
    /\ ReleasedBy(snap', clock)
    /\ snap'.next \in Nat
    /\ \A j \in Identities : issuance'[j] # NoMapping =>
         /\ issuance'[j].number \in 1..(snap'.next - 1)
         /\ issuance'[j].issued_at < IdentityExpiry[j]
    /\ \A t \in tokens : t.number \in 1..(snap'.next - 1)
    /\ \A j, k \in Identities :
         /\ issuance'[j] # NoMapping
         /\ issuance'[k] # NoMapping
         /\ issuance'[j].number = issuance'[k].number
         => j = k
    /\ \A j \in Identities, t \in tokens :
         issuance'[j] # NoMapping /\ issuance'[j].number = t.number => t.id = j

LEMMA TxnKeeps ==
    ASSUME UniqueInv, MaxStepBack <= Leeway, NEW i \in Identities,
           IssueReady(i), ApplyTxn(i)
    PROVE  /\ DurableAfter
           /\ TxnWrites(i) => issuance'[i] # NoMapping /\ Valid(snap') /\ snap' \in Snapshot
<1> USE DEF UniqueInv
<1>0. snap \in Snapshot /\ snap.next \in Nat /\ core \in Snapshot /\ core.next \in Nat
      /\ core.released \in Nat
  BY DEF TypeOK, SnapshotType, Snapshot
<1>1. CASE ~TxnWrites(i)
  BY <1>0, <1>1 DEF ApplyTxn, DurableAfter, LedgersValid, NumbersBelow, NumbersDistinct, Mapped
<1>2. CASE TxnWrites(i)
  <2>1. /\ snap' = Committed
        /\ issuance' = [issuance EXCEPT ![i] = NewMapping(i)]
    BY <1>2 DEF ApplyTxn
  <2>2. /\ Committed \in Snapshot
        /\ Committed = [released |-> core.released, next |-> core.next + 1,
                        pruned |-> core.pruned, batches |-> core.batches]
    BY CommittedType DEF IssueReady, SnapshotType
  <2>3. core.released < core.next /\ core.next >= 1 /\ snap.next <= core.next
    <3>1. core.released < core.next
      BY DEF LedgersValid, Valid
    <3>2. core.next = IF snap = NoSnapshot THEN 1 ELSE snap.next
      BY DEF InStep, IssueReady
    <3>3. snap = NoSnapshot => snap.next = 0
      BY DEF NoSnapshot
    <3>4. QED BY <1>0, <3>1, <3>2, <3>3
  <2>4. Valid(Committed)
    <3>1. Valid(core)
      BY DEF LedgersValid
    <3>2. QED BY <3>1, <2>2, <2>3, <1>0 DEF Valid
  <2>5. ReleasedBy(Committed, clock)
    BY <2>2 DEF LedgersValid, ReleasedBy
  <2>6. /\ issuance'[i] = NewMapping(i)
        /\ NewMapping(i).number = core.next
        /\ NewMapping(i).issued_at = Wall
        /\ \A j \in Identities : j # i => issuance'[j] = issuance[j]
    BY <2>1 DEF TypeOK, NewMapping
  <2>7. NewMapping(i) # NoMapping
    BY <2>3, <2>6, <1>0 DEF NoMapping
  <2>8. Wall < IdentityExpiry[i]
    BY DEF IssueReady
  <2>9. snap'.next = core.next + 1
    BY <2>1, <2>2
  <2>10. \A j \in Identities : issuance'[j] # NoMapping =>
           /\ issuance'[j].number \in 1..(snap'.next - 1)
           /\ issuance'[j].issued_at < IdentityExpiry[j]
    BY <1>0, <2>3, <2>6, <2>8, <2>9 DEF NumbersBelow, Mapped
  <2>11. \A t \in tokens : t.number \in 1..(snap'.next - 1) /\ t.number # core.next
    BY <1>0, <2>3, <2>9 DEF NumbersBelow
  <2>12. \A j \in Identities : j # i /\ Mapped(j) => issuance[j].number # core.next
    BY <1>0, <2>3 DEF NumbersBelow
  <2>13. \A j, k \in Identities :
           /\ issuance'[j] # NoMapping
           /\ issuance'[k] # NoMapping
           /\ issuance'[j].number = issuance'[k].number
           => j = k
    BY <2>6, <2>12 DEF NumbersDistinct, Mapped
  <2>14. \A j \in Identities, t \in tokens :
           issuance'[j] # NoMapping /\ issuance'[j].number = t.number => t.id = j
    BY <2>6, <2>11 DEF NumbersDistinct, Mapped
  <2>15. QED
    BY <1>0, <2>1, <2>2, <2>4, <2>5, <2>6, <2>7, <2>9, <2>10, <2>11, <2>13, <2>14
       DEF DurableAfter
<1>3. QED BY <1>1, <1>2

(* Delivering a mapped number adopts the durable snapshot and adds a token *)
(* that no other identity can hold.                                        *)
LEMMA DeliverKeeps ==
    ASSUME UniqueInv, MaxStepBack <= Leeway, NEW i \in Identities,
           DurableAfter, issuance'[i] # NoMapping,
           snap' \in Snapshot, Valid(snap'), Deliver(i, issuance'[i], snap'),
           UNCHANGED clock
    PROVE  /\ Valid(core') /\ ReleasedBy(core', clock')
           /\ core'.next = snap'.next
           /\ NumbersBelow'
           /\ NumbersDistinct'
<1> USE DEF UniqueInv
<1>1. Restorable(snap', Wall) /\ ReleasedBy(snap', clock)
  BY RestoreAccepts DEF DurableAfter
<1>2. core' = Prune(snap', Wall) /\ tokens' = tokens \cup {Token(i, issuance'[i])}
  BY <1>1 DEF Deliver
<1>3. Valid(core') /\ ReleasedBy(core', clock') /\ core'.next = snap'.next
  BY <1>1, <1>2, PrunedKeeps
<1>4. Token(i, issuance'[i]).number = issuance'[i].number /\ Token(i, issuance'[i]).id = i
  BY DEF Token
<1>5. NumbersBelow'
  BY <1>2, <1>4 DEF NumbersBelow, DurableAfter, Mapped
<1>6. \A t \in tokens : t.number = issuance'[i].number => t.id = i
  BY DEF DurableAfter
<1>7. UniqueNumbers'
  BY <1>2, <1>4, <1>6 DEF UniqueNumbers, NumbersDistinct
<1>8. NumbersDistinct'
  BY <1>2, <1>4, <1>7 DEF NumbersDistinct, DurableAfter, Mapped
<1>9. QED BY <1>3, <1>5, <1>8

LEMMA NextUniqueInv ==
    ASSUME MaxStepBack <= Leeway, MaxLate = 0, UniqueInv, [QueueNext]_queueVars
    PROVE  UniqueInv'
<1> USE DEF UniqueInv
<1>0. TypeOK'
  BY NextTypeOK
<1>1. /\ core \in Snapshot /\ snap \in Snapshot /\ snap' \in Snapshot
      /\ core.next \in Nat /\ snap.next \in Nat /\ clock \in Nat
  BY <1>0, ConstantsAssumption DEF TypeOK, SnapshotType, Snapshot
<1>2. Cardinality(late) = 0
  BY FS_EmptySet
<1>3. /\ Valid(EmptyCore)
      /\ ReleasedBy(EmptyCore, clock)
  BY EmptySeq DEF Valid, EmptyCore, ReleasedBy
<1>4. ASSUME NEW i \in Identities, IssueReady(i), ApplyTxn(i), UNCHANGED <<clock, up, late>>,
             \/ /\ TxnWrites(i) \/ Recoverable(issuance'[i], snap')
                /\ Deliver(i, issuance'[i], snap')
                /\ UNCHANGED uncertain
             \/ /\ uncertain' = TRUE
                /\ UNCHANGED <<core, tokens>>
      PROVE  UniqueInv'
  <2>1. DurableAfter /\ (TxnWrites(i) => issuance'[i] # NoMapping /\ Valid(snap'))
    BY <1>4, TxnKeeps
  <2>2. CASE /\ TxnWrites(i) \/ Recoverable(issuance'[i], snap')
             /\ Deliver(i, issuance'[i], snap')
             /\ UNCHANGED uncertain
    <3>1. issuance'[i] # NoMapping /\ Valid(snap')
      BY <2>1, <2>2 DEF Recoverable
    <3>2. /\ Valid(core') /\ ReleasedBy(core', clock') /\ core'.next = snap'.next
          /\ NumbersBelow' /\ NumbersDistinct'
      BY <1>1, <1>4, <2>1, <2>2, <3>1, DeliverKeeps
    <3>3. snap' # NoSnapshot
      BY <3>1 DEF Valid, NoSnapshot
    <3>4. InStep' /\ LedgersValid'
      BY <1>4, <2>1, <3>1, <3>2, <3>3 DEF InStep, LedgersValid, DurableAfter
    <3>5. QED BY <1>0, <1>4, <3>2, <3>4
  <2>3. CASE uncertain' = TRUE /\ UNCHANGED <<core, tokens>>
    BY <1>0, <1>4, <2>1, <2>3
       DEF DurableAfter, LedgersValid, NumbersBelow, NumbersDistinct, UniqueNumbers, InStep, Mapped
  <2>4. QED BY <1>4, <2>2, <2>3
<1>5. ASSUME NEW i \in Identities, IssueWithoutLease(i) PROVE UniqueInv'
  BY <1>0, <1>5 DEF IssueWithoutLease, LedgersValid, NumbersBelow, NumbersDistinct,
     UniqueNumbers, InStep, Mapped, time, etcd, handedOut
<1>6. ASSUME NEW i \in Identities, IssueAnswered(i) PROVE UniqueInv'
  <2>1. ~TxnWrites(i) => issuance'[i] = issuance[i] /\ snap' = snap
    BY <1>6 DEF IssueAnswered, ApplyTxn
  <2>2. IssueReady(i) /\ ApplyTxn(i) /\ UNCHANGED <<clock, up, late>>
    BY <1>6 DEF IssueAnswered, time
  <2>3. \/ /\ TxnWrites(i) \/ Recoverable(issuance'[i], snap')
           /\ Deliver(i, issuance'[i], snap')
           /\ UNCHANGED uncertain
        \/ /\ uncertain' = TRUE
           /\ UNCHANGED <<core, tokens>>
    BY <1>6, <2>1 DEF IssueAnswered
  <2>4. QED BY <1>4, <2>2, <2>3
<1>7. ASSUME NEW i \in Identities, IssueUnanswered(i) PROVE UniqueInv'
  <2>1. IssueReady(i) /\ UNCHANGED <<clock, up, late>>
    BY <1>2, <1>7 DEF IssueUnanswered, time
  <2>2. \/ /\ Recoverable(issuance'[i], snap')
           /\ Deliver(i, issuance'[i], snap')
           /\ UNCHANGED uncertain
        \/ /\ uncertain' = TRUE
           /\ UNCHANGED <<core, tokens>>
    BY <1>7 DEF IssueUnanswered
  <2>3. CASE ApplyTxn(i)
    BY <1>4, <2>1, <2>2, <2>3
  <2>4. CASE UNCHANGED <<snap, issuance>>
    <3>1. DurableAfter
      BY <1>1, <2>4 DEF DurableAfter, LedgersValid, NumbersBelow, NumbersDistinct, Mapped
    <3>2. CASE /\ Recoverable(issuance'[i], snap')
               /\ Deliver(i, issuance'[i], snap')
               /\ UNCHANGED uncertain
      <4>1. issuance'[i] # NoMapping /\ Valid(snap') /\ snap' # NoSnapshot
        BY <3>2 DEF Recoverable, Valid, NoSnapshot
      <4>2. /\ Valid(core') /\ ReleasedBy(core', clock') /\ core'.next = snap'.next
            /\ NumbersBelow' /\ NumbersDistinct'
        BY <1>1, <2>1, <3>1, <3>2, <4>1, DeliverKeeps
      <4>3. InStep' /\ LedgersValid'
        BY <2>1, <3>1, <4>1, <4>2 DEF InStep, LedgersValid, DurableAfter
      <4>4. QED BY <1>0, <2>1, <4>2, <4>3
    <3>3. CASE uncertain' = TRUE /\ UNCHANGED <<core, tokens>>
      BY <1>0, <2>1, <2>4, <3>3
         DEF LedgersValid, NumbersBelow, NumbersDistinct, UniqueNumbers, InStep, Mapped
    <3>4. QED BY <2>2, <3>2, <3>3
  <2>5. QED BY <1>7, <2>3, <2>4 DEF IssueUnanswered
<1>8. CASE RefreshBudgets
  BY <1>0, <1>8 DEF RefreshBudgets, LedgersValid, NumbersBelow, NumbersDistinct,
     UniqueNumbers, InStep, Mapped, time, etcd, handedOut
<1>9. CASE ReleaseNothing
  <2>1. Valid(core') /\ ReleasedBy(core', clock) /\ core'.next = core.next
    BY <1>1, <1>9, PrunedKeeps DEF ReleaseNothing, LedgersValid
  <2>2. QED
    BY <1>0, <1>9, <2>1 DEF ReleaseNothing, LedgersValid, NumbersBelow, NumbersDistinct,
       UniqueNumbers, InStep, Mapped, time, etcd, handedOut
<1>10. CASE ReleaseClockBack \/ Crash
  BY <1>0, <1>3, <1>10 DEF ReleaseClockBack, Crash, LedgersValid, NumbersBelow,
     NumbersDistinct, UniqueNumbers, InStep, Mapped, time, etcd, handedOut
<1>11. ASSUME BatchSize > 0, ~ClockWentBack, up, ~uncertain
       PROVE  /\ Valid(Released) /\ ReleasedBy(Released, clock)
              /\ Released.next = core.next /\ core.next = snap.next
              /\ Released # NoSnapshot
  <2>1. Valid(Released) /\ ReleasedBy(Released, clock) /\ Released.next = core.next
    BY <1>11, ReleasedKeeps DEF LedgersValid
  <2>2. BatchSize \in Int /\ BatchSize <= core.next - 1 - core.released /\ core.released \in Nat
    BY <1>1, SizeOfBatch DEF Snapshot
  <2>3. core.next > 1
    BY <1>1, <1>11, <2>2
  <2>4. core.next = snap.next
    BY <1>11, <2>3 DEF InStep
  <2>5. Released # NoSnapshot
    BY <2>1 DEF Valid, NoSnapshot
  <2>6. QED BY <2>1, <2>4, <2>5
<1>12. CASE ReleaseSaved
  <2>1. /\ Valid(Released) /\ ReleasedBy(Released, clock)
        /\ Released.next = snap.next /\ Released # NoSnapshot
    BY <1>11, <1>12 DEF ReleaseSaved
  <2>2. QED
    BY <1>0, <1>12, <2>1 DEF ReleaseSaved, LedgersValid, NumbersBelow, NumbersDistinct,
       UniqueNumbers, InStep, Mapped, time, handedOut
<1>13. CASE ReleaseNotSaved
  <2>1. Valid(core') /\ ReleasedBy(core', clock) /\ core'.next = core.next
    BY <1>1, <1>13, PrunedKeeps DEF ReleaseNotSaved, LedgersValid
  <2>2. \/ UNCHANGED snap
        \/ /\ ~uncertain
           /\ snap' = Released /\ Valid(Released) /\ ReleasedBy(Released, clock)
           /\ Released.next = snap.next /\ core.next = snap.next /\ Released # NoSnapshot
    BY <1>2, <1>11, <1>13 DEF ReleaseNotSaved
  <2>3. UNCHANGED <<clock, up, uncertain, issuance, late, tokens>>
    BY <1>2, <1>13 DEF ReleaseNotSaved, time, handedOut
  <2>4. snap'.next = snap.next
    BY <2>2
  <2>5. LedgersValid'
    BY <2>1, <2>2, <2>3 DEF LedgersValid
  <2>6. NumbersBelow' /\ NumbersDistinct'
    BY <2>3, <2>4 DEF NumbersBelow, NumbersDistinct, UniqueNumbers, Mapped
  <2>7. InStep'
    BY <2>1, <2>2, <2>3 DEF InStep
  <2>8. QED BY <1>0, <2>3, <2>5, <2>6, <2>7
<1>14. ASSUME NEW t \in tokens, Query(t) PROVE UniqueInv'
  BY <1>0, <1>14 DEF Query, LedgersValid, NumbersBelow, NumbersDistinct,
     UniqueNumbers, InStep, Mapped, time, memory, etcd
<1>15. CASE Progress
  BY <1>0, <1>15 DEF Progress, LedgersValid, NumbersBelow, NumbersDistinct,
     UniqueNumbers, InStep, Mapped, time, memory, etcd
<1>16. CASE Start
  <2>1. CASE snap = NoSnapshot
    <3>1. EmptyCore.next = 1
      BY DEF EmptyCore
    <3>2. QED
      BY <1>0, <1>3, <1>16, <2>1, <3>1 DEF Start, LedgersValid, NumbersBelow, NumbersDistinct,
         UniqueNumbers, InStep, Mapped, time, etcd, handedOut
  <2>2. CASE snap # NoSnapshot
    <3>1. Valid(core') /\ ReleasedBy(core', clock) /\ core'.next = snap.next
      BY <1>1, <1>16, <2>2, PrunedKeeps DEF Start, LedgersValid
    <3>2. QED
      BY <1>0, <1>16, <2>2, <3>1 DEF Start, LedgersValid, NumbersBelow, NumbersDistinct,
         UniqueNumbers, InStep, Mapped, time, etcd, handedOut
  <2>3. QED BY <2>1, <2>2
<1>17. ASSUME NEW i \in Identities, LeaseExpires(i) PROVE UniqueInv'
  <2>1. /\ issuance'[i] = NoMapping
        /\ \A j \in Identities : j # i => issuance'[j] = issuance[j]
    BY <1>17 DEF LeaseExpires, TypeOK
  <2>2. UNCHANGED <<clock, up, core, uncertain, snap, late, tokens>>
    BY <1>17 DEF LeaseExpires, time, memory, handedOut
  <2>3. NumbersBelow'
    BY <2>1, <2>2 DEF NumbersBelow, Mapped
  <2>4. NumbersDistinct'
    BY <2>1, <2>2 DEF NumbersDistinct, UniqueNumbers, Mapped
  <2>5. QED BY <1>0, <2>2, <2>3, <2>4 DEF LedgersValid, InStep
<1>18. CASE Tick
  <2>1. ASSUME NEW s \in Snapshot, ReleasedBy(s, clock) PROVE ReleasedBy(s, clock + 1)
    <3>1. \A k \in 1..Len(s.batches) : s.batches[k] \in Batch
      BY DEF Snapshot
    <3>2. QED BY <1>1, <2>1, <3>1 DEF ReleasedBy, Batch
  <2>2. LedgersValid'
    BY <1>1, <1>18, <2>1 DEF Tick, LedgersValid, memory, etcd
  <2>3. QED
    BY <1>0, <1>18, <2>2 DEF Tick, NumbersBelow, NumbersDistinct,
       UniqueNumbers, InStep, Mapped, memory, etcd, handedOut
<1>19. CASE ClockSet
  BY <1>0, <1>19 DEF ClockSet, LedgersValid, NumbersBelow, NumbersDistinct,
     UniqueNumbers, InStep, Mapped, memory, etcd, handedOut
<1>20. CASE UNCHANGED queueVars
  BY <1>0, <1>20 DEF queueVars, LedgersValid, NumbersBelow, NumbersDistinct,
     UniqueNumbers, InStep, Mapped, time, memory, etcd, handedOut
<1>21. QED
  BY <1>5, <1>6, <1>7, <1>8, <1>9, <1>10, <1>12, <1>13, <1>14, <1>15, <1>16,
     <1>17, <1>18, <1>19, <1>20 DEF QueueNext, Issue, ReleaseFrame

(* No two identities ever hold the same queue number, for every number of  *)
(* identities and over every pattern of lost answers and crashes, as long  *)
(* as the clock steps back by no more than the leeway and etcd applies no  *)
(* write after its sender gave up.  Neither can be dropped: TLC finds two  *)
(* identities with one number for MaxStepBack = 2 and Leeway = 1, and for  *)
(* MaxLate = 1.                                                            *)
THEOREM NumbersUnique ==
    ASSUME MaxStepBack <= Leeway, MaxLate = 0
    PROVE  QueueSpec => []UniqueNumbers
<1>1. UniqueInv /\ [QueueNext]_queueVars => UniqueInv'
  BY NextUniqueInv
<1>2. UniqueInv => UniqueNumbers
  BY DEF UniqueInv, NumbersDistinct
<1>3. QED BY <1>1, <1>2, InitUniqueInv, PTL DEF QueueSpec

(* At every moment the durable state is one that the next start accepts.   *)
THEOREM RestartSafe ==
    ASSUME MaxStepBack <= Leeway, MaxLate = 0
    PROVE  QueueSpec => []RestartAccepted
<1>1. UniqueInv /\ [QueueNext]_queueVars => UniqueInv'
  BY NextUniqueInv
<1>2. UniqueInv => RestartAccepted
  <2>1. SUFFICES ASSUME UniqueInv PROVE RestartAccepted
    OBVIOUS
  <2> USE <2>1 DEF UniqueInv
  <2>2. snap \in Snapshot /\ (snap = NoSnapshot => snap.next = 0)
    BY DEF TypeOK, SnapshotType, NoSnapshot
  <2>3. snap # NoSnapshot => Restorable(snap, Wall)
    BY <2>2, RestoreAccepts DEF LedgersValid
  <2>4. Loadable
    BY <2>2 DEF Loadable, LedgersValid, NumbersBelow, NumbersDistinct
  <2>5. QED BY <2>3, <2>4 DEF RestartAccepted
<1>3. QED BY <1>1, <1>2, InitUniqueInv, PTL DEF QueueSpec

-----------------------------------------------------------------------------
(* A release that was seen.                                                *)

Batches(s) == { s.batches[k] : k \in 1..Len(s.batches) }

(* Two releases of one number, in memory or in etcd, are of one time. *)
Agree(s, t) ==
    \A b \in Batches(s), c \in Batches(t) :
        b.last < c.first \/ c.last < b.first \/ b.at = c.at

(* The ledger s holds every release that a client has seen, as it was. *)
Kept(s) ==
    /\ \A b \in Batches(s) : b.last <= s.released
    /\ progress <= s.released
    /\ \A g \in grants :
         /\ g.number <= s.released
         /\ \A b \in Batches(s) :
              b.first <= g.number /\ g.number <= b.last => b.at = g.at

(* s may replace c: it is not behind it, and releases nothing otherwise. *)
Ahead(c, s) ==
    /\ Kept(c) /\ Kept(s)
    /\ Agree(c, c) /\ Agree(s, s) /\ Agree(c, s)
    /\ c.released <= s.released

(* The inductive invariant behind ReleasesKept. *)
ReleaseInv ==
    /\ TypeOK
    /\ late = {}
    /\ Ahead(snap, snap)
    /\ up => Ahead(core, snap)
    /\ \A x \in tokens \cup grants : x.number \in Nat
    /\ OneWindow

(* p is s, but for batches that were dropped. *)
Under(p, s) == Batches(p) \subseteq Batches(s) /\ p.released = s.released

LEMMA BatchesType ==
    ASSUME NEW s \in Snapshot
    PROVE  Batches(s) \subseteq Batch /\ s.released \in Nat
<1>1. s.batches \in Seq(Batch)
  BY DEF Snapshot
<1>2. QED BY <1>1 DEF Batches, Snapshot

LEMMA PruneUnder ==
    ASSUME NEW s \in Snapshot, NEW now \in Int
    PROVE  Under(Prune(s, now), s)
<1> DEFINE q == s.batches
           p == Prune(s, now)
<1>1. PICK n \in 0..Len(q) :
        p = [released |-> s.released, next |-> s.next,
             pruned   |-> IF n = 0 THEN s.pruned ELSE q[n].last,
             batches  |-> SubSeq(q, n + 1, Len(q))]
  BY PruneShape
<1>2. q \in Seq(Batch) /\ Len(q) \in Nat
  BY DEF Snapshot
<1>3. /\ Len(p.batches) = Len(q) - n
      /\ \A k \in 1..(Len(q) - n) : p.batches[k] = q[n + k] /\ n + k \in 1..Len(q)
  BY <1>1, <1>2, SubSeqProperties
<1>4. Batches(p) \subseteq Batches(s)
  BY <1>3 DEF Batches
<1>5. QED BY <1>4, PruneKeeps DEF Under

LEMMA WithBatches ==
    ASSUME NEW s \in Snapshot, NEW n \in Nat, NEW now \in Int
    PROVE  /\ Batches(WithBatch(s, n, now)) =
                Batches(s) \cup {[first |-> s.released + 1, last |-> s.released + n, at |-> now]}
           /\ WithBatch(s, n, now).released = s.released + n
<1> DEFINE w == WithBatch(s, n, now)
           q == s.batches
           b == [first |-> s.released + 1, last |-> s.released + n, at |-> now]
<1>1. q \in Seq(Batch) /\ Len(q) \in Nat /\ s.released \in Nat
  BY DEF Snapshot
<1>2. b \in Batch
  BY <1>1 DEF Batch
<1>3. w.batches = Append(q, b) /\ w.released = s.released + n
  BY DEF WithBatch
<1>4. /\ Len(w.batches) = Len(q) + 1
      /\ w.batches[Len(q) + 1] = b
      /\ \A k \in 1..Len(q) : w.batches[k] = q[k]
  BY <1>1, <1>2, <1>3, AppendProperties
<1>5. 1..(Len(q) + 1) = 1..Len(q) \cup {Len(q) + 1}
  BY <1>1
<1>6. Batches(w) = Batches(s) \cup {b}
  <2>1. ASSUME NEW x \in Batches(w) PROVE x \in Batches(s) \cup {b}
    <3>1. PICK k \in 1..(Len(q) + 1) : x = w.batches[k]
      BY <2>1, <1>4 DEF Batches
    <3>2. QED BY <3>1, <1>4, <1>5 DEF Batches
  <2>2. ASSUME NEW x \in Batches(s) \cup {b} PROVE x \in Batches(w)
    <3>1. CASE x = b
      BY <3>1, <1>4, <1>5 DEF Batches
    <3>2. CASE x \in Batches(s)
      <4>1. PICK k \in 1..Len(q) : x = q[k]
        BY <3>2 DEF Batches
      <4>2. QED BY <4>1, <1>4, <1>5 DEF Batches
    <3>3. QED BY <2>2, <3>1, <3>2
  <2>3. QED BY <2>1, <2>2
<1>7. QED BY <1>3, <1>6

LEMMA AheadSelf ==
    ASSUME NEW c, NEW s, c.released \in Int, s.released \in Int, Ahead(c, s)
    PROVE  Ahead(c, c) /\ Ahead(s, s)
BY DEF Ahead

LEMMA AheadUnder ==
    ASSUME NEW c, NEW s, NEW p, NEW q, Ahead(c, s), Under(p, c), Under(q, s)
    PROVE  Ahead(p, q)
<1>1. Agree(p, p) /\ Agree(q, q) /\ Agree(p, q)
  BY DEF Ahead, Agree, Under
<1>2. Kept(p) /\ Kept(q)
  BY DEF Ahead, Kept, Under
<1>3. QED BY <1>1, <1>2 DEF Ahead, Under

(* The next batch is beyond everything that was released. *)
LEMMA AheadWith ==
    ASSUME NEW c \in Snapshot, Ahead(c, c), NEW n \in Nat, n > 0, NEW now \in Int,
           \A g \in grants : g.number \in Nat, progress \in Nat
    PROVE  Ahead(c, WithBatch(c, n, now))
<1> DEFINE w == WithBatch(c, n, now)
           b == [first |-> c.released + 1, last |-> c.released + n, at |-> now]
<1>1. Batches(w) = Batches(c) \cup {b} /\ w.released = c.released + n
  BY WithBatches
<1>2. Batches(c) \subseteq Batch /\ c.released \in Nat
  BY BatchesType
<1> HIDE DEF w
<1>3. \A x \in Batches(c) : x.last < b.first /\ x.last <= w.released
  BY <1>1, <1>2 DEF Ahead, Kept, Batch
<1>4. Agree(w, w) /\ Agree(c, w)
  BY <1>1, <1>3 DEF Agree, Ahead
<1>5. Kept(w)
  <2>1. \A x \in Batches(w) : x.last <= w.released
    BY <1>1, <1>2, <1>3
  <2>2. progress <= w.released
    BY <1>1, <1>2 DEF Ahead, Kept
  <2>3. ASSUME NEW g \in grants
        PROVE  /\ g.number <= w.released
               /\ \A x \in Batches(w) :
                    x.first <= g.number /\ g.number <= x.last => x.at = g.at
    <3>1. g.number <= c.released /\ g.number < b.first
      BY <1>2 DEF Ahead, Kept
    <3>2. QED BY <1>1, <1>2, <3>1 DEF Ahead, Kept
  <2>4. QED BY <2>1, <2>2, <2>3 DEF Kept
<1>6. c.released <= w.released
  BY <1>1, <1>2
<1>7. QED BY <1>4, <1>5, <1>6 DEF Ahead, w

LEMMA InitReleaseInv == QueueInit => ReleaseInv
<1> SUFFICES ASSUME QueueInit PROVE ReleaseInv
  OBVIOUS
<1>1. Batches(NoSnapshot) = {} /\ NoSnapshot.released = 0
  BY DEF Batches, NoSnapshot
<1>2. Ahead(snap, snap)
  BY <1>1 DEF QueueInit, Ahead, Kept, Agree
<1>3. QED BY <1>2, InitTypeOK DEF QueueInit, ReleaseInv, OneWindow

(* What Deliver leaves in memory: what was there, or what etcd has. *)
LEMMA DeliverUnder ==
    ASSUME NEW i, NEW m, NEW s \in Snapshot, NEW r \in Snapshot, Wall \in Int,
           Deliver(i, m, s), Ahead(core, r), Ahead(core, s)
    PROVE  Ahead(core', s)
<1>1. CASE Restorable(s, Wall)
  <2>1. core' = Prune(s, Wall)
    BY <1>1 DEF Deliver
  <2>2. Under(core', s) /\ Under(s, s)
    BY <2>1, PruneUnder DEF Under
  <2>3. Ahead(s, s)
    BY BatchesType DEF Ahead
  <2>4. QED BY <2>2, <2>3, AheadUnder
<1>2. CASE ~Restorable(s, Wall)
  BY <1>2 DEF Deliver
<1>3. QED BY <1>1, <1>2

LEMMA NextReleaseInv ==
    ASSUME MaxLate = 0, ReleaseInv, [QueueNext]_queueVars
    PROVE  ReleaseInv' /\ [progress' >= progress]_queueVars
<1> USE DEF ReleaseInv
<1>0. TypeOK'
  BY NextTypeOK
<1>1. /\ core \in Snapshot /\ snap \in Snapshot /\ progress \in Nat /\ Wall \in Int
      /\ core.released \in Nat /\ snap.released \in Nat
  BY SizeOfBatch DEF TypeOK, SnapshotType, Snapshot
<1>2. Cardinality(late) = 0
  BY FS_EmptySet
<1>3. up => Ahead(core, core)
  BY <1>1, AheadSelf
(* A step that leaves the clients alone keeps the ledgers in order. *)
<1>4. ASSUME UNCHANGED <<grants, progress>>, late' = {}, \A t \in tokens' : t.number \in Nat,
             Ahead(snap', snap') , up' => Ahead(core', snap')
      PROVE  ReleaseInv' /\ [progress' >= progress]_queueVars
  BY <1>0, <1>1, <1>4 DEF Ahead, Kept, Agree, OneWindow
<1>5. ASSUME NEW i \in Identities, ApplyTxn(i), IssueReady(i)
      PROVE  Ahead(snap', snap') /\ Ahead(core, snap')
  <2>1. CASE snap' = snap
    BY <1>5, <2>1 DEF IssueReady
  <2>2. CASE snap' = Committed
    <3>1. Under(Committed, core) /\ Under(core, core)
      BY <1>5, CommittedType DEF IssueReady, Under, Batches
    <3>2. QED BY <1>3, <1>5, <2>2, <3>1, AheadUnder DEF IssueReady
  <2>3. QED BY <1>5, <2>1, <2>2 DEF ApplyTxn
<1>6. ASSUME NEW i \in Identities, IssueReady(i), UNCHANGED <<clock, drift, up, grants, progress, late>>,
             Ahead(snap', snap'), Ahead(core, snap'),
             Deliver(i, issuance'[i], snap') \/ UNCHANGED <<core, tokens>>
      PROVE  ReleaseInv' /\ [progress' >= progress]_queueVars
  <2>1. Ahead(core', snap')
    <3>1. snap' \in Snapshot
      BY <1>0 DEF TypeOK, SnapshotType
    <3>2. QED BY <1>1, <1>6, <3>1, DeliverUnder
  <2>2. \A t \in tokens' : t.number \in Nat
    BY <1>0, <1>6 DEF Deliver, Token, TypeOK, Mapping
  <2>3. QED BY <1>4, <1>6, <2>1, <2>2
<1>7. ASSUME NEW i \in Identities, IssueWithoutLease(i) PROVE ReleaseInv' /\ [progress' >= progress]_queueVars
  BY <1>4, <1>7 DEF IssueWithoutLease, time, etcd, handedOut
<1>8. ASSUME NEW i \in Identities, IssueAnswered(i) PROVE ReleaseInv' /\ [progress' >= progress]_queueVars
  BY <1>5, <1>6, <1>8 DEF IssueAnswered, time
<1>9. ASSUME NEW i \in Identities, IssueUnanswered(i) PROVE ReleaseInv' /\ [progress' >= progress]_queueVars
  <2>1. IssueReady(i) /\ UNCHANGED <<clock, drift, up, grants, progress, late>>
    BY <1>2, <1>9 DEF IssueUnanswered, time
  <2>2. Ahead(snap', snap') /\ Ahead(core, snap')
    BY <1>5, <1>9, <2>1 DEF IssueUnanswered, IssueReady
  <2>3. QED BY <1>6, <1>9, <2>1, <2>2 DEF IssueUnanswered
<1>10. CASE RefreshBudgets
  BY <1>4, <1>10 DEF RefreshBudgets, time, etcd, handedOut
<1>11. Under(Prune(core, Wall), core) /\ Under(snap, snap)
  BY <1>1, PruneUnder DEF Under
<1>12. up => Ahead(Prune(core, Wall), snap)
  BY <1>11, AheadUnder
<1>13. CASE ReleaseNothing
  BY <1>4, <1>12, <1>13 DEF ReleaseNothing, time, etcd, handedOut
<1>14. CASE ReleaseClockBack \/ Crash
  BY <1>4, <1>14 DEF ReleaseClockBack, Crash, time, etcd, handedOut
<1>15. ASSUME up, BatchSize > 0
       PROVE  Ahead(Released, Released) /\ Ahead(Prune(core, Wall), Released)
  <2> DEFINE w == WithBatch(core, BatchSize, Wall)
  <2>1. BatchSize \in Nat
    BY <1>15, SizeOfBatch
  <2>2. Ahead(core, w)
    BY <1>1, <1>3, <1>15, <2>1, AheadWith
  <2>3. w \in Snapshot /\ w.released \in Nat
    BY <1>1, <2>1, WithBatchKeeps DEF Snapshot
  <2>4. Under(Released, w)
    BY <1>1, <2>3, PruneUnder DEF Released
  <2>5. Ahead(w, w)
    BY <1>1, <2>2, <2>3, AheadSelf
  <2> HIDE DEF w
  <2>6. QED BY <1>11, <2>2, <2>4, <2>5, AheadUnder
<1>16. CASE ReleaseSaved
  BY <1>4, <1>15, <1>16 DEF ReleaseSaved, time, handedOut
<1>17. CASE ReleaseNotSaved
  <2>1. late' = {} /\ (snap' = snap \/ snap' = Released)
    BY <1>2, <1>17 DEF ReleaseNotSaved
  <2>2. Ahead(snap', snap') /\ Ahead(core', snap')
    BY <1>12, <1>15, <1>17, <2>1 DEF ReleaseNotSaved
  <2>3. QED BY <1>4, <1>17, <2>1, <2>2 DEF ReleaseNotSaved, handedOut
<1>18. ASSUME NEW t \in tokens, Query(t) PROVE ReleaseInv' /\ [progress' >= progress]_queueVars
  <2>1. PICK b \in Eligible(core, t.number, Wall) :
          grants' = grants \cup
              {[id |-> t.id, number |-> t.number, at |-> b.at,
                exp |-> Min({t.exp, b.at + GrantWindow})]}
    BY <1>18 DEF Query
  <2> DEFINE g == [id |-> t.id, number |-> t.number, at |-> b.at,
                   exp |-> Min({t.exp, b.at + GrantWindow})]
  <2>2. /\ b \in Batches(core) /\ b.first <= t.number /\ t.number <= b.last
        /\ g.number = t.number /\ g.at = b.at
    BY DEF Eligible, Batches
  <2>3. grants' = grants \cup {g}
    BY <2>1
  <2> HIDE DEF g
  <2>4. UNCHANGED <<up, core, snap, late, tokens, progress>>
    BY <1>18 DEF Query, memory, etcd
  <2>5. t.number \in Nat /\ Ahead(core, snap)
    BY <1>18 DEF Query
  <2>6. Batches(core) \subseteq Batch /\ Batches(snap) \subseteq Batch
    BY <1>1, BatchesType
  <2>7. t.number <= core.released /\ t.number <= snap.released
    BY <1>1, <2>2, <2>5, <2>6 DEF Ahead, Kept, Batch
  <2>8. /\ \A c \in Batches(core) :
             c.first <= t.number /\ t.number <= c.last => c.at = g.at
        /\ \A c \in Batches(snap) :
             c.first <= t.number /\ t.number <= c.last => c.at = g.at
    BY <2>2, <2>5, <2>6 DEF Ahead, Agree, Batch
  <2>9. Kept(core)' /\ Kept(snap)'
    BY <2>2, <2>3, <2>4, <2>5, <2>7, <2>8 DEF Ahead, Kept, Batches
  <2>10. \A h \in grants : h.number = g.number => h.at = g.at
    BY <2>2, <2>5 DEF Ahead, Kept
  <2>11. OneWindow'
    BY <2>3, <2>10 DEF OneWindow
  <2>12. Ahead(core, snap)' /\ Ahead(snap, snap)'
    BY <2>4, <2>5, <2>9 DEF Ahead, Agree, Batches
  <2>13. \A x \in tokens' \cup grants' : x.number \in Nat
    BY <2>2, <2>3, <2>4, <2>5
  <2>14. QED BY <1>0, <1>1, <2>4, <2>11, <2>12, <2>13
<1>19. CASE Progress
  <2>1. UNCHANGED <<up, core, snap, late, tokens, grants>> /\ progress' = core.released /\ up
    BY <1>19 DEF Progress, memory, etcd
  <2>2. Kept(core)' /\ Kept(snap)' /\ progress' >= progress
    BY <1>1, <2>1 DEF Ahead, Kept, Batches
  <2>3. Ahead(core, snap)' /\ Ahead(snap, snap)'
    BY <2>1, <2>2 DEF Ahead, Agree, Batches
  <2>4. OneWindow'
    BY <2>1 DEF OneWindow
  <2>5. QED BY <1>0, <2>1, <2>2, <2>3, <2>4
<1>20. CASE Start
  <2>1. Ahead(core', snap)
    <3>1. CASE snap = NoSnapshot
      <4>1. core' = EmptyCore /\ Under(EmptyCore, snap)
        BY <1>20, <3>1 DEF Start, Under, Batches, EmptyCore, NoSnapshot
      <4>2. QED BY <1>11, <4>1, AheadUnder
    <3>2. CASE snap # NoSnapshot
      <4>1. core' = Prune(snap, Wall) /\ Under(core', snap)
        BY <1>1, <1>20, <3>2, PruneUnder DEF Start
      <4>2. QED BY <1>11, <4>1, AheadUnder
    <3>3. QED BY <3>1, <3>2
  <2>2. QED BY <1>4, <1>20, <2>1 DEF Start, time, etcd, handedOut
<1>21. ASSUME NEW i \in Identities, LeaseExpires(i) PROVE ReleaseInv' /\ [progress' >= progress]_queueVars
  BY <1>4, <1>21 DEF LeaseExpires, time, memory, handedOut
<1>22. CASE Tick
  BY <1>4, <1>22 DEF Tick, memory, etcd, handedOut
<1>23. CASE ClockSet
  BY <1>4, <1>23 DEF ClockSet, memory, etcd, handedOut
<1>24. CASE UNCHANGED queueVars
  BY <1>4, <1>24 DEF queueVars, time, memory, etcd, handedOut
<1>25. QED
  BY <1>7, <1>8, <1>9, <1>10, <1>13, <1>14, <1>16, <1>17, <1>18, <1>19, <1>20,
     <1>21, <1>22, <1>23, <1>24 DEF QueueNext, Issue, ReleaseFrame

(* A release that a client has seen, as a grant or as progress, is durable *)
(* and never takes place again at another time, over every pattern of lost *)
(* answers, crashes and clocks set back, unless etcd applies a write after *)
(* its sender gave up.                                                     *)
THEOREM ReleasesStay ==
    ASSUME MaxLate = 0
    PROVE  QueueSpec => ReleasesKept
<1>1. ReleaseInv /\ [QueueNext]_queueVars => ReleaseInv' /\ [progress' >= progress]_queueVars
  BY NextReleaseInv
<1>2. ReleaseInv => OneWindow /\ GrantsReleased
  BY DEF ReleaseInv, GrantsReleased, Ahead, Kept
<1>3. QED BY <1>1, <1>2, InitReleaseInv, PTL DEF QueueSpec, ReleasesKept, ProgressMonotone

-----------------------------------------------------------------------------
(* One number for one identity.                                            *)

(* Every lease, in the cache, on a mapping or on a write that may still be *)
(* applied, ends with the identity's bucket or later.                      *)
LeasesLast ==
    /\ \A b \in DOMAIN leases : leases[b] >= b
    /\ \A i \in Identities : Mapped(i) => issuance[i].lease >= Bucket(i)
    /\ \A w \in late, i \in Identities : i \in w.id => w.map.lease >= Bucket(i)

(* As long as its identity can be used a token is the one that its mapping *)
(* gives again.                                                            *)
TokensMapped ==
    \A t \in tokens :
        /\ t.id \in Identities
        /\ clock >= Bucket(t.id) \/ (Mapped(t.id) /\ t = Token(t.id, issuance[t.id]))

(* The inductive invariant behind StableNumber. *)
StableInv ==
    /\ TypeOK
    /\ LeasesLast
    /\ TokensMapped
    /\ StableNumber

LEMMA InitStableInv == QueueInit => StableInv
BY InitTypeOK DEF QueueInit, StableInv, LeasesLast, TokensMapped, StableNumber, Mapped, NoLeases

LEMMA NextStableInv ==
    ASSUME \A i \in Identities : IdentityExpiry[i] + MaxStepBack <= Bucket(i),
           StableInv, [QueueNext]_queueVars
    PROVE  StableInv'
<1> USE DEF StableInv
<1>0. TypeOK'
  BY NextTypeOK
<1>1. /\ clock \in Nat /\ clock' \in Nat /\ drift \in Nat /\ drift <= MaxStepBack /\ Wall = clock - drift
      /\ MaxStepBack \in Nat
      /\ \A i \in Identities : Bucket(i) \in Nat /\ IdentityExpiry[i] \in Nat
  BY <1>0, BucketCoversExpiry, ConstantsAssumption DEF TypeOK, Wall
(* While an identity gets a number its bucket is not over. *)
<1>2. ASSUME NEW i \in Identities, IssueReady(i) PROVE clock < Bucket(i)
  BY <1>1, <1>2 DEF IssueReady
<1>3. ASSUME NEW i \in Identities
      PROVE  /\ \A b \in DOMAIN LeasesWith(i) : LeasesWith(i)[b] >= b
             /\ NewMapping(i).lease >= Bucket(i)
  <2>1. DOMAIN LeasesWith(i) = CachedBuckets \cup {Bucket(i)}
    BY DEF LeasesWith
  <2>2. \A b \in CachedBuckets : b \in DOMAIN leases
    BY DEF CachedBuckets
  <2>3. \A b \in DOMAIN LeasesWith(i) : LeasesWith(i)[b] >= b
    BY <1>1, <2>1, <2>2 DEF LeasesWith, LeasesLast
  <2>4. QED BY <2>1, <2>3 DEF NewMapping
(* A step that gives out no token and leaves the mappings alone. *)
<1>4. ASSUME UNCHANGED <<issuance, tokens>>, clock' >= clock,
             late' \subseteq late, \A b \in DOMAIN leases' : leases'[b] >= b
      PROVE  StableInv'
  <2>1. LeasesLast'
    BY <1>4 DEF LeasesLast, Mapped, Bucket
  <2>2. TokensMapped'
    <3>1. \A t \in tokens :
            /\ t.id \in Identities
            /\ \/ clock' >= Bucket(t.id)
               \/ issuance[t.id] # NoMapping /\ t = Token(t.id, issuance[t.id])
      BY <1>1, <1>4 DEF TokensMapped, Mapped
    <3>2. QED BY <1>4, <3>1 DEF TokensMapped, Mapped, Bucket, Token
  <2>3. StableNumber'
    BY <1>4 DEF StableNumber
  <2>4. QED BY <1>0, <2>1, <2>2, <2>3
<1>5. ASSUME NEW i \in Identities, IssueReady(i), leases' = LeasesWith(i), UNCHANGED clock,
             \/ issuance' = issuance
             \/ /\ ~Mapped(i)
                /\ issuance' = [issuance EXCEPT ![i] = NewMapping(i)],
             \/ late' = late
             \/ \E s : late' = late \cup {[id |-> {i}, map |-> NewMapping(i), snap |-> s]},
             \/ tokens' = tokens
             \/ /\ issuance'[i] # NoMapping
                /\ tokens' = tokens \cup {Token(i, issuance'[i])}
      PROVE  StableInv'
  <2>1. /\ issuance'[i] = issuance[i] \/ (~Mapped(i) /\ issuance'[i] = NewMapping(i))
        /\ \A j \in Identities : j # i => issuance'[j] = issuance[j]
    BY <1>5 DEF TypeOK
  <2>2. LeasesLast'
    <3>1. \A b \in DOMAIN leases' : leases'[b] >= b
      BY <1>3, <1>5
    <3>2. \A j \in Identities : issuance'[j] # NoMapping => issuance'[j].lease >= Bucket(j)
      BY <1>3, <2>1 DEF LeasesLast, Mapped
    <3>3. \A w \in late', j \in Identities : j \in w.id => w.map.lease >= Bucket(j)
      BY <1>3, <1>5 DEF LeasesLast
    <3>4. QED BY <3>1, <3>2, <3>3 DEF LeasesLast, Mapped, Bucket
  <2>3. \A t \in tokens : t.id = i => Mapped(i) /\ t = Token(i, issuance[i])
    BY <1>1, <1>2, <1>5 DEF TokensMapped
  <2>4. \A t \in tokens : t.id = i => issuance'[i] # NoMapping /\ t = Token(i, issuance'[i])
    BY <2>1, <2>3 DEF Mapped
  <2>5. Token(i, issuance'[i]).id = i
    BY DEF Token
  <2>6. TokensMapped'
    <3>1. SUFFICES ASSUME NEW t \in tokens'
                   PROVE  /\ t.id \in Identities
                          /\ \/ clock >= Bucket(t.id)
                             \/ (issuance'[t.id] # NoMapping /\ t = Token(t.id, issuance'[t.id]))
      BY <1>5 DEF TokensMapped, Mapped, Bucket, Token
    <3>2. CASE t \in tokens /\ t.id # i
      BY <2>1, <3>2 DEF TokensMapped, Mapped
    <3>3. CASE t \in tokens /\ t.id = i
      BY <2>4, <3>3
    <3>4. CASE t \notin tokens
      BY <1>5, <2>5, <3>4
    <3>5. QED BY <3>2, <3>3, <3>4
  <2>7. StableNumber'
    BY <1>5, <2>4, <2>5 DEF StableNumber
  <2>8. QED BY <1>0, <2>2, <2>6, <2>7
<1>6. ASSUME NEW i \in Identities, IssueWithoutLease(i) PROVE StableInv'
  <2>1. \A b \in DOMAIN leases' : leases'[b] >= b
    BY <1>6 DEF IssueWithoutLease, CachedBuckets, LeasesLast
  <2>2. QED BY <1>1, <1>4, <1>6, <2>1 DEF IssueWithoutLease, time, etcd, handedOut
<1>7. ASSUME NEW i \in Identities, ApplyTxn(i)
      PROVE  \/ issuance' = issuance
             \/ /\ ~Mapped(i)
                /\ issuance' = [issuance EXCEPT ![i] = NewMapping(i)]
  BY <1>7 DEF ApplyTxn, TxnWrites
<1>8. ASSUME NEW i \in Identities, Deliver(i, issuance'[i], snap')
      PROVE  tokens' = tokens \/ tokens' = tokens \cup {Token(i, issuance'[i])}
  BY <1>8 DEF Deliver
<1>9. ASSUME NEW i \in Identities, IssueReady(i), ApplyTxn(i), TxnWrites(i)
      PROVE  issuance'[i] # NoMapping
  <2>1. issuance'[i].lease >= Bucket(i)
    BY <1>3, <1>9 DEF ApplyTxn, TypeOK
  <2>2. Bucket(i) > NoMapping.lease
    BY <1>1, <1>2, <1>9 DEF NoMapping
  <2>3. QED BY <1>1, <2>1, <2>2 DEF NoMapping
<1>10. ASSUME NEW i \in Identities, IssueAnswered(i) PROVE StableInv'
  <2>1. IssueReady(i) /\ leases' = LeasesWith(i) /\ UNCHANGED <<clock, late>> /\ ApplyTxn(i)
    BY <1>10 DEF IssueAnswered, time
  <2>2. \/ tokens' = tokens
        \/ /\ issuance'[i] # NoMapping
                /\ tokens' = tokens \cup {Token(i, issuance'[i])}
    BY <1>8, <1>9, <1>10, <2>1 DEF IssueAnswered, ApplyTxn, Recoverable
  <2>3. QED BY <1>5, <1>7, <2>1, <2>2
<1>11. ASSUME NEW i \in Identities, IssueUnanswered(i) PROVE StableInv'
  <2>1. IssueReady(i) /\ leases' = LeasesWith(i) /\ UNCHANGED clock
    BY <1>11 DEF IssueUnanswered, time
  <2>2. \/ issuance' = issuance
        \/ /\ ~Mapped(i)
                /\ issuance' = [issuance EXCEPT ![i] = NewMapping(i)]
    BY <1>7, <1>11 DEF IssueUnanswered
  <2>3. \/ late' = late
        \/ \E s : late' = late \cup {[id |-> {i}, map |-> NewMapping(i), snap |-> s]}
    BY <1>11 DEF IssueUnanswered
  <2>4. \/ tokens' = tokens
        \/ /\ issuance'[i] # NoMapping
                /\ tokens' = tokens \cup {Token(i, issuance'[i])}
    BY <1>8, <1>11 DEF IssueUnanswered, Recoverable
  <2>5. QED BY <1>5, <2>1, <2>2, <2>3, <2>4
<1>12. ASSUME UNCHANGED leases \/ leases' = NoLeases
       PROVE  \A b \in DOMAIN leases' : leases'[b] >= b
  BY <1>12 DEF NoLeases, LeasesLast
<1>13. CASE RefreshBudgets \/ ReleaseNothing \/ ReleaseClockBack \/ ReleaseSaved \/ Crash
  BY <1>1, <1>4, <1>12, <1>13 DEF RefreshBudgets, ReleaseNothing, ReleaseClockBack, ReleaseSaved, Crash,
     time, etcd, handedOut
<1>14. CASE ReleaseNotSaved
  <2>1. UNCHANGED <<clock, leases, issuance, tokens>>
    BY <1>14 DEF ReleaseNotSaved, time, handedOut
  <2>2. \/ late' = late
        \/ \E s : late' = late \cup {[id |-> {}, map |-> NoMapping, snap |-> s]}
    BY <1>14 DEF ReleaseNotSaved
  <2>3. LeasesLast'
    BY <2>1, <2>2 DEF LeasesLast, Mapped, Bucket
  <2>4. TokensMapped' /\ StableNumber'
    BY <2>1 DEF TokensMapped, StableNumber, Mapped, Bucket, Token
  <2>5. QED BY <1>0, <2>3, <2>4
<1>15. CASE (\E t \in tokens : Query(t)) \/ Progress \/ Start
  BY <1>1, <1>4, <1>12, <1>15 DEF Query, Progress, Start, time, memory, etcd, handedOut
<1>16. CASE Tick \/ ClockSet \/ UNCHANGED queueVars
  BY <1>1, <1>4, <1>12, <1>16 DEF Tick, ClockSet, queueVars, time, memory, etcd, handedOut
(* A mapping goes only when its bucket is over. *)
<1>17. ASSUME NEW i \in Identities, LeaseExpires(i) PROVE StableInv'
  <2>1. /\ issuance'[i] = NoMapping /\ clock >= issuance[i].lease /\ Mapped(i)
        /\ \A j \in Identities : j # i => issuance'[j] = issuance[j]
    BY <1>17 DEF LeaseExpires, TypeOK
  <2>2. UNCHANGED <<clock, leases, late, tokens>>
    BY <1>17 DEF LeaseExpires, time, memory, handedOut
  <2>3. clock >= Bucket(i)
    BY <1>1, <2>1 DEF LeasesLast, TypeOK, Mapping
  <2>4. LeasesLast'
    BY <2>1, <2>2 DEF LeasesLast, Mapped, Bucket
  <2>5. TokensMapped'
    <3>1. \A t \in tokens :
            /\ t.id \in Identities
            /\ clock >= Bucket(t.id)
                 \/ (issuance'[t.id] # NoMapping /\ t = Token(t.id, issuance'[t.id]))
      BY <2>1, <2>3 DEF TokensMapped, Mapped
    <3>2. QED BY <2>2, <3>1 DEF TokensMapped, Mapped, Bucket, Token
  <2>6. QED BY <1>0, <2>2, <2>4, <2>5 DEF StableNumber
(* A late write meets no mapping that it could replace. *)
<1>18. ASSUME NEW w \in late, ApplyLate(w) PROVE StableInv'
  <2>1. UNCHANGED <<clock, leases, tokens>> /\ late' \subseteq late
    BY <1>18 DEF ApplyLate, time, memory, handedOut
  <2>2. CASE UNCHANGED issuance
    BY <1>1, <1>4, <1>12, <2>1, <2>2
  <2>3. CASE /\ \A i \in w.id : ~Mapped(i)
             /\ issuance' = [i \in Identities |-> IF i \in w.id THEN w.map ELSE issuance[i]]
    <3>1. LeasesLast'
      BY <2>1, <2>3 DEF LeasesLast, Mapped, Bucket
    <3>2. \A t \in tokens :
            /\ t.id \in Identities
            /\ clock >= Bucket(t.id)
                 \/ (issuance'[t.id] # NoMapping /\ t = Token(t.id, issuance'[t.id]))
      BY <2>3 DEF TokensMapped, Mapped
    <3>3. TokensMapped'
      BY <2>1, <3>2 DEF TokensMapped, Mapped, Bucket, Token
    <3>4. QED BY <1>0, <2>1, <3>1, <3>3 DEF StableNumber
  <2>4. QED BY <1>18, <2>2, <2>3 DEF ApplyLate
<1>19. QED
  BY <1>6, <1>10, <1>11, <1>13, <1>14, <1>15, <1>16, <1>17, <1>18 DEF QueueNext, Issue, ReleaseFrame

(* Asking again, over lost answers, late writes, crashes and restarts,     *)
(* gives the number of before, if the clock is never set back by more than *)
(* a lease outlives its identity (which for a clock that is never set back *)
(* is so).                                                                 *)
THEOREM NumberStays ==
    ASSUME \A i \in Identities : IdentityExpiry[i] + MaxStepBack <= Bucket(i)
    PROVE  QueueSpec => []StableNumber
<1>1. StableInv /\ [QueueNext]_queueVars => StableInv'
  BY NextStableInv
<1>2. StableInv => StableNumber
  BY DEF StableInv
<1>3. QED BY <1>1, <1>2, InitStableInv, PTL DEF QueueSpec
=============================================================================
