----------------------------- MODULE MeshProofs -----------------------------
(***************************************************************************)
(* What a process of the mesh is made of: its services, the registry of    *)
(* one of them and the logger.  For every service list, every number of    *)
(* leases, lives, failures and changes of the budget, no service runs      *)
(* without what it needs (WholeOrDown), and the resolver is ready only     *)
(* with all that its watch knows (ReadyMeansComplete).  For any number of  *)
(* threads that log, any capacity of the queues and any number of events   *)
(* and of failures of the sink, no event that log() accepted is lost       *)
(* (AcceptedIsKept).                                                       *)
(*                                                                         *)
(* The first part is about the list alone: a list that is accepted has     *)
(* every service in a later wave than what it needs.                       *)
(***************************************************************************)
EXTENDS MeshHost, Logger, FiniteSetTheorems, WellFoundedInduction, TLAPS

-----------------------------------------------------------------------------
(* The topology.                                                           *)

(* A nonempty set of natural numbers has a least element. *)
LEMMA LeastOf ==
    ASSUME NEW T, T \subseteq Nat, T # {}
    PROVE  \E x \in T : \A y \in T : x <= y
<1> DEFINE R == {p \in Nat \X Nat : p[1] < p[2]}
<1>1. IsWellFoundedOn(R, Nat)
  BY NatLessThanWellFounded, Zenon DEF OpToRel
<1> HIDE DEF R
<1>2. PICK x \in T : \A y \in T : ~(<<y, x>> \in R)
  BY <1>1, WFMin
<1>3. \A y \in T : ~(y < x)
  BY <1>2 DEF R
<1> QED BY <1>2, <1>3

(* A round of Kahn's algorithm, and the first n rounds. *)
Ripe(S) == {i \in Services : Dependencies(i) \subseteq S}
Rounds(g, n) == g = [k \in 0..n |-> IF k = 0 THEN {} ELSE Ripe(g[k - 1])]

(* The rounds are determined: more of them begin with the same ones. *)
LEMMA RoundsAgree ==
    ASSUME NEW m \in Nat, NEW n \in Nat, m <= n,
           NEW g, Rounds(g, m), NEW h, Rounds(h, n)
    PROVE  \A k \in 0..m : g[k] = h[k]
<1> SUFFICES ASSUME NEW j \in 0..m, g[j] # h[j] PROVE FALSE
  OBVIOUS
<1> DEFINE T == {k \in 0..m : g[k] # h[k]}
<1>1. PICK x \in T : \A y \in T : x <= y
  <2>1. j \in T /\ T \subseteq Nat
    OBVIOUS
  <2> HIDE DEF T
  <2> QED BY <2>1, LeastOf
<1>2. x \in 0..m /\ x \in 0..n /\ g[x] # h[x]
  OBVIOUS
<1>3. g[x] = IF x = 0 THEN {} ELSE Ripe(g[x - 1])
  BY <1>2 DEF Rounds
<1>4. h[x] = IF x = 0 THEN {} ELSE Ripe(h[x - 1])
  BY <1>2 DEF Rounds
<1>5. x # 0
  BY <1>2, <1>3, <1>4
<1>6. x - 1 \in 0..m /\ ~(x <= x - 1)
  BY <1>2, <1>5
<1>7. g[x - 1] = h[x - 1]
  BY <1>1, <1>6
<1> QED BY <1>2, <1>3, <1>4, <1>5, <1>7

(* Any number of rounds can be made. *)
LEMMA RoundsExist == ASSUME NEW n \in Nat PROVE \E g : Rounds(g, n)
<1> SUFFICES ASSUME ~\E g : Rounds(g, n) PROVE FALSE
  OBVIOUS
<1> DEFINE T == {m \in Nat : ~\E g : Rounds(g, m)}
<1>1. PICK x \in T : \A y \in T : x <= y
  <2>1. n \in T /\ T \subseteq Nat
    OBVIOUS
  <2> HIDE DEF T
  <2> QED BY <2>1, LeastOf
<1>2. x # 0
  <2> SUFFICES ASSUME x = 0 PROVE FALSE
    OBVIOUS
  <2> DEFINE g == [k \in 0..0 |-> {}]
  <2>1. g = [k \in 0..0 |-> IF k = 0 THEN {} ELSE Ripe(g[k - 1])]
    OBVIOUS
  <2> HIDE DEF g
  <2>2. Rounds(g, x)
    BY <2>1 DEF Rounds
  <2> QED BY <2>2
<1>3. x \in Nat /\ x - 1 \in Nat /\ ~(x <= x - 1)
  BY <1>2
<1>4. PICK g : Rounds(g, x - 1)
  BY <1>1, <1>3
<1> DEFINE h == [k \in 0..x |-> IF k = x THEN Ripe(g[x - 1]) ELSE g[k]]
<1>5. ASSUME NEW k \in 0..x PROVE h[k] = IF k = 0 THEN {} ELSE Ripe(h[k - 1])
  <2>1. CASE k = x
    <3>1. k - 1 \in 0..x /\ k - 1 # x /\ k # 0
      BY <1>2, <1>3, <2>1
    <3>2. h[k - 1] = g[k - 1] /\ h[k] = Ripe(g[x - 1])
      BY <2>1, <3>1
    <3> QED BY <2>1, <3>1, <3>2
  <2>2. CASE k # x
    <3>1. k \in 0..(x - 1)
      BY <1>3, <2>2
    <3>2. h[k] = IF k = 0 THEN {} ELSE Ripe(g[k - 1])
      BY <1>4, <2>2, <3>1 DEF Rounds
    <3>3. k # 0 => k - 1 \in 0..x /\ k - 1 # x
      BY <1>3, <3>1
    <3> QED BY <3>2, <3>3
  <2> QED BY <2>1, <2>2
<1>6. h = [k \in 0..x |-> IF k = 0 THEN {} ELSE Ripe(h[k - 1])]
  <2>1. h = [k \in 0..x |-> h[k]]
    OBVIOUS
  <2> HIDE DEF h
  <2> QED BY <1>5, <2>1
<1>7. Rounds(h, x)
  <2> HIDE DEF h
  <2> QED BY <1>6 DEF Rounds
<1> QED BY <1>7

(* The recursion of Settled has a solution. *)
LEMMA SettledRounds ==
    Settled = [n \in Nat |-> IF n = 0 THEN {} ELSE Ripe(Settled[n - 1])]
<1> DEFINE r(n) == CHOOSE g : Rounds(g, n)
           f == [n \in Nat |-> r(n)[n]]
<1>1. ASSUME NEW n \in Nat PROVE Rounds(r(n), n)
  BY RoundsExist
<1> HIDE DEF r
<1>2. ASSUME NEW n \in Nat PROVE f[n] = IF n = 0 THEN {} ELSE Ripe(f[n - 1])
  <2>1. r(n)[n] = IF n = 0 THEN {} ELSE Ripe(r(n)[n - 1])
    <3>1. n \in 0..n
      OBVIOUS
    <3> QED BY <1>1, <3>1 DEF Rounds
  <2>2. CASE n = 0
    BY <2>1, <2>2
  <2>3. CASE n # 0
    <3>1. n - 1 \in Nat /\ n - 1 <= n /\ n - 1 \in 0..(n - 1)
      BY <2>3
    <3>2. r(n - 1)[n - 1] = r(n)[n - 1]
      BY <1>1, <3>1, RoundsAgree
    <3>3. f[n] = r(n)[n] /\ f[n - 1] = r(n - 1)[n - 1]
      BY <3>1
    <3> QED BY <2>1, <2>3, <3>2, <3>3
  <2> QED BY <2>2, <2>3
<1>3. f = [n \in Nat |-> f[n]]
  OBVIOUS
<1> HIDE DEF f
<1>4. f = [n \in Nat |-> IF n = 0 THEN {} ELSE Ripe(f[n - 1])]
  BY <1>2, <1>3
<1>5. Settled = CHOOSE s : s = [n \in Nat |-> IF n = 0 THEN {} ELSE Ripe(s[n - 1])]
  BY DEF Settled, Ripe
<1> QED BY <1>4, <1>5

(* Rounds of Kahn's algorithm only add services. *)
LEMMA SettledStep ==
    /\ Settled[0] = {}
    /\ \A n \in Nat : n # 0 => Settled[n] = Ripe(Settled[n - 1])
<1> DEFINE f == Settled
<1>1. f = [n \in Nat |-> IF n = 0 THEN {} ELSE Ripe(f[n - 1])]
  BY SettledRounds
<1> HIDE DEF f
<1>2. f[0] = {} /\ \A n \in Nat : n # 0 => f[n] = Ripe(f[n - 1])
  BY <1>1
<1> QED BY <1>2 DEF f

(* A round keeps what the one before it settled. *)
LEMMA SettledNext == ASSUME NEW n \in Nat PROVE Settled[n] \subseteq Settled[n + 1]
<1> DEFINE f == Settled
<1>0. f[0] = {} /\ \A m \in Nat : m # 0 => f[m] = Ripe(f[m - 1])
  BY SettledStep
<1> HIDE DEF f
<1> SUFFICES ASSUME ~(f[n] \subseteq f[n + 1]) PROVE FALSE
  BY DEF f
<1> DEFINE T == {m \in Nat : ~(f[m] \subseteq f[m + 1])}
<1>1. PICK x \in T : \A y \in T : x <= y
  <2>1. n \in T /\ T \subseteq Nat
    OBVIOUS
  <2> HIDE DEF T
  <2> QED BY <2>1, LeastOf
<1>2. x # 0
  BY <1>0, <1>1
<1>3. x \in Nat /\ x - 1 \in Nat /\ ~(x <= x - 1) /\ x - 1 + 1 = x /\ x + 1 \in Nat /\ x + 1 # 0
      /\ x + 1 - 1 = x
  BY <1>2
<1>4. f[x - 1] \subseteq f[x]
  BY <1>1, <1>3
<1>5. f[x] = Ripe(f[x - 1]) /\ f[x + 1] = Ripe(f[x])
  BY <1>0, <1>2, <1>3
<1>6. Ripe(f[x - 1]) \subseteq Ripe(f[x])
  BY <1>4 DEF Ripe
<1> QED BY <1>5, <1>6, <1>1

(* And so do all later ones. *)
LEMMA SettledGrows ==
    ASSUME NEW m \in Nat, NEW n \in Nat, m <= n
    PROVE  Settled[m] \subseteq Settled[n]
<1> DEFINE f == Settled
<1>0. \A k \in Nat : f[k] \subseteq f[k + 1]
  BY SettledNext
<1> HIDE DEF f
<1> SUFFICES ASSUME ~(f[m] \subseteq f[n]) PROVE FALSE
  BY DEF f
<1> DEFINE T == {k \in Nat : m <= k /\ ~(f[m] \subseteq f[k])}
<1>1. PICK x \in T : \A y \in T : x <= y
  <2>1. n \in T /\ T \subseteq Nat
    OBVIOUS
  <2> HIDE DEF T
  <2> QED BY <2>1, LeastOf
<1>2. x # m /\ m <= x /\ x \in Nat
  BY <1>1
<1>3. x - 1 \in Nat /\ m <= x - 1 /\ ~(x <= x - 1) /\ x - 1 + 1 = x
  BY <1>2
<1>4. f[m] \subseteq f[x - 1]
  BY <1>1, <1>3
<1>5. f[x - 1] \subseteq f[x]
  BY <1>0, <1>3
<1> QED BY <1>1, <1>4, <1>5

(* A service that is no entry settles in one of the first rounds. *)
LEMMA WaveOf ==
    ASSUME Accepted, Len(specs) \in Nat, NEW i \in Services, ~specs[i].entry
    PROVE  Wave(i) \in Services /\ i \in Settled[Wave(i)] /\ i \notin Settled[Wave(i) - 1]
<1> DEFINE f == Settled
<1>0. f[0] = {} /\ i \in f[Len(specs)]
  BY SettledStep DEF Accepted
<1>1. Wave(i) = CHOOSE n \in Services : i \in f[n] /\ i \notin f[n - 1]
  BY DEF Wave
<1> HIDE DEF f
<1> DEFINE T == {n \in Nat : i \in f[n]}
<1>2. PICK x \in T : \A y \in T : x <= y
  <2>1. Len(specs) \in T /\ T \subseteq Nat
    BY <1>0
  <2> HIDE DEF T
  <2> QED BY <2>1, LeastOf
<1>3. x <= Len(specs) /\ x \in Nat /\ i \in f[x]
  BY <1>0, <1>2
<1>4. x # 0
  BY <1>0, <1>3
<1>5. x - 1 \in Nat /\ ~(x <= x - 1)
  BY <1>3, <1>4
<1>6. i \notin f[x - 1]
  BY <1>2, <1>5
<1>7. x \in Services
  BY <1>3, <1>4 DEF Services
<1>8. \E n \in Services : i \in f[n] /\ i \notin f[n - 1]
  BY <1>3, <1>6, <1>7
<1>9. Wave(i) \in Services /\ i \in f[Wave(i)] /\ i \notin f[Wave(i) - 1]
  BY <1>1, <1>8
<1> QED BY <1>9 DEF f

(* What a service needs to be there: what it depends on, and for an entry  *)
(* all that are none.                                                      *)
Needs(i) == {j \in Services : j \in Dependencies(i) \/ (specs[i].entry /\ ~specs[j].entry)}

(* A list that is accepted has every service in a later wave than what it  *)
(* needs.                                                                  *)
LEMMA WavesOrdered ==
    ASSUME Accepted, Len(specs) \in Nat
    PROVE  /\ \A i \in Services : Wave(i) \in Nat
           /\ \A i \in Services : \A j \in Needs(i) : Wave(j) < Wave(i)
<1>1. ASSUME NEW i \in Services, specs[i].entry PROVE Wave(i) = Len(specs) + 1
  BY <1>1 DEF Wave
<1>2. ASSUME NEW i \in Services, ~specs[i].entry PROVE Wave(i) \in 1..Len(specs)
  BY <1>2, WaveOf DEF Services
<1>3. ASSUME NEW i \in Services, NEW j \in Dependencies(i) PROVE j \in Services /\ ~specs[j].entry
  <2>1. j \in Services /\ specs[j].name \in specs[i].deps
    BY <1>3 DEF Dependencies
  <2>2. PICK k \in Services : specs[k].name = specs[j].name /\ ~specs[k].entry
    BY <2>1 DEF Accepted, Valid
  <2>3. k = j
    BY <2>1, <2>2 DEF Accepted, Valid
  <2> QED BY <2>1, <2>2, <2>3
<1>4. ASSUME NEW i \in Services, NEW j \in Needs(i) PROVE Wave(j) < Wave(i)
  <2>1. j \in Services /\ ~specs[j].entry
    BY <1>3 DEF Needs
  <2>2. Wave(j) \in 1..Len(specs)
    BY <1>2, <2>1
  <2>3. CASE specs[i].entry
    BY <1>1, <2>2, <2>3
  <2>4. CASE ~specs[i].entry
    <3> DEFINE f == Settled
    <3>1. Wave(i) \in 1..Len(specs) /\ i \in f[Wave(i)]
      BY <2>4, WaveOf DEF Services
    <3>2. j \notin f[Wave(j) - 1]
      BY <2>1, WaveOf
    <3>3. Wave(i) # 0 /\ Wave(i) \in Nat /\ Wave(i) - 1 \in Nat /\ Wave(j) - 1 \in Nat
      BY <2>2, <3>1
    <3>4. f[Wave(i)] = Ripe(f[Wave(i) - 1])
      BY <3>3, SettledStep
    <3>5. j \in f[Wave(i) - 1]
      BY <2>4, <3>1, <3>4 DEF Ripe, Needs
    <3>6. Wave(i) - 1 <= Wave(j) - 1 => f[Wave(i) - 1] \subseteq f[Wave(j) - 1]
      BY <3>3, SettledGrows
    <3> HIDE DEF f
    <3> QED BY <2>2, <3>1, <3>2, <3>5, <3>6
  <2> QED BY <2>3, <2>4
<1> QED BY <1>1, <1>2, <1>4

-----------------------------------------------------------------------------
(* The registry: types.                                                    *)

Keys == {"inst", "budget"}
Entries == [value : Nat, lease : Leases]
Registration == [lease : Leases, leased : Nat \cup {None}]
Refresh == [pc : {"inst", "budget", "swap", "old", "failed"}, lease : Leases, old : Leases,
            leased : Nat \cup {None}]
Putting == [pc : {"put", "done", "failed"}, lease : Leases, value : Nat]
Watched == [instance : Nat \cup {None}, published : BOOLEAN]
Delivery == [instance : Nat \cup {None}]
Polling == [pc : {"read", "events"}, next : Nat \cup {None}, old : Nat \cup {None}]

EtcdTypeOK ==
    /\ kv \in [Keys -> Entries \cup {None}]
    /\ live \subseteq Leases
    /\ pending \subseteq [key : Keys, entry : Entries]

ServiceTypeOK ==
    /\ inc \in Nat /\ free \in Nat
    /\ running \in BOOLEAN /\ leaving \in BOOLEAN
    /\ register \in Leases \cup {None}
    /\ reg \in Registration \cup {None}
    /\ refresh \in Refresh \cup {None}
    /\ refresh # None => (refresh.pc = "budget" => refresh.leased # None)
    /\ put \in Putting \cup {None}
    /\ put # None => reg # None

ResolverTypeOK ==
    /\ watch \in Watched \cup {None}
    /\ deliver \in Delivery \cup {None}
    /\ poll \in Polling \cup {None}
    /\ view \in Nat \cup {None}
    /\ deliver # None => watch # None
    /\ poll # None => watch # None

RegistryTypeOK == EtcdTypeOK /\ ServiceTypeOK /\ ResolverTypeOK

(* None is none of the records. *)
LEMMA NoneIsNone ==
    /\ \A r \in Registration : r # None
    /\ \A w \in Watched : w # None
    /\ \A d \in Delivery : d # None
    /\ \A p \in Polling : p # None
BY RegistryAssumption DEF Registration, Watched, Delivery, Polling

(* A put, however it goes. *)
LEMMA TryTypes ==
    ASSUME EtcdTypeOK, NEW k \in Keys, NEW entry \in Entries,
           \/ kv' = PutIn(kv, k, entry) /\ UNCHANGED <<live, pending>>
           \/ UNCHANGED <<kv, live, pending>>
           \/ pending' = pending \cup {[key |-> k, entry |-> entry]} /\ UNCHANGED <<kv, live>>
    PROVE  EtcdTypeOK'
BY DEF EtcdTypeOK, PutIn, Keys

(* Revoking a lease only removes keys. *)
LEMMA RevokeTypes == ASSUME EtcdTypeOK, NEW l, Revoke(l) PROVE EtcdTypeOK'
<1>1. kv' = [k \in DOMAIN kv |->
               IF kv[k] = None THEN None ELSE IF kv[k].lease = l THEN None ELSE kv[k]]
  BY DEF Revoke, Kept
<1>2. \A k \in Keys : kv'[k] \in {None, kv[k]}
  BY <1>1 DEF EtcdTypeOK
<1>3. kv' \in [Keys -> Entries \cup {None}]
  BY <1>1, <1>2 DEF EtcdTypeOK
<1>4. live' \subseteq Leases /\ pending' = pending
  BY DEF Revoke, EtcdTypeOK
<1> QED BY <1>3, <1>4 DEF EtcdTypeOK

(* The same if the answer, or the request, was lost. *)
LEMMA RevokedTypes == ASSUME EtcdTypeOK, NEW l, Revoked(l) PROVE EtcdTypeOK'
<1>1. CASE Revoke(l)
  BY <1>1, RevokeTypes
<1>2. CASE UNCHANGED etcd
  BY <1>2 DEF etcd, EtcdTypeOK
<1> QED BY <1>1, <1>2 DEF Revoked

(* register_instance keeps the types. *)
LEMMA RegisterTypes ==
    ASSUME RegistryTypeOK, RegisterStart \/ RegisterTxn \/ RegisterFails
    PROVE  RegistryTypeOK'
<1> USE DEF RegistryTypeOK
<1>1. CASE RegisterStart
  BY <1>1 DEF RegisterStart, Grant, EtcdTypeOK, ServiceTypeOK, ResolverTypeOK, resolver
<1>2. CASE RegisterTxn
  <2>1. Entry(inc, register) \in Entries /\ Registered \in Registration
    BY <1>2, RegistryAssumption DEF RegisterTxn, Entry, Entries, Registered, Registration, ServiceTypeOK
  <2>2. EtcdTypeOK'
    BY <1>2, <2>1 DEF RegisterTxn, EtcdTypeOK
  <2> QED BY <1>2, <2>1, <2>2, NoneIsNone DEF RegisterTxn, ServiceTypeOK, ResolverTypeOK, resolver
<1>3. CASE RegisterFails
  <2>1. EtcdTypeOK'
    BY <1>3, RevokeTypes, RevokedTypes DEF RegisterFails
  <2> QED BY <1>3, <2>1 DEF RegisterFails, ServiceTypeOK, ResolverTypeOK, resolver
<1> QED BY <1>1, <1>2, <1>3

(* refresh_registration keeps the types. *)
LEMMA RefreshTypes == ASSUME RegistryTypeOK, Refresher PROVE RegistryTypeOK'
<1> USE DEF RegistryTypeOK
<1>1. CASE RefreshStart
  <2>1. reg \in Registration
    BY <1>1 DEF RefreshStart, ServiceTypeOK
  <2> QED BY <1>1, <2>1 DEF RefreshStart, Grant, EtcdTypeOK, ServiceTypeOK, ResolverTypeOK, resolver,
             Refresh, Registration
<1>2. CASE RefreshInstance
  <2>1. refresh \in Refresh /\ refresh.pc = "inst" /\ Entry(inc, refresh.lease) \in Entries
    BY <1>2 DEF RefreshInstance, At, ServiceTypeOK, Refresh, Entry, Entries
  <2>2. EtcdTypeOK'
    BY <1>2, <2>1, TryTypes DEF RefreshInstance, Try, Keys
  <2>3. PICK ok \in BOOLEAN : refresh' = [refresh EXCEPT !.pc =
                      IF ~ok THEN "failed" ELSE IF @ = "inst" /\ refresh.leased # None
                        THEN "budget" ELSE "swap"]
    BY <1>2 DEF RefreshInstance, Try
  <2>4. refresh' \in Refresh /\ (refresh'.pc = "budget" => refresh'.leased # None)
    BY <2>1, <2>3 DEF Refresh
  <2> QED BY <1>2, <2>2, <2>4 DEF RefreshInstance, ServiceTypeOK, ResolverTypeOK, resolver
<1>3. CASE RefreshBudget
  <2>1. refresh \in Refresh /\ Entry(refresh.leased, refresh.lease) \in Entries
    BY <1>3 DEF RefreshBudget, At, ServiceTypeOK, Refresh, Entry, Entries
  <2>2. EtcdTypeOK'
    BY <1>3, <2>1, TryTypes DEF RefreshBudget, Try, Keys
  <2>3. PICK ok \in BOOLEAN : refresh' = [refresh EXCEPT !.pc = IF ok THEN "swap" ELSE "failed"]
    BY <1>3 DEF RefreshBudget, Try
  <2>4. refresh' \in Refresh /\ refresh'.pc # "budget"
    BY <2>1, <2>3 DEF Refresh
  <2> QED BY <1>3, <2>2, <2>4 DEF RefreshBudget, ServiceTypeOK, ResolverTypeOK, resolver
<1>4. CASE RefreshSwap
  <2>1. refresh \in Refresh
    BY <1>4 DEF RefreshSwap, At, ServiceTypeOK
  <2>2. refresh' \in Refresh /\ refresh'.pc # "budget"
    BY <1>4, <2>1 DEF RefreshSwap, Refresh
  <2>3. reg' \in Registration \cup {None} /\ (reg # None => reg' # None)
    BY <1>4, <2>1, NoneIsNone DEF RefreshSwap, ServiceTypeOK, Refresh, Registration
  <2> QED BY <1>4, <2>2, <2>3 DEF RefreshSwap, EtcdTypeOK, ServiceTypeOK, ResolverTypeOK, resolver, etcd
<1>5. CASE RefreshEnd
  <2>1. EtcdTypeOK'
    BY <1>5, RevokedTypes DEF RefreshEnd
  <2> QED BY <1>5, <2>1 DEF RefreshEnd, ServiceTypeOK, ResolverTypeOK, resolver
<1> QED BY <1>1, <1>2, <1>3, <1>4, <1>5 DEF Refresher

(* publish and put_leased keep the types. *)
LEMMA PutTypes == ASSUME RegistryTypeOK, Putter PROVE RegistryTypeOK'
<1> USE DEF RegistryTypeOK
<1>1. CASE PutStart
  <2>1. reg \in Registration
    BY <1>1 DEF PutStart, ServiceTypeOK
  <2>2. put' \in Putting
    BY <1>1, <2>1 DEF PutStart, ServiceTypeOK, Putting, Registration
  <2> QED BY <1>1, <2>2 DEF PutStart, EtcdTypeOK, ServiceTypeOK, ResolverTypeOK, resolver, etcd
<1>2. CASE PutSent
  <2>1. put \in Putting /\ Entry(put.value, put.lease) \in Entries
    BY <1>2 DEF PutSent, ServiceTypeOK, Putting, Entry, Entries
  <2>2. EtcdTypeOK'
    BY <1>2, <2>1, TryTypes DEF PutSent, Try, Keys
  <2>3. PICK ok \in BOOLEAN : put' = [put EXCEPT !.pc = IF ok THEN "done" ELSE "failed"]
    BY <1>2 DEF PutSent, Try
  <2>4. put' \in Putting
    BY <2>1, <2>3 DEF Putting
  <2>5. put # None /\ UNCHANGED <<inc, running, leaving, register, reg, refresh, free, resolver>>
    BY <1>2 DEF PutSent
  <2> QED BY <2>2, <2>4, <2>5 DEF ServiceTypeOK, ResolverTypeOK, resolver
<1>3. CASE PutEnd
  <2>1. put \in Putting /\ reg \in Registration
    BY <1>3 DEF PutEnd, ServiceTypeOK
  <2>2. reg' \in Registration
    BY <1>3, <2>1 DEF PutEnd, Registration, Putting
  <2> QED BY <1>3, <2>2 DEF PutEnd, EtcdTypeOK, ServiceTypeOK, ResolverTypeOK, resolver, etcd
<1> QED BY <1>1, <1>2, <1>3 DEF Putter

(* What the host does with its registry keeps the types. *)
LEMMA HostTypes ==
    ASSUME RegistryTypeOK,
           \/ Wait \/ Change \/ Launch \/ Unregister \/ Joined \/ Crash
           \/ Down /\ UNCHANGED <<etcd, faults>>
    PROVE  RegistryTypeOK'
<1> USE DEF RegistryTypeOK
<1>1. CASE Wait
  BY <1>1 DEF Wait, EtcdTypeOK, ServiceTypeOK, ResolverTypeOK, resolver, etcd
<1>2. CASE Change
  BY <1>2, RegistryAssumption DEF Change, EtcdTypeOK, ServiceTypeOK, ResolverTypeOK, resolver, etcd
<1>3. CASE Launch
  BY <1>3 DEF Launch, EtcdTypeOK, ServiceTypeOK, ResolverTypeOK, resolver, etcd
<1>4. CASE Unregister
  <2>1. EtcdTypeOK'
    <3>1. CASE reg = None
      BY <1>4, <3>1 DEF Unregister, etcd, EtcdTypeOK
    <3>2. CASE reg # None
      BY <1>4, <3>2, RevokedTypes DEF Unregister
    <3> QED BY <3>1, <3>2
  <2> QED BY <1>4, <2>1 DEF Unregister, ServiceTypeOK, ResolverTypeOK, resolver
<1>5. ASSUME Down, UNCHANGED etcd PROVE RegistryTypeOK'
  BY <1>5, RegistryAssumption DEF Down, EtcdTypeOK, ServiceTypeOK, ResolverTypeOK, resolver, etcd
<1> QED BY <1>1, <1>2, <1>3, <1>4, <1>5 DEF Joined, Crash

(* What etcd does by itself keeps the types. *)
LEMMA EtcdTypes ==
    ASSUME RegistryTypeOK, LatePut \/ \E l \in Leases : Expire(l)
    PROVE  RegistryTypeOK'
<1> USE DEF RegistryTypeOK
<1>1. CASE LatePut
  <2>1. PICK p \in pending : pending' = pending \ {p} /\ kv' = PutIn(kv, p.key, p.entry) /\ live' = live
                             /\ UNCHANGED <<service, resolver>>
    BY <1>1 DEF LatePut
  <2>2. p.key \in Keys /\ p.entry \in Entries
    BY DEF EtcdTypeOK
  <2>3. EtcdTypeOK'
    BY <2>1, <2>2 DEF EtcdTypeOK, PutIn
  <2> QED BY <2>1, <2>3 DEF ServiceTypeOK, ResolverTypeOK, resolver, service
<1>2. ASSUME NEW l \in Leases, Expire(l) PROVE RegistryTypeOK'
  <2>1. EtcdTypeOK'
    BY <1>2, RevokeTypes DEF Expire
  <2> QED BY <1>2, <2>1 DEF Expire, ServiceTypeOK, ResolverTypeOK, resolver, service
<1> QED BY <1>1, <1>2

(* The watch and its polls keep the types. *)
LEMMA ResolverTypes == ASSUME RegistryTypeOK, Elsewhere PROVE RegistryTypeOK'
<1> USE DEF RegistryTypeOK
<1>0. EtcdTypeOK' /\ ServiceTypeOK'
  BY DEF Elsewhere, Poller, Watch, Delivered, PollRead, PollDiff, PollEvents, etcd, service,
         EtcdTypeOK, ServiceTypeOK
<1> SUFFICES ResolverTypeOK'
  BY <1>0
<1>1. Found \in Nat \cup {None}
  BY DEF Found, EtcdTypeOK, Entries, Keys
<1>2. CASE Watch
  <2>1. watch' \in Watched
    <3>1. PICK v \in {Found, None} : watch' = [instance |-> v, published |-> FALSE]
      BY <1>2 DEF Watch
    <3> QED BY <1>1, <3>1 DEF Watched
  <2>2. deliver' \in Delivery \cup {None}
    BY <1>2, <1>1 DEF Watch, Delivery, ResolverTypeOK
  <2>3. UNCHANGED <<poll, view>>
    BY <1>2 DEF Watch
  <2> QED BY <2>1, <2>2, <2>3, NoneIsNone DEF ResolverTypeOK
<1>3. CASE Delivered
  <2>1. watch \in Watched /\ watch' \in Watched
    BY <1>3 DEF Delivered, ResolverTypeOK, Watched
  <2> QED BY <1>3, <2>1, NoneIsNone DEF Delivered, ResolverTypeOK, Delivery
<1>4. CASE PollRead
  BY <1>4, <1>1 DEF PollRead, ResolverTypeOK, Polling
<1>5. CASE PollDiff
  <2>1. watch \in Watched /\ poll \in Polling /\ watch' \in Watched
    BY <1>5 DEF PollDiff, ResolverTypeOK, Watched, Polling
  <2>2. poll' \in Polling
    BY <1>5, <2>1 DEF PollDiff, Watched, Polling
  <2> QED BY <1>5, <2>1, <2>2, NoneIsNone DEF PollDiff, ResolverTypeOK
<1>6. CASE PollEvents
  <2>1. watch \in Watched /\ poll \in Polling /\ watch' \in Watched
    BY <1>6 DEF PollEvents, ResolverTypeOK, Watched
  <2> QED BY <1>6, <2>1, NoneIsNone DEF PollEvents, ResolverTypeOK, Polling
<1> QED BY <1>2, <1>3, <1>4, <1>5, <1>6 DEF Elsewhere, Poller

(* What a step of the process is for the registry. *)
LEMMA RegistrySteps ==
    ASSUME [Next]_vars
    PROVE  \/ RegisterStart \/ RegisterTxn \/ RegisterFails \/ Refresher \/ Putter
           \/ Wait \/ Change \/ Launch \/ Unregister \/ Joined \/ Crash
           \/ Down /\ UNCHANGED <<etcd, faults>>
           \/ LatePut \/ \E l \in Leases : Expire(l)
           \/ Elsewhere
           \/ UNCHANGED <<etcd, service, resolver>>
<1>1. CASE Starting
  <2>1. CASE HostStarts
    BY <2>1 DEF HostStarts, registry
  <2>2. ASSUME NEW i, FirstTick(i) \/ Started(i) \/ NotStarted(i)
        PROVE  RegisterStart \/ (Down /\ UNCHANGED <<etcd, faults>>) \/ UNCHANGED <<etcd, service, resolver>>
    BY <2>2 DEF FirstTick, Started, NotStarted, registry
  <2>3. CASE Boot \/ DependencyMissing \/ HostFails \/ AllStarted
    BY <2>3 DEF Boot, DependencyMissing, HostFails, AllStarted, registry
  <2> QED BY <1>1, <2>1, <2>2, <2>3 DEF Starting
<1>2. CASE Stopping
  <2>1. CASE HostStops
    BY <2>1 DEF HostStops, registry
  <2>2. ASSUME NEW i, HostStopped(i) PROVE Joined
    BY <2>2 DEF HostStopped
  <2>3. CASE Exit
    BY <2>3 DEF Exit, registry
  <2> QED BY <1>2, <2>1, <2>2, <2>3 DEF Stopping
<1>3. CASE Frame \/ Calls
  BY <1>3 DEF Frame, Calls, Putter
<1>4. CASE Maintain \/ Paced \/ Applied \/ Resolve
  BY <1>4 DEF Maintain, Paced, Applied, Resolve
<1>5. CASE FramesEnd \/ Again \/ ProcessCrash
  BY <1>5 DEF FramesEnd, Again, ProcessCrash, registry
<1>6. ASSUME NEW l \in Leases, RunsOut(l) PROVE Expire(l)
  BY <1>6 DEF RunsOut
<1>7. CASE UNCHANGED vars
  BY <1>7 DEF vars, registry
<1> QED BY <1>1, <1>2, <1>3, <1>4, <1>5, <1>6, <1>7 DEF Next

(* The types hold at first. *)
LEMMA InitRegistryTypes == Init => RegistryTypeOK
<1> SUFFICES ASSUME Init PROVE RegistryTypeOK
  OBVIOUS
<1>1. kv \in [Keys -> Entries \cup {None}]
  BY DEF Init, RegistryInit, Keys
<1>2. EtcdTypeOK
  BY <1>1 DEF Init, RegistryInit, EtcdTypeOK
<1>3. ServiceTypeOK /\ ResolverTypeOK
  BY RegistryAssumption DEF Init, RegistryInit, ServiceTypeOK, ResolverTypeOK
<1> QED BY <1>2, <1>3 DEF RegistryTypeOK

(* Every step keeps the types. *)
LEMMA NextRegistryTypes == RegistryTypeOK /\ [Next]_vars => RegistryTypeOK'
<1> SUFFICES ASSUME RegistryTypeOK, [Next]_vars PROVE RegistryTypeOK'
  OBVIOUS
<1>1. CASE UNCHANGED <<etcd, service, resolver>>
  BY <1>1 DEF RegistryTypeOK, EtcdTypeOK, ServiceTypeOK, ResolverTypeOK, etcd, service, resolver
<1> QED BY <1>1, RegistrySteps, RegisterTypes, RefreshTypes, PutTypes, HostTypes, EtcdTypes, ResolverTypes

(* Every value of the registry, of etcd and of the resolver is of its type. *)
THEOREM TypesCorrect == Spec => []RegistryTypeOK
BY InitRegistryTypes, NextRegistryTypes, PTL DEF Spec

-----------------------------------------------------------------------------
(* The resolver.                                                           *)

(* Unless a poll overtook the first delivery: what was found at first is   *)
(* handed over before anything else, and what the resolver has is what the *)
(* watch knows, but for the time in which a difference is handed over.     *)
Comparing == poll # None /\ poll.pc = "events"

ResolverInv ==
    ~overtaken =>
      /\ watch = None => view = None
      /\ deliver # None => watch.instance = deliver.instance /\ view = None /\ ~watch.published
      /\ watch # None /\ deliver = None /\ ~Comparing => view = watch.instance
      /\ Comparing => deliver = None /\ watch.instance = poll.next /\ ~watch.published
                      /\ view = poll.old

(* There is no watch at first. *)
LEMMA InitResolver == Init => ResolverInv
BY DEF Init, RegistryInit, ResolverInv, Comparing

(* Every step keeps the order of what is handed over. *)
LEMMA NextResolver == RegistryTypeOK /\ ResolverInv /\ [Next]_vars => ResolverInv'
<1> SUFFICES ASSUME RegistryTypeOK, ResolverInv, [Next]_vars, ~overtaken' PROVE ResolverInv'
  BY DEF ResolverInv
<1>1. CASE UNCHANGED resolver
  BY <1>1 DEF resolver, ResolverInv, Comparing
<1>2. CASE Elsewhere
  <2>0. ResolverTypeOK /\ ResolverTypeOK'
    BY NextRegistryTypes DEF RegistryTypeOK
  <2>1. CASE Watch
    <3>1. watch = None /\ deliver = None /\ poll = None /\ poll' = None /\ view' = view /\ view = None
      BY <2>0, <2>1 DEF Watch, ResolverTypeOK, ResolverInv
    <3>2. PICK v \in {Found, None} : watch' = [instance |-> v, published |-> FALSE]
                                     /\ deliver' \in {None, [instance |-> v]} /\ (deliver' = None => v = None)
      <4>1. [instance |-> Found] # None
        BY RegistryAssumption DEF RegistryTypeOK, EtcdTypeOK, Found, Entries, Keys
      <4> QED BY <2>1, <3>1, <4>1 DEF Watch
    <3> QED BY <3>1, <3>2 DEF ResolverInv, Comparing
  <2>2. CASE Delivered
    <3>1. watch \in Watched /\ watch' = [watch EXCEPT !.published = TRUE] /\ ~overtaken
      BY <2>0, <2>2 DEF Delivered, ResolverTypeOK
    <3>2. watch' # None /\ watch'.instance = watch.instance
      BY <2>0, <3>1, NoneIsNone DEF ResolverTypeOK, Watched
    <3> QED BY <2>2, <3>1, <3>2 DEF Delivered, ResolverInv, Comparing
  <2>3. CASE PollRead
    BY <2>3 DEF PollRead, ResolverInv, Comparing
  <2>4. CASE PollDiff
    <3>1. watch \in Watched /\ poll \in Polling /\ ~overtaken /\ deliver = None /\ ~Comparing
      BY <2>0, <2>4 DEF PollDiff, ResolverTypeOK, Comparing
    <3>2. view = watch.instance
      BY <3>1, NoneIsNone DEF ResolverInv
    <3>3. /\ poll'.old = watch.instance /\ poll'.next = poll.next /\ poll'.pc = "events"
          /\ watch' = [instance |-> poll.next, published |-> FALSE]
          /\ deliver' = deliver /\ view' = view
      BY <2>4, <3>1 DEF PollDiff, Polling
    <3>4. watch' # None
      <4>1. watch' \in Watched
        BY <3>1, <3>3 DEF Polling, Watched
      <4> QED BY <4>1, NoneIsNone
    <3>5. Comparing'
      <4>1. poll' # None
        BY <2>0, <2>4, <3>1, NoneIsNone DEF PollDiff, Polling, Watched
      <4> QED BY <3>3, <4>1 DEF Comparing
    <3> QED BY <3>1, <3>2, <3>3, <3>4, <3>5 DEF ResolverInv
  <2>5. CASE PollEvents
    <3>1. watch \in Watched /\ Comparing /\ ~overtaken
      BY <2>0, <2>5 DEF PollEvents, ResolverTypeOK, Comparing
    <3>2. watch' # None /\ watch'.instance = poll.next /\ deliver' = None /\ poll' = None
      BY <2>5, <3>1, NoneIsNone DEF PollEvents, ResolverInv, Watched
    <3>3. view' = poll.next
      BY <2>5, <3>1 DEF PollEvents, ResolverInv
    <3> QED BY <3>2, <3>3 DEF ResolverInv, Comparing
  <2> QED BY <1>2, <2>1, <2>2, <2>3, <2>4, <2>5 DEF Elsewhere, Poller
<1>3. UNCHANGED resolver \/ Elsewhere
  BY RegistrySteps DEF RegisterStart, RegisterTxn, RegisterFails, Refresher, RefreshStart, RefreshInstance,
     RefreshBudget, RefreshSwap, RefreshEnd, Putter, PutStart, PutSent, PutEnd, Wait, Change, Launch,
     Unregister, Joined, Crash, Down, LatePut, Expire
<1> QED BY <1>1, <1>2, <1>3

(* A resolver is ready only while it has all that its watch knows.         *)
(* publish_ready is called behind the events (EtcdServiceRegistry::watch,  *)
(* poll_once).                                                             *)
THEOREM ReadyIsComplete == Spec => []ReadyMeansComplete
<1>1. RegistryTypeOK /\ ResolverInv => ReadyMeansComplete
  BY DEF ResolverInv, ReadyMeansComplete, Comparing
<1> QED BY InitRegistryTypes, NextRegistryTypes, InitResolver, NextResolver, <1>1, PTL DEF Spec

-----------------------------------------------------------------------------
(* The process.                                                            *)

Hosting == {"off", "launched", "registering", "up", "late", "leaving"}
Begun(i) == up[i] \in {"launched", "registering", "up"}

MeshTypeOK ==
    /\ specs \in Topologies
    /\ phase \in {"off", "refused", "start", "run", "down", "exited"}
    /\ up \in [Services -> Hosting]

(* While services may be up, the waves are those of a list that was        *)
(* accepted, whose services come after what they need.                     *)
Ordered ==
    phase \in {"start", "run", "down"} =>
      /\ \A i \in Services : waves[i] \in Nat
      /\ \A i \in Services : \A j \in Needs(i) : waves[j] < waves[i]

(* A service is begun only when those before it are up.                    *)
Prefix ==
    \A i, j \in Services : Begun(i) /\ Before(j, i) => up[j] = "up"

(* What the phases say of the hosts. *)
Phases ==
    /\ phase \in {"off", "refused", "exited"} => \A i \in Services : up[i] = "off"
    /\ phase = "run" => \A i \in Services : up[i] = "up"
    /\ \A i \in Services :
         /\ up[i] \in {"launched", "registering"} => phase = "start"
         /\ up[i] \in {"late", "leaving"} => phase = "down"

(* A service that came up is registered until the process goes down. *)
OwnRegistered ==
    \A i \in Services :
      phase \in {"start", "run"} /\ up[i] = "up" /\ specs[i].name = Own => reg # None

MeshInv == MeshTypeOK /\ Ordered /\ Prefix /\ Phases /\ OwnRegistered

(* Of two services one comes before the other. *)
LEMMA OneBefore ==
    ASSUME MeshTypeOK, Ordered, phase \in {"start", "run", "down"},
           NEW i \in Services, NEW j \in Services, i # j
    PROVE  Before(i, j) \/ Before(j, i)
<1>1. i \in Int /\ j \in Int
  BY DEF Services
<1>2. waves[i] \in Nat /\ waves[j] \in Nat
  BY DEF Ordered
<1> QED BY <1>1, <1>2 DEF Before

(* So while one is being started, none is on its way up. *)
LEMMA NoneBetween ==
    ASSUME MeshInv, NEW i \in Services, Upcoming(i) \/ up[i] = "registering",
           NEW k \in Services, k # i
    PROVE  up[k] \notin {"launched", "registering"}
<1> SUFFICES ASSUME up[k] \in {"launched", "registering"} PROVE FALSE
  OBVIOUS
<1>1. phase = "start"
  BY DEF MeshInv, Phases
<1>2. Before(i, k) \/ Before(k, i)
  BY <1>1, OneBefore DEF MeshInv
<1>3. CASE Before(i, k)
  <2>1. up[i] = "up"
    BY <1>3 DEF MeshInv, Prefix, Begun
  <2> QED BY <2>1 DEF Upcoming
<1>4. CASE Before(k, i)
  <2>1. up[k] = "up"
    BY <1>4 DEF MeshInv, Prefix, Begun, Upcoming
  <2> QED BY <2>1
<1> QED BY <1>2, <1>3, <1>4

(* No service is up at first. *)
LEMMA InitMesh == Init => MeshInv
<1> SUFFICES ASSUME Init PROVE MeshInv
  OBVIOUS
<1>1. specs \in Topologies /\ phase = "off" /\ up = [i \in Services |-> "off"]
  BY DEF Init, Off
<1>2. MeshTypeOK
  BY <1>1 DEF MeshTypeOK, Hosting
<1>3. \A i \in Services : up[i] = "off"
  BY <1>1
<1> QED BY <1>1, <1>2, <1>3 DEF MeshInv, Ordered, Prefix, Begun, Phases, OwnRegistered

(* Steps that leave the process as it is, and no service unregistered.     *)
LEMMA RegisteredStep ==
    ASSUME RegistryTypeOK, reg # None,
           RegisterStart \/ RegisterTxn \/ RegisterFails \/ Refresher \/ Putter \/ Wait \/ Change
           \/ LatePut \/ Elsewhere \/ (\E l \in Leases : Expire(l)) \/ UNCHANGED service
    PROVE  reg' # None
<1>1. CASE RegisterTxn
  <2>1. Registered \in Registration
    BY <1>1, RegistryAssumption
    DEF RegisterTxn, Registered, Registration, ServiceTypeOK, RegistryTypeOK
  <2> QED BY <1>1, <2>1, NoneIsNone DEF RegisterTxn
<1>2. CASE RefreshSwap
  <2>1. reg \in Registration /\ refresh \in Refresh
    BY <1>2 DEF RefreshSwap, At, RegistryTypeOK, ServiceTypeOK
  <2>2. reg' \in Registration
    BY <1>2, <2>1 DEF RefreshSwap, Registration, Refresh
  <2> QED BY <2>2, NoneIsNone
<1>3. CASE PutEnd
  <2>1. reg \in Registration /\ put \in Putting
    BY <1>3 DEF PutEnd, RegistryTypeOK, ServiceTypeOK
  <2>2. reg' \in Registration
    BY <1>3, <2>1 DEF PutEnd, Registration, Putting
  <2> QED BY <2>2, NoneIsNone
<1> QED BY <1>1, <1>2, <1>3 DEF RegisterStart, RegisterFails, Refresher, RefreshStart, RefreshInstance,
     RefreshBudget, RefreshEnd, Putter, PutStart, PutSent, Wait, Change, LatePut, Expire,
     Elsewhere, Poller, Watch, Delivered, PollRead, PollDiff, PollEvents, service

(* The order of the services stays while the list and the waves do.        *)
LEMMA SameOrder ==
    ASSUME UNCHANGED <<specs, waves>>
    PROVE  /\ Services' = Services
           /\ \A i, j : Before(i, j)' <=> Before(i, j)
           /\ \A i : Needs(i)' = Needs(i)
BY DEF Services, Before, Needs, Dependencies

(* The waves fit as long as they stay. *)
LEMMA OrderedStep ==
    ASSUME Ordered, UNCHANGED <<specs, waves>>,
           phase' \in {"start", "run", "down"} => phase \in {"start", "run", "down"}
    PROVE  Ordered'
BY SameOrder DEF Ordered

(* One service comes up or goes off. *)
LEMMA HostStep ==
    ASSUME MeshInv, UNCHANGED <<specs, waves>>, NEW i \in Services, NEW v \in Hosting,
           up' = [up EXCEPT ![i] = v],
           phase' \in {"start", "run", "down"} /\ phase \in {"start", "run", "down"},
           v \in {"launched", "registering", "up"} => \A j \in Services : Before(j, i) => up[j] = "up",
           v # "up" => \A j \in Services : Before(i, j) => ~Begun(j)
    PROVE  MeshTypeOK' /\ Ordered' /\ Prefix'
<1>1. Services' = Services /\ \A j, k : Before(j, k)' <=> Before(j, k)
  BY SameOrder
<1>2. /\ up \in [Services -> Hosting] /\ up'[i] = v
      /\ \A j \in Services : j # i => up'[j] = up[j]
  BY DEF MeshInv, MeshTypeOK
<1>3. up' \in [Services -> Hosting]
  BY <1>2
<1>4. MeshTypeOK'
  BY <1>1, <1>3 DEF MeshInv, MeshTypeOK
<1>5. Ordered'
  BY OrderedStep DEF MeshInv
<1>6. ~Before(i, i)
  BY DEF Before, Services, MeshInv, Ordered
<1>7. ASSUME NEW k \in Services, NEW j \in Services, Before(j, k), Begun(k)' PROVE up'[j] = "up"
  <2>1. CASE k = i
    BY <1>2, <1>6, <1>7, <2>1 DEF Begun
  <2>2. CASE k # i
    <3>1. Begun(k)
      BY <1>2, <1>7, <2>2 DEF Begun
    <3>2. up[j] = "up"
      BY <1>7, <3>1 DEF MeshInv, Prefix
    <3>3. j = i => v = "up"
      BY <1>7, <3>1
    <3> QED BY <1>2, <3>2, <3>3
  <2> QED BY <2>1, <2>2
<1>8. Prefix'
  BY <1>1, <1>7 DEF Prefix
<1> QED BY <1>4, <1>5, <1>8

(* main accepts a list, or refuses it. *)
LEMMA BootStep == ASSUME MeshInv, Boot PROVE MeshInv'
<1>1. phase = "off" /\ UNCHANGED <<specs, up, registry>>
  BY DEF Boot
<1>2. Services' = Services /\ \A i \in Services : up'[i] = "off"
  BY <1>1 DEF MeshInv, Phases, Services
<1>3. phase' \in {"start", "refused"}
  BY DEF Boot
<1>4. MeshTypeOK'
  BY <1>1, <1>2, <1>3 DEF MeshInv, MeshTypeOK
<1>5. Prefix' /\ Phases' /\ OwnRegistered'
  BY <1>2, <1>3 DEF Prefix, Begun, Phases, OwnRegistered
<1>6. Ordered'
  <2>1. CASE Accepted
    <3>1. waves' = [i \in Services |-> Wave(i)]
      BY <2>1 DEF Boot
    <3>2. Len(specs) \in Nat
      BY MeshAssumption DEF MeshInv, MeshTypeOK
    <3>3. \A i \in Services : Needs(i)' = Needs(i) /\ Needs(i) \subseteq Services
      BY <1>1 DEF Needs, Services, Dependencies
    <3>4. \A i \in Services : waves'[i] = Wave(i)
      BY <3>1
    <3>5. /\ \A i \in Services : Wave(i) \in Nat
          /\ \A i \in Services : \A j \in Needs(i) : Wave(j) < Wave(i)
      BY <2>1, <3>2, WavesOrdered
    <3>6. \A i \in Services : \A j \in Needs(i) : waves'[j] < waves'[i]
      BY <3>3, <3>4, <3>5
    <3> QED BY <1>2, <3>3, <3>4, <3>5, <3>6 DEF Ordered
  <2>2. CASE ~Accepted
    BY <2>2 DEF Boot, Ordered
  <2> QED BY <2>1, <2>2
<1> QED BY <1>4, <1>5, <1>6 DEF MeshInv

(* A turn at which a host does not come up ends the start.                 *)
LEMMA FailsStep ==
    ASSUME MeshInv, UNCHANGED <<specs, waves>>, NEW i \in Services,
           Upcoming(i) \/ up[i] = "registering",
           NEW v \in {"off", "late"}, up' = [up EXCEPT ![i] = v], phase' = "down"
    PROVE  MeshInv'
<1>1. phase = "start"
  BY DEF Upcoming, MeshInv, Phases
<1>2. up[i] # "up" /\ up \in [Services -> Hosting]
  BY DEF Upcoming, MeshInv, MeshTypeOK
<1>3. v \in Hosting
  BY DEF Hosting
<1>4. ASSUME NEW j \in Services, Before(i, j) PROVE ~Begun(j)
  BY <1>2, <1>4 DEF MeshInv, Prefix
<1>5. MeshTypeOK' /\ Ordered' /\ Prefix'
  BY <1>1, <1>3, <1>4, HostStep
<1>6. Services' = Services
  BY SameOrder
<1>7. ASSUME NEW k \in Services PROVE up'[k] \notin {"launched", "registering"}
  BY <1>2, NoneBetween
<1>8. Phases' /\ OwnRegistered'
  BY <1>6, <1>7 DEF Phases, OwnRegistered
<1> QED BY <1>5, <1>8 DEF MeshInv

(* A host on its way up.                                                   *)
ComesUp(i, v) ==
    /\ phase = "start" /\ phase' = phase /\ UNCHANGED <<specs, waves>>
    /\ up' = [up EXCEPT ![i] = v] /\ up[i] # "up"

(* What is before a host is up when it comes up. *)
LEMMA ComesUpStep ==
    ASSUME MeshInv, NEW i \in Services, NEW v \in {"launched", "registering", "up"}, ComesUp(i, v),
           \A j \in Services : Before(j, i) => up[j] = "up",
           reg # None => reg' # None,
           v = "up" /\ specs[i].name = Own => reg' # None
    PROVE  MeshInv'
<1>1. v \in Hosting /\ up \in [Services -> Hosting]
  BY DEF Hosting, MeshInv, MeshTypeOK
<1>2. ASSUME NEW j \in Services, Before(i, j) PROVE ~Begun(j)
  BY <1>2 DEF MeshInv, Prefix, ComesUp
<1>3. MeshTypeOK' /\ Ordered' /\ Prefix'
  BY <1>1, <1>2, HostStep DEF ComesUp
<1>4. Services' = Services /\ specs' = specs
  BY SameOrder DEF ComesUp
<1>5. up'[i] = v /\ \A j \in Services : j # i => up'[j] = up[j]
  BY <1>1 DEF ComesUp
<1>6. Phases'
  BY <1>4, <1>5 DEF MeshInv, Phases, ComesUp
<1>7. OwnRegistered'
  BY <1>4, <1>5 DEF MeshInv, OwnRegistered, ComesUp
<1> QED BY <1>3, <1>6, <1>7 DEF MeshInv

(* The process stays as it is, and a registration stays. *)
LEMMA FrameStep ==
    ASSUME MeshInv, UNCHANGED mesh, reg # None => reg' # None
    PROVE  MeshInv'
<1>1. UNCHANGED <<specs, waves, phase, up>> /\ Services' = Services
  BY SameOrder DEF mesh
<1>2. \A i, j : Before(j, i)' <=> Before(j, i)
  BY <1>1, SameOrder
<1>3. Ordered'
  BY <1>1, OrderedStep DEF MeshInv
<1>4. MeshTypeOK' /\ Prefix' /\ Phases' /\ OwnRegistered'
  BY <1>1, <1>2 DEF MeshInv, MeshTypeOK, Prefix, Begun, Phases, OwnRegistered
<1> QED BY <1>3, <1>4 DEF MeshInv

(* The start keeps the invariant of the process. *)
LEMMA StartingStep == ASSUME RegistryTypeOK, MeshInv, Starting PROVE MeshInv'
<1>1. CASE Boot
  BY <1>1, BootStep
<1>2. CASE DependencyMissing
  <2>1. UNCHANGED <<specs, waves, up>> /\ phase' = "exited" /\ up[1] = "off" /\ Services = {1}
    BY <1>2 DEF DependencyMissing, Services
  <2>2. Services' = Services
    BY <2>1, SameOrder
  <2> QED BY <2>1, <2>2 DEF MeshInv, MeshTypeOK, Ordered, Prefix, Begun, Phases, OwnRegistered
<1>3. CASE HostFails
  <2>1. PICK i \in Services : /\ Upcoming(i) /\ phase' = "down" /\ up' \in {up, [up EXCEPT ![i] = "late"]}
                              /\ UNCHANGED <<specs, waves>>
    BY <1>3 DEF HostFails
  <2>2. up = [up EXCEPT ![i] = "off"]
    BY <2>1 DEF Upcoming, MeshInv, MeshTypeOK
  <2>3. PICK v \in {"off", "late"} : up' = [up EXCEPT ![i] = v]
    BY <2>1, <2>2
  <2> QED BY <2>1, <2>3, FailsStep
<1>4. CASE HostStarts
  <2>1. PICK i \in Services :
          /\ Upcoming(i) /\ UNCHANGED <<specs, waves, phase>>
          /\ \/ specs[i].name # Own /\ up' = [up EXCEPT ![i] = "up"] /\ UNCHANGED registry
             \/ Launch /\ up' = [up EXCEPT ![i] = "launched"]
    BY <1>4 DEF HostStarts
  <2>2. reg' = reg
    BY <2>1 DEF registry, service, Launch
  <2>3. CASE specs[i].name # Own /\ up' = [up EXCEPT ![i] = "up"]
    BY <2>1, <2>2, <2>3, ComesUpStep DEF ComesUp, Upcoming
  <2>4. CASE up' = [up EXCEPT ![i] = "launched"]
    BY <2>1, <2>2, <2>4, ComesUpStep DEF ComesUp, Upcoming
  <2> QED BY <2>1, <2>3, <2>4
<1>5. CASE AllStarted
  <2>1. UNCHANGED <<specs, waves, up>> /\ phase = "start" /\ phase' = "run" /\ reg' = reg
        /\ \A i \in Services : up[i] = "up"
    BY <1>5 DEF AllStarted, registry, service
  <2>2. Services' = Services /\ \A i, j : Before(j, i)' <=> Before(j, i)
    BY <2>1, SameOrder
  <2>3. Ordered'
    BY <2>1, OrderedStep DEF MeshInv
  <2> QED BY <2>1, <2>2, <2>3 DEF MeshInv, MeshTypeOK, Prefix, Begun, Phases, OwnRegistered
<1>6. ASSUME NEW i \in Services, FirstTick(i) PROVE MeshInv'
  <2>1. up[i] = "launched" /\ up' = [up EXCEPT ![i] = "registering"] /\ UNCHANGED <<specs, waves, phase>>
        /\ reg' = reg
    BY <1>6 DEF FirstTick, RegisterStart, service
  <2>2. phase = "start" /\ \A j \in Services : Before(j, i) => up[j] = "up"
    BY <2>1 DEF MeshInv, Phases, Prefix, Begun
  <2> QED BY <2>1, <2>2, ComesUpStep DEF ComesUp
<1>7. ASSUME NEW i \in Services, Started(i) PROVE MeshInv'
  <2>1. up[i] = "registering" /\ up' = [up EXCEPT ![i] = "up"] /\ UNCHANGED <<specs, waves, phase>>
        /\ reg # None /\ reg' = reg
    BY <1>7 DEF Started, registry, service
  <2>2. phase = "start" /\ \A j \in Services : Before(j, i) => up[j] = "up"
    BY <2>1 DEF MeshInv, Phases, Prefix, Begun
  <2> QED BY <2>1, <2>2, ComesUpStep DEF ComesUp
<1>8. ASSUME NEW i \in Services, NotStarted(i) PROVE MeshInv'
  <2>1. PICK v \in {"off", "late"} : up' = [up EXCEPT ![i] = v]
    BY <1>8 DEF NotStarted
  <2>2. up[i] = "registering" /\ phase' = "down" /\ UNCHANGED <<specs, waves>>
    BY <1>8 DEF NotStarted
  <2> QED BY <2>1, <2>2, FailsStep
<1>9. ASSUME NEW i \in Services, FirstTick(i) \/ Started(i) \/ NotStarted(i) PROVE MeshInv'
  BY <1>9, <1>6, <1>7, <1>8
<1> QED BY <1>1, <1>2, <1>3, <1>4, <1>5, <1>9 DEF Starting

(* And so does whatever ends it. *)
LEMMA StoppingStep ==
    ASSUME RegistryTypeOK, MeshInv, Stopping \/ FramesEnd \/ ProcessCrash \/ Again
    PROVE  MeshInv'
<1>1. CASE FramesEnd
  <2>1. UNCHANGED <<specs, waves, up>> /\ phase = "run" /\ phase' = "down"
    BY <1>1 DEF FramesEnd
  <2>2. Services' = Services /\ \A i, j : Before(j, i)' <=> Before(j, i)
    BY <2>1, SameOrder
  <2>3. Ordered'
    BY <2>1, OrderedStep DEF MeshInv
  <2> QED BY <2>1, <2>2, <2>3 DEF MeshInv, MeshTypeOK, Prefix, Begun, Phases, OwnRegistered
<1>2. ASSUME UNCHANGED specs, phase' \in {"exited", "off"}, \A i \in Services : up'[i] = "off",
             up' \in [Services -> Hosting]
      PROVE  MeshInv'
  <2>1. Services' = Services
    BY <1>2 DEF Services
  <2> QED BY <1>2, <2>1 DEF MeshInv, MeshTypeOK, Ordered, Prefix, Begun, Phases, OwnRegistered
<1>3. CASE ProcessCrash
  <2>1. UNCHANGED specs /\ phase' = "exited" /\ up' = [i \in Services |-> "off"]
    BY <1>3 DEF ProcessCrash, Off
  <2>2. up' \in [Services -> Hosting]
    BY <2>1 DEF Hosting
  <2> QED BY <1>2, <2>1, <2>2
<1>4. CASE Again
  BY <1>2, <1>4 DEF Again, MeshInv, Phases, MeshTypeOK
<1>5. CASE Exit
  <2>1. UNCHANGED specs /\ phase' = "exited" /\ up' = up /\ up = [i \in Services |-> "off"]
    BY <1>5 DEF Exit, Off
  <2>2. up' \in [Services -> Hosting]
    BY <2>1 DEF Hosting
  <2> QED BY <1>2, <2>1, <2>2
<1>6. CASE HostStops
  <2>1. PICK i \in Services : /\ Leaving(i) /\ UNCHANGED <<specs, waves, phase>>
                              /\ \E v \in {"leaving", "off"} : up' = [up EXCEPT ![i] = v]
    BY <1>6 DEF HostStops
  <2>2. PICK v \in {"leaving", "off"} : up' = [up EXCEPT ![i] = v]
    BY <2>1
  <2>3. phase = "down" /\ v \in Hosting /\ up \in [Services -> Hosting]
    BY <2>1 DEF Leaving, Hosting, MeshInv, MeshTypeOK
  <2>4. ASSUME NEW j \in Services, Before(i, j) PROVE ~Begun(j)
    <3>1. up[j] \notin {"launched", "registering"}
      BY <2>3 DEF MeshInv, Phases
    <3> QED BY <2>1, <2>4, <3>1 DEF Leaving, Begun
  <2>5. MeshTypeOK' /\ Ordered' /\ Prefix'
    BY <2>1, <2>2, <2>3, <2>4, HostStep
  <2>6. Services' = Services
    BY <2>1, SameOrder
  <2>7. Phases' /\ OwnRegistered'
    BY <2>1, <2>2, <2>3, <2>6 DEF MeshInv, Phases, OwnRegistered
  <2> QED BY <2>5, <2>7 DEF MeshInv
<1>7. ASSUME NEW i \in Services, HostStopped(i) PROVE MeshInv'
  <2>1. up[i] = "leaving" /\ up' = [up EXCEPT ![i] = "off"] /\ UNCHANGED <<specs, waves, phase>>
    BY <1>7 DEF HostStopped
  <2>2. phase = "down" /\ up \in [Services -> Hosting] /\ "off" \in Hosting
    BY <2>1 DEF MeshInv, Phases, MeshTypeOK, Hosting
  <2>3. ASSUME NEW j \in Services, Before(i, j) PROVE ~Begun(j)
    BY <2>1, <2>3 DEF MeshInv, Prefix
  <2>4. MeshTypeOK' /\ Ordered' /\ Prefix'
    BY <2>1, <2>2, <2>3, HostStep
  <2>5. Services' = Services
    BY <2>1, SameOrder
  <2>6. Phases' /\ OwnRegistered'
    BY <2>1, <2>2, <2>5 DEF MeshInv, Phases, OwnRegistered
  <2> QED BY <2>4, <2>6 DEF MeshInv
<1> QED BY <1>1, <1>3, <1>4, <1>5, <1>6, <1>7 DEF Stopping

(* Every step keeps the invariant of the process. *)
LEMMA NextMesh == RegistryTypeOK /\ MeshInv /\ [Next]_vars => MeshInv'
<1> SUFFICES ASSUME RegistryTypeOK, MeshInv, [Next]_vars PROVE MeshInv'
  OBVIOUS
<1>1. CASE Starting
  BY <1>1, StartingStep
<1>2. CASE Stopping \/ FramesEnd \/ ProcessCrash \/ Again
  BY <1>2, StoppingStep
<1>3. CASE Frame \/ Calls \/ Maintain \/ Paced \/ Resolve \/ Applied
           \/ (\E l \in Leases : RunsOut(l)) \/ UNCHANGED vars
  <2>1. /\ UNCHANGED mesh
        /\ RegisterStart \/ RegisterTxn \/ RegisterFails \/ Refresher \/ Putter \/ Wait \/ Change
           \/ LatePut \/ Elsewhere \/ (\E l \in Leases : Expire(l)) \/ UNCHANGED service
    BY <1>3 DEF Frame, Calls, Maintain, Paced, Resolve, Applied, RunsOut, vars, registry, Putter
  <2> QED BY <2>1, RegisteredStep, FrameStep
<1> QED BY <1>1, <1>2, <1>3 DEF Next

(* No service runs without those that it depends on, no entry without all  *)
(* the others, and the frames run only with every service up and           *)
(* registered: MeshHost::start_all and shutdown go through the waves, up   *)
(* and down, whatever fails on the way.                                    *)
THEOREM WholeOrGoesDown == Spec => []WholeOrDown
<1>1. ASSUME MeshInv PROVE WholeOrDown
  <2>1. ASSUME NEW i \in Services, up[i] = "up", NEW j \in Needs(i) PROVE up[j] = "up"
    <3>1. phase \in {"start", "run", "down"}
      BY <1>1, <2>1 DEF MeshInv, MeshTypeOK, Phases
    <3>2. waves[j] < waves[i] /\ j \in Services
      BY <1>1, <3>1 DEF MeshInv, Ordered, Needs
    <3> QED BY <1>1, <2>1, <3>2 DEF MeshInv, Prefix, Before, Begun
  <2>2. NothingMissing
    BY <2>1 DEF NothingMissing, Needs
  <2>3. RunsWhole
    BY <1>1 DEF MeshInv, Phases, OwnRegistered, RunsWhole
  <2> QED BY <2>2, <2>3 DEF WholeOrDown
<1> QED BY InitRegistryTypes, NextRegistryTypes, InitMesh, NextMesh, <1>1, PTL DEF Spec

-----------------------------------------------------------------------------
(* The logger.                                                             *)
(*                                                                         *)
(* The inductive invariant says where an accepted event is (in a queue, in *)
(* the hand of a worker or given to the sink), how far the destructor is,  *)
(* and what pending_ and the counters count.                               *)

(* Types. *)
Call == [id : Nat, queue : Queues, pushed : BOOLEAN]
Hand == [id : Nat, written : BOOLEAN]

TypeInv ==
    /\ sequence \in Nat
    /\ caller \in [Producers -> Call \cup {Nil}]
    /\ queue \in [Queues -> Seq(Nat)]
    /\ worker \in [Queues -> Hand \cup {Nil}]
    /\ ended \subseteq Queues
    /\ sink \in [buffer : SUBSET Nat, disk : SUBSET Nat, stderr : SUBSET Nat]
    /\ accepted \subseteq Nat
    /\ DOMAIN flushing = {"caller", "destructor"}
    /\ life \in {"live", "closing", "stopping", "gone"}

(* Where an event is after it was pushed. *)
Queued(s, e) == \E i \in 1..Len(s) : s[i] = e
Holds(w, e) == w # Nil /\ w.id = e /\ ~w.written
Given(s, e) == e \in s.buffer \cup s.disk \cup s.stderr
Known(e) == (\E q \in Queues : Queued(queue[q], e) \/ Holds(worker[q], e)) \/ Given(sink, e)

(* No event that was accepted, or is about to be, is lost; what a flush    *)
(* waits for was accepted before; and the destructor ends the workers only *)
(* when their queues are empty.                                            *)
KeptInv ==
    /\ \A e \in accepted : Known(e)
    /\ \A p \in Producers : caller[p] # Nil => (caller[p].pushed => Known(caller[p].id))
    /\ \A f \in {"caller", "destructor"} : flushing[f] # Nil => flushing[f] \subseteq accepted
    /\ flushed \subseteq sink.disk \cup sink.stderr

(* How far the destructor is. *)
EndInv ==
    /\ flushing["caller"] # Nil => life = "live"
    /\ flushing["destructor"] # Nil => life = "closing"
    /\ life # "live" => \A p \in Producers : caller[p] = Nil
    /\ \A q \in ended : queue[q] = <<>> /\ worker[q] = Nil
    /\ ended # {} => life \in {"stopping", "gone"}
    /\ life = "gone" => ended = Queues /\ accepted \subseteq sink.disk \cup sink.stderr

(* What pending_ and the counters count. *)
Callers == {p \in Producers : caller[p] # Nil}
CallingNow == {p \in Producers : Calling(p)}
Load(s, w) == Len(s) + IF w = Nil THEN 0 ELSE 1

CountInv ==
    /\ IsFiniteSet(Callers) /\ IsFiniteSet(CallingNow) /\ IsFiniteSet(accepted)
    /\ pending_ = Cardinality(CallingNow) + Load(queue["normal"], worker["normal"])
                   + Load(queue["priority"], worker["priority"])
    /\ stats.accepted = Cardinality(accepted)
    /\ stats.accepted + stats.dropped + Cardinality(Callers) = sequence
    /\ stats.accepted \in Nat /\ stats.dropped \in Nat
    /\ DOMAIN stats = {"accepted", "emitted", "dropped", "write_errors"}
    /\ \A e \in accepted : e <= sequence
    /\ \A p \in Callers : caller[p].id <= sequence /\ caller[p].id \notin accepted
    /\ \A p, r \in Callers : caller[p].id = caller[r].id => p = r

IInv == TypeInv /\ KeptInv /\ EndInv /\ CountInv

-----------------------------------------------------------------------------
(* A queue with one event more, *)
LEMMA Appended ==
    ASSUME NEW s \in Seq(Nat), NEW e \in Nat
    PROVE  /\ Append(s, e) \in Seq(Nat) /\ Len(Append(s, e)) = Len(s) + 1
           /\ Append(s, e) # <<>>
           /\ \A x : Queued(Append(s, e), x) <=> Queued(s, x) \/ x = e
<1> DEFINE t == Append(s, e)
<1>1. /\ Len(t) = Len(s) + 1 /\ t[Len(s) + 1] = e /\ Len(s) \in Nat
      /\ \A i \in 1..Len(s) : t[i] = s[i]
  OBVIOUS
<1>2. t \in Seq(Nat) /\ t # <<>>
  BY <1>1
<1> HIDE DEF t
<1>3. ASSUME NEW x PROVE Queued(t, x) <=> Queued(s, x) \/ x = e
  <2>1. ASSUME NEW i \in 1..Len(t), t[i] = x PROVE Queued(s, x) \/ x = e
    <3>1. i \in 1..Len(s) \/ i = Len(s) + 1
      BY <1>1
    <3> QED BY <1>1, <2>1, <3>1 DEF Queued
  <2>2. ASSUME Queued(s, x) \/ x = e PROVE Queued(t, x)
    <3>1. Len(s) + 1 \in 1..Len(t) /\ 1..Len(s) \subseteq 1..Len(t)
      BY <1>1
    <3> QED BY <1>1, <2>2, <3>1 DEF Queued
  <2> QED BY <2>1, <2>2 DEF Queued
<1> QED BY <1>1, <1>2, <1>3 DEF t

(* and with one less. *)
LEMMA Taken ==
    ASSUME NEW s \in Seq(Nat), s # <<>>
    PROVE  /\ Tail(s) \in Seq(Nat) /\ Len(Tail(s)) = Len(s) - 1 /\ Head(s) \in Nat
           /\ \A x : Queued(s, x) <=> Queued(Tail(s), x) \/ x = Head(s)
<1> DEFINE t == Tail(s)
<1>1. /\ t \in Seq(Nat) /\ Len(s) \in Nat \ {0} /\ Len(t) = Len(s) - 1
      /\ Head(s) = s[1] /\ Head(s) \in Nat
      /\ \A i \in 1..Len(t) : t[i] = s[i + 1]
  OBVIOUS
<1> HIDE DEF t
<1>2. ASSUME NEW x, NEW i \in 1..Len(s), s[i] = x PROVE Queued(t, x) \/ x = Head(s)
  <2>1. i # 1 => i - 1 \in 1..Len(t) /\ t[i - 1] = s[i]
    BY <1>1
  <2> QED BY <1>1, <1>2, <2>1 DEF Queued
<1>3. ASSUME NEW x, Queued(t, x) \/ x = Head(s) PROVE Queued(s, x)
  <2>1. CASE x = Head(s)
    BY <1>1, <2>1 DEF Queued
  <2>2. CASE Queued(t, x)
    <3>1. PICK i \in 1..Len(t) : t[i] = x
      BY <2>2 DEF Queued
    <3>2. i + 1 \in 1..Len(s) /\ s[i + 1] = x
      BY <1>1, <3>1
    <3> QED BY <3>2 DEF Queued
  <2> QED BY <1>3, <2>1, <2>2
<1> QED BY <1>1, <1>2, <1>3 DEF Queued, t

(* The types hold at the start, *)
LEMMA TypesStart == LoggerInit => TypeInv
  BY DEF LoggerInit, TypeInv

(* Flushing the buffer loses nothing, *)
LEMMA SinkTypes ==
    ASSUME TypeInv
    PROVE  /\ ToDisk(sink) \in [buffer : SUBSET Nat, disk : SUBSET Nat, stderr : SUBSET Nat]
           /\ \A e : Given(ToDisk(sink), e) <=> Given(sink, e)
           /\ ToDisk(sink).disk = sink.disk \cup sink.buffer
           /\ ToDisk(sink).stderr = sink.stderr
  BY DEF TypeInv, ToDisk, Given

(* and writing an event gives it to the sink. *)
LEMMA WriteTypes ==
    ASSUME TypeInv, NEW q \in Queues, WriteEvent(q) \/ WriteFails(q)
    PROVE  /\ sink' \in [buffer : SUBSET Nat, disk : SUBSET Nat, stderr : SUBSET Nat]
           /\ \A e : Given(sink', e) <=> Given(sink, e) \/ e = worker[q].id
           /\ sink.disk \cup sink.stderr \subseteq sink'.disk \cup sink'.stderr
<1>1. worker[q] \in Hand /\ worker[q].id \in Nat
  BY DEF WriteEvent, WriteFails, InHand, TypeInv, Hand
<1>2. CASE WriteEvent(q)
  <2> DEFINE given == [sink EXCEPT !.buffer = @ \cup {worker[q].id}]
  <2>1. /\ given \in [buffer : SUBSET Nat, disk : SUBSET Nat, stderr : SUBSET Nat]
        /\ given.buffer = sink.buffer \cup {worker[q].id}
        /\ given.disk = sink.disk /\ given.stderr = sink.stderr
    BY <1>1 DEF TypeInv
  <2>2. sink' = IF queue[q] = <<>> THEN ToDisk(given) ELSE given
    BY <1>2 DEF WriteEvent
  <2> HIDE DEF given
  <2> QED BY <2>1, <2>2 DEF ToDisk, Given
<1>3. CASE WriteFails(q)
  <2>1. PICK kept \in SUBSET {worker[q].id} :
          sink' = [sink EXCEPT !.stderr = @ \cup {worker[q].id}, !.buffer = @ \cup kept]
    BY <1>3 DEF WriteFails
  <2> QED BY <1>1, <2>1 DEF TypeInv, Given
<1> QED BY <1>2, <1>3

(* Every step keeps the types. *)
LEMMA TypesKept == ASSUME TypeInv, [LoggerNext]_loggerVars PROVE TypeInv'
<1>1. ASSUME NEW p \in Producers, NEW q \in Queues, Enter(p, q) PROVE TypeInv'
  BY <1>1 DEF Enter, TypeInv, Call, config, workers, flushes
<1>2. ASSUME NEW p \in Producers, Push(p) PROVE TypeInv'
  <2>1. caller[p] \in Call
    BY <1>2 DEF Push, Calling, TypeInv
  <2>2. [caller[p] EXCEPT !.pushed = TRUE] \in Call /\ caller[p].queue \in Queues
        /\ caller[p].id \in Nat
    BY <2>1 DEF Call
  <2>3. Append(queue[caller[p].queue], caller[p].id) \in Seq(Nat)
    BY <2>2, Appended DEF TypeInv
  <2>4. queue' \in [Queues -> Seq(Nat)]
    BY <1>2, <2>2, <2>3 DEF Push, TypeInv
  <2>5. caller' \in [Producers -> Call \cup {Nil}]
    BY <1>2, <2>2 DEF Push, TypeInv
  <2> QED BY <1>2, <2>4, <2>5 DEF Push, TypeInv, config, flushes
<1>3. ASSUME NEW p \in Producers, Drop(p) PROVE TypeInv'
  BY <1>3 DEF Drop, TypeInv, config, workers, flushes
<1>4. ASSUME NEW p \in Producers, Return(p) PROVE TypeInv'
  <2>1. caller[p].id \in Nat
    BY <1>4 DEF Return, TypeInv, Call
  <2> QED BY <1>4, <2>1 DEF Return, TypeInv, config, workers, flushes
<1>5. ASSUME NEW q \in Queues, Pop(q) PROVE TypeInv'
  <2>1. Head(queue[q]) \in Nat /\ Tail(queue[q]) \in Seq(Nat)
    BY <1>5, Taken DEF Pop, TypeInv
  <2>2. [id |-> Head(queue[q]), written |-> FALSE] \in Hand
    BY <2>1 DEF Hand
  <2> QED BY <1>5, <2>1, <2>2 DEF Pop, TypeInv, config, calls, flushes
<1>6. ASSUME NEW q \in Queues, WriteEvent(q) \/ WriteFails(q) PROVE TypeInv'
  <2>1. worker[q] \in Hand
    BY <1>6 DEF WriteEvent, WriteFails, InHand, TypeInv
  <2>2. [worker[q] EXCEPT !.written = TRUE] \in Hand
    BY <2>1 DEF Hand
  <2>3. worker' \in [Queues -> Hand \cup {Nil}]
    BY <1>6, <2>2 DEF WriteEvent, WriteFails, TypeInv
  <2> QED BY <1>6, <2>3, WriteTypes
          DEF WriteEvent, WriteFails, TypeInv, config, calls, flushes
<1>7. ASSUME NEW q \in Queues, SettleEvent(q) \/ End(q) PROVE TypeInv'
  BY <1>7 DEF SettleEvent, End, TypeInv, config, calls, flushes
<1>8. ASSUME NEW f \in {"caller", "destructor"}, Flush(f) \/ FlushFails(f) \/ FlushTimeout(f)
      PROVE  TypeInv'
  <2>1. DOMAIN flushing' = DOMAIN flushing /\ life' \in {"stopping", life}
    BY <1>8 DEF Flush, FlushFails, FlushTimeout, Returns, TypeInv
  <2>2. sink' \in [buffer : SUBSET Nat, disk : SUBSET Nat, stderr : SUBSET Nat]
    BY <1>8, SinkTypes DEF Flush, FlushFails, FlushTimeout, TypeInv
  <2> QED BY <1>8, <2>1, <2>2
          DEF Flush, FlushFails, FlushTimeout, TypeInv, config, calls, workers
<1>9. CASE FlushStart \/ Destroy
  BY <1>9 DEF FlushStart, Destroy, TypeInv, config, calls, workers
<1>10. CASE Gone
  BY <1>10, SinkTypes DEF Gone, TypeInv, config, calls, workers, flushes
<1>11. ASSUME NEW s, SetterStores \/ SetMinSeverity(s) \/ Reconfigure(s) PROVE TypeInv'
  BY <1>11 DEF SetterStores, SetMinSeverity, Reconfigure, TypeInv, calls, workers, flushes
<1>12. CASE UNCHANGED loggerVars
  BY <1>12 DEF loggerVars, TypeInv, calls, workers, flushes
<1> QED BY <1>1, <1>2, <1>3, <1>4, <1>5, <1>6, <1>7, <1>8, <1>9, <1>10, <1>11, <1>12
        DEF LoggerNext

-----------------------------------------------------------------------------
(* Where events are. *)
LEMMA KeptStart == LoggerInit => KeptInv /\ EndInv
  BY DEF LoggerInit, KeptInv, EndInv

(* An event that waits still waits, or was given to the sink. *)
KnownStays == \A e : Known(e) => Known(e)'

(* No step loses an event that is known. *)
LEMMA KnownStep == ASSUME TypeInv, LoggerNext PROVE KnownStays
<1>1. ASSUME UNCHANGED <<queue, worker, sink>> PROVE KnownStays
  BY <1>1 DEF KnownStays, Known
<1>2. ASSUME NEW p \in Producers, Push(p) PROVE KnownStays
  <2>1. caller[p].queue \in Queues /\ caller[p].id \in Nat
    BY <1>2 DEF Push, Calling, TypeInv, Call
  <2> DEFINE r == caller[p].queue
  <2>2. /\ \A q \in Queues : queue'[q] = IF q = r THEN Append(queue[r], caller[p].id) ELSE queue[q]
        /\ worker' = worker /\ sink' = sink
    BY <1>2, <2>1 DEF Push, TypeInv
  <2>3. queue[r] \in Seq(Nat)
    BY <2>1 DEF TypeInv
  <2>4. \A q \in Queues : \A e : Queued(queue[q], e) => Queued(queue'[q], e)
    BY <2>1, <2>2, <2>3, Appended
  <2> QED BY <2>2, <2>4 DEF KnownStays, Known
<1>3. ASSUME NEW r \in Queues, Pop(r) PROVE KnownStays
  <2>1. queue[r] \in Seq(Nat) /\ queue[r] # <<>>
    BY <1>3 DEF Pop, TypeInv
  <2>2. [id |-> Head(queue[r]), written |-> FALSE] # Nil
    <3>1. [id |-> Head(queue[r]), written |-> FALSE] \in Hand
      BY <2>1, Taken DEF Hand
    <3> QED BY <3>1, LoggerAssumption DEF Hand
  <2>3. /\ queue'[r] = Tail(queue[r]) /\ \A q \in Queues \ {r} : queue'[q] = queue[q]
        /\ worker[r] = Nil /\ worker'[r] = [id |-> Head(queue[r]), written |-> FALSE]
        /\ \A q \in Queues \ {r} : worker'[q] = worker[q]
        /\ sink' = sink
    BY <1>3 DEF Pop, TypeInv
  <2>4. \A q \in Queues : \A e : Queued(queue[q], e) => Queued(queue'[q], e) \/ Holds(worker'[q], e)
    BY <2>1, <2>2, <2>3, Taken DEF Holds
  <2>5. \A q \in Queues : \A e : Holds(worker[q], e) => Holds(worker'[q], e)
    BY <2>3 DEF Holds
  <2> QED BY <2>3, <2>4, <2>5 DEF KnownStays, Known
<1>4. ASSUME NEW r \in Queues, WriteEvent(r) \/ WriteFails(r) PROVE KnownStays
  <2>1. queue' = queue /\ \A q \in Queues \ {r} : worker'[q] = worker[q]
    BY <1>4 DEF WriteEvent, WriteFails, TypeInv
  <2>2. \A q \in Queues : \A e : Holds(worker[q], e) => Holds(worker'[q], e) \/ e = worker[r].id
    BY <2>1 DEF Holds
  <2> QED BY <1>4, <2>1, <2>2, WriteTypes DEF KnownStays, Known
<1>5. ASSUME NEW r \in Queues, SettleEvent(r) PROVE KnownStays
  <2>1. /\ queue' = queue /\ sink' = sink /\ \A q \in Queues \ {r} : worker'[q] = worker[q]
        /\ worker[r].written
    BY <1>5 DEF SettleEvent, InHand, TypeInv
  <2> QED BY <2>1 DEF KnownStays, Known, Holds
<1>6. ASSUME queue' = queue, worker' = worker, sink' = ToDisk(sink) PROVE KnownStays
  BY <1>6, SinkTypes DEF KnownStays, Known
<1>7. ASSUME NEW f \in {"caller", "destructor"}, Flush(f) \/ FlushFails(f) \/ FlushTimeout(f)
      PROVE  KnownStays
  BY <1>1, <1>6, <1>7 DEF Flush, FlushFails, FlushTimeout, workers
<1>8. CASE Gone
  BY <1>6, <1>8 DEF Gone, workers
<1>9. CASE FlushStart \/ Destroy \/ SetterStores
  BY <1>1, <1>9 DEF FlushStart, Destroy, SetterStores, workers
<1>10. ASSUME NEW s, SetMinSeverity(s) \/ Reconfigure(s) PROVE KnownStays
  BY <1>1, <1>10 DEF SetMinSeverity, Reconfigure, workers
<1>11. ASSUME NEW p \in Producers, Drop(p) \/ Return(p) \/ \E q \in Queues : Enter(p, q)
       PROVE  KnownStays
  BY <1>1, <1>11 DEF Drop, Return, Enter, workers
<1>12. ASSUME NEW q \in Queues, End(q) PROVE KnownStays
  BY <1>1, <1>12 DEF End
<1> QED BY <1>2, <1>3, <1>4, <1>5, <1>7, <1>8, <1>9, <1>10, <1>11, <1>12 DEF LoggerNext

(* What is on disk or on stderr stays there. *)
LEMMA OutStays ==
    ASSUME TypeInv, LoggerNext
    PROVE  sink.disk \cup sink.stderr \subseteq sink'.disk \cup sink'.stderr
<1>1. ASSUME NEW q \in Queues, WriteEvent(q) \/ WriteFails(q)
      PROVE  sink.disk \cup sink.stderr \subseteq sink'.disk \cup sink'.stderr
  BY <1>1, WriteTypes
<1>2. ASSUME sink' \in {sink, ToDisk(sink)}
      PROVE  sink.disk \cup sink.stderr \subseteq sink'.disk \cup sink'.stderr
  BY <1>2, SinkTypes
<1> QED BY <1>1, <1>2 DEF LoggerNext, Enter, Push, Drop, Return, Pop, SettleEvent, End, Flush,
         FlushFails, FlushTimeout, FlushStart, Destroy, Gone, SetterStores, SetMinSeverity,
         Reconfigure

(* When nothing is pending, everything known was given to the sink. *)
LEMMA IdleKnown ==
    ASSUME TypeInv, CountInv, Idle
    PROVE  /\ \A q \in Queues : queue[q] = <<>> /\ worker[q] = Nil
           /\ \A e : Known(e) => Given(sink, e)
<1>1. /\ Cardinality(CallingNow) \in Nat
      /\ \A q \in Queues : Len(queue[q]) \in Nat /\ Load(queue[q], worker[q]) \in Nat
  BY FS_CardinalityType DEF CountInv, TypeInv, Load
<1>2. Load(queue["normal"], worker["normal"]) = 0 /\ Load(queue["priority"], worker["priority"]) = 0
  BY <1>1 DEF CountInv, Idle, Queues
<1>3. \A q \in Queues : Len(queue[q]) = 0 /\ worker[q] = Nil
  <2> TAKE q \in Queues
  <2>1. Len(queue[q]) \in Nat /\ Load(queue[q], worker[q]) = 0
    BY <1>1, <1>2 DEF Queues
  <2>2. CASE worker[q] = Nil
    BY <2>1, <2>2 DEF Load
  <2>3. CASE worker[q] # Nil
    BY <2>1, <2>3 DEF Load
  <2> QED BY <2>2, <2>3
<1>4. \A q \in Queues : queue[q] \in Seq(Nat) /\ queue[q] = <<>>
  BY <1>3 DEF TypeInv
<1> QED BY <1>3, <1>4 DEF Known, Queued, Holds

(* Every step keeps what is known. *)
LEMMA KeptKept ==
    ASSUME IInv, [LoggerNext]_loggerVars
    PROVE  KeptInv'
<1> USE DEF IInv
<1>1. CASE UNCHANGED loggerVars
  <2>1. UNCHANGED <<caller, accepted, queue, worker, sink, flushing, flushed>>
    BY <1>1 DEF loggerVars, calls, workers, flushes
  <2> QED BY <2>1 DEF KeptInv, Known
<1>2. CASE LoggerNext
  <2>1. /\ \A e : Known(e) => Known(e)'
        /\ sink.disk \cup sink.stderr \subseteq sink'.disk \cup sink'.stderr
    BY <1>2, KnownStep, OutStays DEF KnownStays
  <2>2. ASSUME UNCHANGED <<caller, accepted, flushing, flushed>> PROVE KeptInv'
    BY <2>1, <2>2 DEF KeptInv
  <2>3. ASSUME NEW p \in Producers, NEW q \in Queues, Enter(p, q) PROVE KeptInv'
    <3>1. /\ \A r \in Producers : caller'[r] # Nil => caller'[r] = caller[r] \/ ~caller'[r].pushed
          /\ UNCHANGED <<accepted, flushing, flushed>>
      BY <2>3 DEF Enter, TypeInv, flushes
    <3> QED BY <2>1, <3>1 DEF KeptInv
  <2>4. ASSUME NEW p \in Producers, Push(p) PROVE KeptInv'
    <3>1. /\ caller[p] \in Call /\ caller[p].queue \in Queues /\ caller[p].id \in Nat
          /\ caller'[p] = [caller[p] EXCEPT !.pushed = TRUE]
          /\ \A r \in Producers \ {p} : caller'[r] = caller[r]
          /\ UNCHANGED <<accepted, flushing, flushed>>
      BY <2>4 DEF Push, Calling, TypeInv, Call, flushes
    <3>2. caller'[p].id = caller[p].id
      BY <3>1 DEF Call
    <3>3. queue[caller[p].queue] \in Seq(Nat)
          /\ queue'[caller[p].queue] = Append(queue[caller[p].queue], caller[p].id)
      BY <2>4, <3>1 DEF Push, TypeInv
    <3>4. Queued(queue'[caller[p].queue], caller[p].id)
      BY <3>1, <3>3, Appended
    <3>5. \A e : e = caller[p].id => Known(e)'
      BY <3>1, <3>4 DEF Known
    <3>6. \A r \in Producers : caller'[r] # Nil =>
            (caller'[r].pushed => \A e : e = caller'[r].id => Known(e)')
      BY <2>1, <3>1, <3>2, <3>5 DEF KeptInv
    <3> QED BY <2>1, <3>1, <3>6 DEF KeptInv
  <2>5. ASSUME NEW p \in Producers, Drop(p) PROVE KeptInv'
    <3>1. /\ \A r \in Producers : caller'[r] # Nil => caller'[r] = caller[r]
          /\ UNCHANGED <<accepted, flushing, flushed>>
      BY <2>5 DEF Drop, TypeInv, flushes
    <3> QED BY <2>1, <3>1 DEF KeptInv
  <2>6. ASSUME NEW p \in Producers, Return(p) PROVE KeptInv'
    <3>1. /\ \A r \in Producers : caller'[r] # Nil => caller'[r] = caller[r]
          /\ caller[p] # Nil /\ caller[p].pushed /\ accepted' = accepted \cup {caller[p].id}
          /\ UNCHANGED <<flushing, flushed>>
      BY <2>6 DEF Return, TypeInv, flushes
    <3> QED BY <2>1, <3>1 DEF KeptInv
  <2>7. ASSUME NEW f \in {"caller", "destructor"}, Flush(f) PROVE KeptInv'
    <3>1. /\ \A g \in {"caller", "destructor"} : flushing'[g] # Nil => flushing'[g] = flushing[g]
          /\ UNCHANGED <<caller, accepted>> /\ sink' = ToDisk(sink)
          /\ Idle /\ flushing[f] # Nil /\ flushed' = flushed \cup flushing[f]
      BY <2>7 DEF Flush, Returns, TypeInv, calls
    <3>2. flushing[f] \subseteq accepted /\ \A e \in accepted : Given(sink, e)
      BY <3>1, IdleKnown DEF KeptInv
    <3>3. flushing[f] \subseteq sink'.disk \cup sink'.stderr
      BY <3>1, <3>2, SinkTypes DEF Given
    <3> QED BY <2>1, <3>1, <3>3 DEF KeptInv
  <2>8. ASSUME NEW f \in {"caller", "destructor"}, FlushFails(f) \/ FlushTimeout(f) PROVE KeptInv'
    <3>1. /\ \A g \in {"caller", "destructor"} : flushing'[g] # Nil => flushing'[g] = flushing[g]
          /\ UNCHANGED <<caller, accepted, flushed>>
      BY <2>8 DEF FlushFails, FlushTimeout, Returns, TypeInv, calls
    <3> QED BY <2>1, <3>1 DEF KeptInv
  <2>9. CASE FlushStart \/ Destroy
    <3>1. /\ \A g \in {"caller", "destructor"} : flushing'[g] \in {flushing[g], accepted}
          /\ UNCHANGED <<caller, accepted, flushed>>
      BY <2>9 DEF FlushStart, Destroy, TypeInv, calls
    <3> QED BY <2>1, <3>1 DEF KeptInv
  <2>10. ASSUME NEW q \in Queues,
                Pop(q) \/ WriteEvent(q) \/ WriteFails(q) \/ SettleEvent(q) \/ End(q)
         PROVE  KeptInv'
    BY <2>2, <2>10 DEF Pop, WriteEvent, WriteFails, SettleEvent, End, calls, flushes
  <2>11. ASSUME NEW s, Gone \/ SetterStores \/ SetMinSeverity(s) \/ Reconfigure(s)
         PROVE  KeptInv'
    BY <2>2, <2>11 DEF Gone, SetterStores, SetMinSeverity, Reconfigure, calls, flushes
  <2> QED BY <1>2, <2>3, <2>4, <2>5, <2>6, <2>7, <2>8, <2>9, <2>10, <2>11 DEF LoggerNext
<1> QED BY <1>1, <1>2

-----------------------------------------------------------------------------
(* The destructor. *)
LEMMA EndKept ==
    ASSUME IInv, [LoggerNext]_loggerVars
    PROVE  EndInv'
<1> USE DEF IInv
<1>1. ASSUME UNCHANGED <<caller, queue, worker, ended, flushing, accepted, life>>,
             sink.disk \cup sink.stderr \subseteq sink'.disk \cup sink'.stderr
      PROVE  EndInv'
  BY <1>1 DEF EndInv
<1>2. CASE UNCHANGED loggerVars
  BY <1>1, <1>2 DEF loggerVars, calls, workers, flushes
<1>3. CASE LoggerNext
  <2>1. sink.disk \cup sink.stderr \subseteq sink'.disk \cup sink'.stderr
    BY <1>3, OutStays
  <2>2. ASSUME NEW p \in Producers, \/ Push(p) \/ Drop(p) \/ Return(p)
                                    \/ \E q \in Queues : Enter(p, q)
        PROVE  EndInv'
    <3>1. life = "live" /\ life' = life /\ UNCHANGED <<worker, ended, flushing>>
      BY <2>2 DEF Push, Drop, Return, Enter, Calling, EndInv, workers, flushes
    <3>2. ended = {}
      BY <3>1 DEF EndInv
    <3> QED BY <3>1, <3>2 DEF EndInv
  <2>3. ASSUME NEW q \in Queues, \/ Pop(q) \/ WriteEvent(q) \/ WriteFails(q) \/ SettleEvent(q)
        PROVE  EndInv'
    <3>1. /\ q \notin ended /\ UNCHANGED <<caller, ended, flushing, accepted, life>>
          /\ \A r \in Queues \ {q} : queue'[r] = queue[r] /\ worker'[r] = worker[r]
      BY <2>3 DEF Pop, WriteEvent, WriteFails, SettleEvent, InHand, EndInv, TypeInv, calls, flushes
    <3> QED BY <2>1, <3>1 DEF EndInv, TypeInv
  <2>4. ASSUME NEW q \in Queues, End(q) PROVE EndInv'
    BY <2>1, <2>4 DEF End, EndInv, Stopped, TypeInv, calls, flushes
  <2>5. ASSUME NEW f \in {"caller", "destructor"}, Flush(f) \/ FlushFails(f) \/ FlushTimeout(f)
        PROVE  EndInv'
    <3>1. /\ UNCHANGED <<caller, queue, worker, ended, accepted>>
          /\ flushing[f] # Nil /\ flushing' = [flushing EXCEPT ![f] = Nil]
          /\ life' = IF f = "destructor" THEN "stopping" ELSE life
      BY <2>5 DEF Flush, FlushFails, FlushTimeout, Returns, calls, workers
    <3>2. CASE f = "caller"
      BY <2>1, <3>1, <3>2 DEF EndInv, TypeInv
    <3>3. CASE f = "destructor"
      BY <2>1, <3>1, <3>3 DEF EndInv, TypeInv
    <3> QED BY <3>2, <3>3
  <2>6. CASE FlushStart
    <3>1. /\ UNCHANGED <<caller, queue, worker, ended, accepted, life>> /\ life = "live"
          /\ flushing'["destructor"] = flushing["destructor"]
      BY <2>6 DEF FlushStart, TypeInv, calls, workers
    <3> QED BY <2>1, <3>1 DEF EndInv, TypeInv
  <2>7. CASE Destroy
    <3>1. /\ UNCHANGED <<queue, worker, ended, accepted>> /\ caller' = caller
          /\ life = "live" /\ life' = "closing"
          /\ flushing'["caller"] = Nil /\ \A p \in Producers : caller[p] = Nil
      BY <2>7 DEF Destroy, TypeInv, calls, workers
    <3> QED BY <2>1, <3>1 DEF EndInv, TypeInv
  <2>8. CASE Gone
    <3>1. /\ UNCHANGED <<caller, queue, worker, ended, accepted, flushing>>
          /\ life = "stopping" /\ life' = "gone" /\ ended = Queues /\ sink' = ToDisk(sink)
      BY <2>8 DEF Gone, calls, workers, flushes
    <3>2. \A e \in accepted : Given(sink, e)
      <4>1. \A q \in Queues : queue[q] = <<>> /\ worker[q] = Nil
        BY <3>1 DEF EndInv
      <4> QED BY <4>1 DEF KeptInv, Known, Queued, Holds
    <3>3. accepted' \subseteq sink'.disk \cup sink'.stderr
      BY <3>1, <3>2, SinkTypes DEF Given
    <3> QED BY <2>1, <3>1, <3>3 DEF EndInv
  <2>9. ASSUME NEW s, SetterStores \/ SetMinSeverity(s) \/ Reconfigure(s)
        PROVE  EndInv'
    BY <1>1, <2>1, <2>9 DEF SetterStores, SetMinSeverity, Reconfigure, calls, workers, flushes
  <2> QED BY <1>3, <2>2, <2>3, <2>4, <2>5, <2>6, <2>7, <2>8, <2>9 DEF LoggerNext
<1> QED BY <1>2, <1>3

-----------------------------------------------------------------------------
(* The counters. *)
LEMMA CountStart == LoggerInit => CountInv
<1> SUFFICES ASSUME LoggerInit PROVE CountInv
  OBVIOUS
<1>1. /\ \A p \in Producers : caller[p] = Nil /\ ~Calling(p)
      /\ queue["normal"] = <<>> /\ queue["priority"] = <<>>
      /\ worker["normal"] = Nil /\ worker["priority"] = Nil
  BY DEF LoggerInit, Calling, Queues
<1>2. Callers = {} /\ CallingNow = {} /\ accepted = {}
  BY <1>1 DEF Callers, CallingNow, LoggerInit
<1>3. IsFiniteSet({}) /\ Cardinality({}) = 0
  BY FS_EmptySet
<1>4. Load(queue["normal"], worker["normal"]) = 0 /\ Load(queue["priority"], worker["priority"]) = 0
  BY <1>1 DEF Load
<1>5. /\ pending_ = 0 /\ sequence = 0
      /\ stats = [accepted |-> 0, emitted |-> 0, dropped |-> 0, write_errors |-> 0]
  BY DEF LoggerInit
<1> QED BY <1>2, <1>3, <1>4, <1>5 DEF CountInv

(* A step that neither takes an event nor moves one. *)
CountedSame == UNCHANGED <<sequence, caller, accepted, pending_, queue, worker>>

(* Such a step keeps the counts. *)
LEMMA SameCount ==
    ASSUME TypeInv, CountInv, CountedSame,
           stats' = stats \/ Counts("emitted") \/ Counts("write_errors")
    PROVE  CountInv'
<1>1. Callers' = Callers /\ CallingNow' = CallingNow
  BY DEF Callers, CallingNow, Calling, CountedSame
<1>2. stats'.accepted = stats.accepted /\ stats'.dropped = stats.dropped
      /\ DOMAIN stats' = DOMAIN stats
  BY DEF Counts, CountInv
<1> QED BY <1>1, <1>2 DEF CountInv, CountedSame

(* The load of a queue and its worker. *)
LEMMA LoadIs ==
    ASSUME NEW s \in Seq(Nat), NEW w
    PROVE  /\ Len(s) \in Nat /\ Load(s, w) \in Nat
           /\ \A t \in Seq(Nat) : Len(t) = Len(s) + 1 => Load(t, w) = Load(s, w) + 1
<1>1. Len(s) \in Nat /\ \A t \in Seq(Nat) : Len(t) \in Nat
  OBVIOUS
<1>2. CASE w = Nil
  BY <1>1, <1>2 DEF Load
<1>3. CASE w # Nil
  BY <1>1, <1>3 DEF Load
<1> QED BY <1>2, <1>3

(* Both loads are numbers. *)
LEMMA LoadsNat ==
    ASSUME TypeInv
    PROVE  Load(queue["normal"], worker["normal"]) \in Nat
           /\ Load(queue["priority"], worker["priority"]) \in Nat
<1>1. queue["normal"] \in Seq(Nat) /\ queue["priority"] \in Seq(Nat)
  BY DEF TypeInv, Queues
<1> QED BY <1>1, LoadIs

(* The sums that CountInv is about. *)
LEMMA Sums ==
    ASSUME TypeInv, CountInv
    PROVE  /\ pending_ = Cardinality(CallingNow) + Load(queue["normal"], worker["normal"])
                          + Load(queue["priority"], worker["priority"])
           /\ stats.accepted + stats.dropped + Cardinality(Callers) = sequence
           /\ stats.accepted \in Nat /\ stats.dropped \in Nat /\ sequence \in Nat
           /\ Load(queue["normal"], worker["normal"]) \in Nat
           /\ Load(queue["priority"], worker["priority"]) \in Nat
           /\ Cardinality(Callers) \in Nat /\ Cardinality(CallingNow) \in Nat
  BY LoadsNat, FS_CardinalityType DEF CountInv, TypeInv

(* Enter counts the event before it is in a queue. *)
LEMMA EnterCount ==
    ASSUME TypeInv, CountInv, NEW p \in Producers, NEW r \in Queues, Enter(p, r)
    PROVE  CountInv'
<1>1. /\ caller[p] = Nil /\ sequence' = sequence + 1 /\ pending_' = pending_ + 1
      /\ caller'[p] = [id |-> sequence + 1, queue |-> r, pushed |-> FALSE]
      /\ \A x \in Producers \ {p} : caller'[x] = caller[x]
      /\ UNCHANGED <<accepted, queue, worker, stats>>
  BY DEF Enter, TypeInv, workers
<1>2. caller'[p] # Nil /\ ~caller'[p].pushed /\ caller'[p].id = sequence + 1
  <2>1. [id |-> sequence + 1, queue |-> r, pushed |-> FALSE]
          \in [id : Nat, queue : Queues, pushed : BOOLEAN]
    BY DEF TypeInv
  <2>2. [id |-> sequence + 1, queue |-> r, pushed |-> FALSE] # Nil
    BY <2>1, LoggerAssumption
  <2> QED BY <1>1, <2>2
<1>3. /\ Callers' = Callers \cup {p} /\ p \notin Callers
      /\ CallingNow' = CallingNow \cup {p} /\ p \notin CallingNow
  BY <1>1, <1>2 DEF Callers, CallingNow, Calling
<1>4. /\ IsFiniteSet(Callers') /\ Cardinality(Callers') = Cardinality(Callers) + 1
      /\ IsFiniteSet(CallingNow') /\ Cardinality(CallingNow') = Cardinality(CallingNow) + 1
  BY <1>3, FS_AddElement DEF CountInv
<1>7. /\ pending_' = Cardinality(CallingNow') + Load(queue'["normal"], worker'["normal"])
                      + Load(queue'["priority"], worker'["priority"])
      /\ stats'.accepted + stats'.dropped + Cardinality(Callers') = sequence'
  BY <1>1, <1>4, Sums
<1>8. \A e \in accepted' : e <= sequence' /\ e # sequence + 1
  BY <1>1 DEF CountInv, TypeInv
<1>9. \A x \in Callers' : caller'[x].id <= sequence' /\ caller'[x].id \notin accepted'
  <2>1. caller'[p].id <= sequence' /\ caller'[p].id \notin accepted'
    BY <1>1, <1>2, <1>8 DEF TypeInv
  <2>2. \A x \in Callers : caller[x].id \in Nat /\ caller[x].id <= sequence
                            /\ caller[x].id \notin accepted
    BY DEF CountInv, TypeInv, Callers, Call
  <2>3. \A x \in Callers : caller'[x] = caller[x]
    BY <1>1, <1>3 DEF Callers
  <2>4. sequence \in Nat /\ sequence' = sequence + 1 /\ accepted' = accepted
    BY <1>1 DEF TypeInv
  <2> QED BY <1>3, <2>1, <2>2, <2>3, <2>4
<1>10. \A x \in Callers : caller[x].id # sequence + 1
  BY DEF CountInv, TypeInv, Callers, Call
<1>11. \A x, y \in Callers' : caller'[x].id = caller'[y].id => x = y
  BY <1>1, <1>2, <1>3, <1>10 DEF CountInv, Callers
<1> QED BY <1>1, <1>4, <1>7, <1>8, <1>9, <1>11 DEF CountInv

(* Push moves an event from the caller to the queue. *)
LEMMA PushCount ==
    ASSUME TypeInv, CountInv, NEW p \in Producers, Push(p)
    PROVE  CountInv'
<1> DEFINE r == caller[p].queue
<1>1. /\ caller[p] \in Call /\ caller[p] # Nil /\ ~caller[p].pushed
      /\ caller[p].queue \in Queues /\ caller[p].id \in Nat
  BY DEF Push, Calling, TypeInv, Call
<1>2. [caller[p] EXCEPT !.pushed = TRUE] \in Call
      /\ [caller[p] EXCEPT !.pushed = TRUE].id = caller[p].id
      /\ [caller[p] EXCEPT !.pushed = TRUE].pushed
  BY <1>1 DEF Call
<1>3. /\ caller'[p] # Nil /\ caller'[p].pushed /\ caller'[p].id = caller[p].id
      /\ \A x \in Producers \ {p} : caller'[x] = caller[x]
      /\ UNCHANGED <<accepted, worker, stats, sequence, pending_>>
      /\ queue'[r] = Append(queue[r], caller[p].id)
      /\ \A q \in Queues \ {r} : queue'[q] = queue[q]
  BY <1>1, <1>2, LoggerAssumption DEF Push, TypeInv, Call
<1>4. /\ Callers' = Callers
      /\ CallingNow' = CallingNow \ {p} /\ p \in CallingNow
  BY <1>1, <1>3 DEF Callers, CallingNow, Calling
<1>5. IsFiniteSet(CallingNow') /\ Cardinality(CallingNow') = Cardinality(CallingNow) - 1
  BY <1>4, FS_RemoveElement DEF CountInv
<1>7. Load(queue'["normal"], worker'["normal"]) + Load(queue'["priority"], worker'["priority"]) =
        Load(queue["normal"], worker["normal"]) + Load(queue["priority"], worker["priority"]) + 1
  <2>1. /\ queue[r] \in Seq(Nat) /\ queue'[r] \in Seq(Nat)
        /\ Len(queue'[r]) = Len(queue[r]) + 1
        /\ worker'[r] = worker[r]
    BY <1>1, <1>3, Appended DEF TypeInv
  <2>2. Load(queue'[r], worker'[r]) = Load(queue[r], worker[r]) + 1
    BY <2>1, LoadIs
  <2>3. \A q \in Queues \ {r} : Load(queue'[q], worker'[q]) = Load(queue[q], worker[q])
    BY <1>3
  <2>4. r \in Queues
    BY <1>1
  <2> HIDE DEF r
  <2>5. CASE r = "normal"
    <3>1. Load(queue'["priority"], worker'["priority"]) = Load(queue["priority"], worker["priority"])
      BY <2>3, <2>5 DEF Queues
    <3> QED BY <2>2, <2>5, <3>1, Sums
  <2>6. CASE r = "priority"
    <3>1. Load(queue'["normal"], worker'["normal"]) = Load(queue["normal"], worker["normal"])
      BY <2>3, <2>6 DEF Queues
    <3> QED BY <2>2, <2>6, <3>1, Sums
  <2> QED BY <2>4, <2>5, <2>6 DEF Queues
<1>8. Load(queue'["normal"], worker'["normal"]) \in Nat
      /\ Load(queue'["priority"], worker'["priority"]) \in Nat
  <2>1. TypeInv'
    BY TypesKept DEF LoggerNext
  <2>2. queue'["normal"] \in Seq(Nat) /\ queue'["priority"] \in Seq(Nat)
    BY <2>1 DEF TypeInv, Queues
  <2> QED BY <2>2, LoadIs
<1>9. pending_' = Cardinality(CallingNow') + Load(queue'["normal"], worker'["normal"])
                      + Load(queue'["priority"], worker'["priority"])
  <2>1. pending_' = pending_
    BY <1>3
  <2> QED BY <1>5, <1>7, <1>8, <2>1, Sums
<1>10. \A x \in Callers : caller'[x].id = caller[x].id
  BY <1>3 DEF Callers
<1> QED BY <1>3, <1>4, <1>5, <1>9, <1>10 DEF CountInv

(* Drop and Return end a call. *)
LEMMA LeaveCount ==
    ASSUME TypeInv, CountInv, NEW p \in Producers, Drop(p) \/ Return(p)
    PROVE  CountInv'
<1>1. /\ caller[p] # Nil /\ caller'[p] = Nil
      /\ \A x \in Producers \ {p} : caller'[x] = caller[x]
      /\ UNCHANGED <<sequence, queue, worker>>
  BY DEF Drop, Return, Calling, TypeInv, workers
<1>2. Callers' = Callers \ {p} /\ p \in Callers /\ caller[p].id \in Nat
  BY <1>1 DEF Callers, TypeInv, Call
<1>3. /\ IsFiniteSet(Callers') /\ Cardinality(Callers') = Cardinality(Callers) - 1
      /\ Cardinality(Callers) \in Nat /\ Cardinality(CallingNow) \in Nat
  BY <1>2, FS_RemoveElement, FS_CardinalityType DEF CountInv
<1>4. \A x \in Callers' : caller'[x] = caller[x]
  BY <1>1, <1>2 DEF Callers
<1>6. CASE Drop(p)
  <2>1. CallingNow' = CallingNow \ {p} /\ p \in CallingNow
    BY <1>1, <1>6 DEF CallingNow, Calling, Drop
  <2>2. IsFiniteSet(CallingNow') /\ Cardinality(CallingNow') = Cardinality(CallingNow) - 1
    BY <2>1, FS_RemoveElement DEF CountInv
  <2>3. /\ pending_' = pending_ - 1 /\ accepted' = accepted
        /\ stats'.accepted = stats.accepted /\ stats'.dropped = stats.dropped + 1
        /\ DOMAIN stats' = DOMAIN stats
    BY <1>6 DEF Drop, Counts, CountInv
  <2>4. /\ pending_' = Cardinality(CallingNow') + Load(queue'["normal"], worker'["normal"])
                      + Load(queue'["priority"], worker'["priority"])
        /\ stats'.accepted + stats'.dropped + Cardinality(Callers') = sequence'
    BY <1>1, <1>3, <2>2, <2>3, Sums
  <2> QED BY <1>1, <1>2, <1>3, <1>4, <2>2, <2>3, <2>4 DEF CountInv
<1>7. CASE Return(p)
  <2>1. CallingNow' = CallingNow
    BY <1>1, <1>7 DEF CallingNow, Calling, Return
  <2>2. /\ pending_' = pending_ /\ accepted' = accepted \cup {caller[p].id}
        /\ stats'.accepted = stats.accepted + 1 /\ stats'.dropped = stats.dropped
        /\ DOMAIN stats' = DOMAIN stats
    BY <1>7 DEF Return, Counts, CountInv
  <2>3. IsFiniteSet(accepted') /\ Cardinality(accepted') = Cardinality(accepted) + 1
    BY <1>2, <2>2, FS_AddElement DEF CountInv
  <2>4. /\ pending_' = Cardinality(CallingNow') + Load(queue'["normal"], worker'["normal"])
                      + Load(queue'["priority"], worker'["priority"])
        /\ stats'.accepted + stats'.dropped + Cardinality(Callers') = sequence'
    BY <1>1, <1>3, <2>1, <2>2, Sums
  <2>5. \A x \in Callers' : caller'[x].id \notin accepted'
    BY <1>2, <1>4, <2>2 DEF CountInv
  <2>6. \A e \in accepted' : e <= sequence'
    BY <1>1, <1>2, <2>2 DEF CountInv
  <2>7. stats'.accepted \in Nat /\ stats'.accepted = Cardinality(accepted') /\ stats'.dropped \in Nat
    BY <2>2, <2>3 DEF CountInv
  <2> QED BY <1>1, <1>2, <1>3, <1>4, <2>1, <2>2, <2>3, <2>4, <2>5, <2>6, <2>7 DEF CountInv
<1> QED BY <1>6, <1>7

(* A worker moves on. *)
LEMMA WorkCount ==
    ASSUME TypeInv, CountInv, NEW r \in Queues,
           Pop(r) \/ WriteEvent(r) \/ WriteFails(r) \/ SettleEvent(r)
    PROVE  CountInv'
<1>1. /\ UNCHANGED <<sequence, caller, accepted>>
      /\ \A q \in Queues \ {r} : queue'[q] = queue[q] /\ worker'[q] = worker[q]
  BY DEF Pop, WriteEvent, WriteFails, SettleEvent, TypeInv, calls
<1>2. Callers' = Callers /\ CallingNow' = CallingNow
  BY <1>1 DEF Callers, CallingNow, Calling
<1>3. stats'.accepted = stats.accepted /\ stats'.dropped = stats.dropped
      /\ DOMAIN stats' = DOMAIN stats
  BY DEF Pop, WriteEvent, WriteFails, SettleEvent, Counts, CountInv
<1>4. Len(queue[r]) \in Nat /\ Len(queue["normal"]) \in Nat /\ Len(queue["priority"]) \in Nat
  BY DEF TypeInv, Queues
<1>5. \/ Load(queue'[r], worker'[r]) = Load(queue[r], worker[r]) /\ pending_' = pending_
      \/ Load(queue'[r], worker'[r]) = Load(queue[r], worker[r]) - 1 /\ pending_' = pending_ - 1
  <2>1. CASE Pop(r)
    <3>1. queue[r] \in Seq(Nat) /\ queue[r] # <<>>
      BY <2>1 DEF Pop, TypeInv
    <3>2. [id |-> Head(queue[r]), written |-> FALSE] # Nil
      <4>1. [id |-> Head(queue[r]), written |-> FALSE] \in Hand
        BY <3>1, Taken DEF Hand
      <4> QED BY <4>1, LoggerAssumption DEF Hand
    <3>3. /\ worker[r] = Nil /\ worker'[r] # Nil /\ queue'[r] = Tail(queue[r])
          /\ pending_' = pending_
      BY <2>1, <3>2 DEF Pop, TypeInv
    <3> QED BY <1>4, <3>1, <3>3, Taken DEF Load
  <2>2. CASE WriteEvent(r) \/ WriteFails(r)
    <3>1. /\ worker[r] # Nil /\ worker'[r] = [worker[r] EXCEPT !.written = TRUE]
          /\ worker[r] \in Hand
          /\ queue' = queue /\ pending_' = pending_
      BY <2>2 DEF WriteEvent, WriteFails, InHand, TypeInv
    <3>2. worker'[r] # Nil
      BY <3>1, LoggerAssumption DEF Hand
    <3> QED BY <3>1, <3>2 DEF Load
  <2>3. CASE SettleEvent(r)
    <3>1. worker[r] # Nil /\ worker'[r] = Nil /\ queue' = queue /\ pending_' = pending_ - 1
      BY <2>3 DEF SettleEvent, InHand, TypeInv
    <3> QED BY <1>4, <3>1 DEF Load
  <2> QED BY <2>1, <2>2, <2>3
<1>6. pending_' = Cardinality(CallingNow) + Load(queue'["normal"], worker'["normal"])
                      + Load(queue'["priority"], worker'["priority"])
  <2>1. Cardinality(CallingNow) \in Nat
    BY FS_CardinalityType DEF CountInv
  <2>2. /\ Load(queue["normal"], worker["normal"]) \in Nat
        /\ Load(queue["priority"], worker["priority"]) \in Nat
    BY LoadsNat
  <2>3. r = "normal" \/ r = "priority"
    BY DEF Queues
  <2>4. CASE r = "normal"
    <3>1. Load(queue'["priority"], worker'["priority"]) = Load(queue["priority"], worker["priority"])
      BY <1>1, <2>4 DEF Queues
    <3> QED BY <1>5, <2>1, <2>2, <2>4, <3>1 DEF CountInv
  <2>5. CASE r = "priority"
    <3>1. Load(queue'["normal"], worker'["normal"]) = Load(queue["normal"], worker["normal"])
      BY <1>1, <2>5 DEF Queues
    <3> QED BY <1>5, <2>1, <2>2, <2>5, <3>1 DEF CountInv
  <2> QED BY <2>3, <2>4, <2>5
<1> QED BY <1>1, <1>2, <1>3, <1>6 DEF CountInv

(* Every step keeps the counts. *)
LEMMA CountKept ==
    ASSUME TypeInv, CountInv, [LoggerNext]_loggerVars
    PROVE  CountInv'
<1>1. ASSUME NEW p \in Producers, NEW q \in Queues, Enter(p, q) PROVE CountInv'
  BY <1>1, EnterCount
<1>2. ASSUME NEW p \in Producers, Push(p) \/ Drop(p) \/ Return(p) PROVE CountInv'
  BY <1>2, PushCount, LeaveCount
<1>3. ASSUME NEW q \in Queues, Pop(q) \/ WriteEvent(q) \/ WriteFails(q) \/ SettleEvent(q)
      PROVE  CountInv'
  BY <1>3, WorkCount
<1>4. ASSUME NEW q \in Queues, End(q) PROVE CountInv'
  BY <1>4, SameCount DEF End, CountedSame, calls
<1>5. ASSUME NEW f \in {"caller", "destructor"}, Flush(f) \/ FlushFails(f) \/ FlushTimeout(f)
      PROVE  CountInv'
  BY <1>5, SameCount DEF Flush, FlushFails, FlushTimeout, CountedSame, calls, workers
<1>6. CASE FlushStart \/ Destroy \/ Gone \/ SetterStores
  BY <1>6, SameCount DEF FlushStart, Destroy, Gone, SetterStores, CountedSame, calls, workers
<1>7. ASSUME NEW s, SetMinSeverity(s) \/ Reconfigure(s) PROVE CountInv'
  BY <1>7, SameCount DEF SetMinSeverity, Reconfigure, CountedSame, calls, workers
<1>8. CASE UNCHANGED loggerVars
  BY <1>8, SameCount DEF loggerVars, CountedSame, calls, workers
<1> QED BY <1>1, <1>2, <1>3, <1>4, <1>5, <1>6, <1>7, <1>8 DEF LoggerNext

-----------------------------------------------------------------------------
(* An event that log() accepted is not lost: it has left the process when  *)
(* a flush() that began after it returns true, and when the destructor     *)
(* returns; and when nothing is pending the counters account for every     *)
(* event (Logger::Impl::log, consume, flush, ~Impl).                       *)
THEOREM AcceptedKept == LoggerSpec => []AcceptedIsKept
<1>1. LoggerInit => IInv
  BY TypesStart, KeptStart, CountStart DEF IInv
<1>2. ASSUME IInv, [LoggerNext]_loggerVars PROVE IInv'
  BY <1>2, TypesKept, KeptKept, EndKept, CountKept DEF IInv
<1>3. ASSUME IInv PROVE AcceptedIsKept
  <2>1. FlushedIsWritten
    BY <1>3 DEF IInv, KeptInv, FlushedIsWritten
  <2>2. NothingStranded
    BY <1>3 DEF IInv, EndInv, NothingStranded
  <2>3. ASSUME Idle, \A p \in Producers : caller[p] = Nil
        PROVE  /\ QueuesEmpty
               /\ stats.accepted = Cardinality(accepted)
               /\ stats.accepted + stats.dropped = sequence
               /\ accepted \subseteq sink.buffer \cup sink.disk \cup sink.stderr
    <3>1. /\ \A q \in Queues : queue[q] = <<>>
          /\ \A e \in accepted : Given(sink, e)
      BY <1>3, <2>3, IdleKnown DEF IInv, KeptInv
    <3>2. Callers = {}
      BY <2>3 DEF Callers
    <3>3. Cardinality(Callers) = 0
      BY <3>2, FS_EmptySet
    <3>4. stats.accepted + stats.dropped = sequence
      BY <1>3, <3>3 DEF IInv, CountInv
    <3> QED BY <1>3, <3>1, <3>4 DEF IInv, CountInv, QueuesEmpty, Given
  <2> QED BY <2>1, <2>2, <2>3 DEF AcceptedIsKept, Accounted
<1> QED BY <1>1, <1>2, <1>3, PTL DEF LoggerSpec
=============================================================================
