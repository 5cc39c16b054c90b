-------------------------- MODULE GatewayEdgeProofs --------------------------
(***************************************************************************)
(* The two edges of a gateway, which share no state: the transports its    *)
(* clients arrive on, and the record in etcd that admits them once.        *)
(*                                                                         *)
(* AdmissionConsumption: type correctness, that a consumed record is never *)
(* reopened, that the credentials admit at most one session as long as     *)
(* clock skew and frame stall stay together below the second that          *)
(* retention_ttl adds, and that the record in etcd implements the atomic   *)
(* store.  CredentialChain: a ticket is redeemed once, and hosts whose     *)
(* clocks agree accept the credentials of an honest login.                 *)
(*                                                                         *)
(* Transports: both keep the contract of the edge runtime (KeepsContract), *)
(* and a TLS peer that closes its writing side is heard out (HeardOut):    *)
(* for any number of peers and frames, every budget, room and capacity,    *)
(* answers at any time and all callbacks of MsQuic in between.  The        *)
(* inductive invariant follows the events on their way to the service      *)
(* (Flow): handled one after the other they are steps of the contract.     *)
(* What a transport may still report is read from its connection: what was *)
(* opened, which frames were taken out, what has ended.                    *)
(***************************************************************************)
EXTENDS AdmissionConsumption, CredentialChain, Transports, FiniteSetTheorems,
        SequenceTheorems, WellFoundedInduction, TLAPS

-----------------------------------------------------------------------------
(* Type correctness.                                                       *)

LEMMA NoRecordType == NoRecord \in Records
  BY DEF NoRecord, Records, Owners

(* The record a call puts in place has the type of a record. *)
LEMMA ReplacementType ==
  ASSUME TypeOK, NEW a \in Attempts, NEW r \in Records, NEW ends \in Nat
  PROVE  Replacement(a, r, ends) \in Records
  <1>1. Owner[a] \in Owners
    BY DEF Owners
  <1>2. now[a] \in Nat /\ op[a] \in {"reserve", "commit", "release"}
    BY DEF TypeOK
  <1>3. now[a] + ReservationTtl \in Nat
    BY <1>2, AdmissionAssumption
  <1>4. CASE op[a] = "reserve"
    BY <1>1, <1>3, <1>4 DEF Replacement, Records
  <1>5. CASE op[a] = "commit"
    BY <1>5 DEF Replacement, Records
  <1>6. CASE op[a] = "release"
    BY <1>2, <1>6 DEF Replacement, Records
  <1> QED
    BY <1>2, <1>4, <1>5, <1>6

LEMMA InitTypeOK == ConsumeInit => TypeOK
  BY NoRecordType, AdmissionAssumption DEF ConsumeInit, TypeOK

(* Times of a call: it uses a time its clock has shown, that has not aged  *)
(* by more than MaxStall; a reservation and a commit that reach their put  *)
(* use a time within consume_until.                                        *)
Timed ==
    \A a \in Attempts :
        /\ now[a] <= Wall(a)
        /\ Calling(a) => Wall(a) <= now[a] + MaxStall
        /\ Calling(a) /\ op[a] = "reserve" => now[a] <= Until
        /\ pc[a] = "wait" /\ op[a] = "commit" => now[a] <= Until
        /\ pc[a] = "grant" => op[a] = "reserve"
        /\ pc[a] = "idle" => op[a] = "reserve"

LEMMA InitTimed == ConsumeInit => Timed
  <1> SUFFICES ASSUME ConsumeInit PROVE Timed
    OBVIOUS
  <1>1. ASSUME NEW a \in Attempts
        PROVE  now[a] = 0 /\ clock = 0 /\ pc[a] = "idle" /\ op[a] = "reserve" /\ Skew[a] \in Nat
    BY AdmissionAssumption DEF ConsumeInit
  <1>2. ASSUME NEW a \in Attempts PROVE now[a] <= Wall(a) /\ ~Calling(a)
    BY <1>1 DEF Wall, Calling
  <1> QED
    BY <1>1, <1>2 DEF Timed

LEMMA NextTypeOK == TypeOK /\ Timed /\ [ConsumeNext]_consumeVars => TypeOK'
  <1> SUFFICES ASSUME TypeOK, Timed, [ConsumeNext]_consumeVars PROVE TypeOK'
    OBVIOUS
  <1> USE AdmissionAssumption DEF etcd, attempt, wire
  <1>1. ASSUME NEW a \in Attempts, ReserveCall(a) PROVE TypeOK'
    BY <1>1 DEF ReserveCall, TypeOK, Wall
  <1>2. ASSUME NEW a \in Attempts, NEW w \in {"commit", "release"}, SettleCall(a, w) PROVE TypeOK'
    BY <1>2 DEF SettleCall, TypeOK, Wall
  <1>3. ASSUME NEW a \in Attempts, LoadReserve(a) PROVE TypeOK'
    <2>1. lease[a] \in Nat /\ record \in Records
      BY DEF TypeOK
    <2>2. Replacement(a, record, lease[a]) \in Records
      BY <2>1, ReplacementType
    <2>3. record.fencing \in Nat
      BY <2>1 DEF Records
    <2> QED
      BY <1>3, <2>1, <2>2, <2>3 DEF LoadReserve, SendPut, Return, TypeOK
  <1>4. ASSUME NEW a \in Attempts, GrantLease(a) PROVE TypeOK'
    <2> DEFINE e == clock + (Until - now[a]) + RetentionSlack
    <2>1. e \in Nat
      BY <1>4 DEF GrantLease, Timed, TypeOK, Calling
    <2>2. seen[a] \in Records
      BY DEF TypeOK
    <2>3. Replacement(a, seen[a], e) \in Records
      BY <2>1, <2>2, ReplacementType
    <2> QED
      BY <1>4, <2>1, <2>3 DEF GrantLease, SendPut, TypeOK
  <1>5. ASSUME NEW a \in Attempts, LoadCommit(a) PROVE TypeOK'
    <2>1. record \in Records /\ record.ends \in Nat /\ fencing[a] \in Nat
      BY DEF TypeOK, Records
    <2>2. Replacement(a, record, record.ends) \in Records
      BY <2>1, ReplacementType
    <2> QED
      BY <1>5, <2>1, <2>2 DEF LoadCommit, SendPut, Return, TypeOK
  <1>6. ASSUME NEW a \in Attempts, LoadRelease(a) PROVE TypeOK'
    <2>1. record \in Records /\ record.ends \in Nat /\ fencing[a] \in Nat
      BY DEF TypeOK, Records
    <2>2. Replacement(a, record, record.ends) \in Records
      BY <2>1, ReplacementType
    <2> QED
      BY <1>6, <2>1, <2>2 DEF LoadRelease, SendPut, Return, TypeOK
  <1>7. ASSUME NEW a \in Attempts, Execute(a) PROVE TypeOK'
    <2>1. PICK p \in put[a] :
            IF PutApplies(p)
              THEN /\ revision' = revision + 1
                   /\ record' = [p EXCEPT !.rev = revision + 1]
                   /\ reply' = [reply EXCEPT ![a] = "won"]
              ELSE /\ reply' = [reply EXCEPT ![a] = "missed"]
                   /\ UNCHANGED etcd
      BY <1>7 DEF Execute
    <2>2. p \in Records
      BY DEF TypeOK
    <2>3. record' \in Records /\ revision' \in Nat
      BY <2>1, <2>2 DEF TypeOK, Records
    <2> QED
      BY <1>7, <2>1, <2>3 DEF Execute, TypeOK
  <1>8. ASSUME NEW a \in Attempts, PutWon(a) PROVE TypeOK'
    <2>1. seen[a].fencing + 1 \in Nat
      BY DEF TypeOK, Records
    <2> QED
      BY <1>8, <2>1 DEF PutWon, TypeOK
  <1>9. ASSUME NEW a \in Attempts, PutMissed(a) PROVE TypeOK'
    BY <1>9 DEF PutMissed, TypeOK
  <1>10. ASSUME NEW a \in Attempts, Unavailable(a) \/ GatewayDies(a) PROVE TypeOK'
    BY <1>10 DEF Unavailable, GatewayDies, TypeOK
  <1>11. CASE LeaseExpires
    BY <1>11, NoRecordType DEF LeaseExpires, TypeOK
  <1>12. CASE Tick
    BY <1>12 DEF Tick, TypeOK
  <1>13. CASE UNCHANGED consumeVars
    BY <1>13 DEF consumeVars, TypeOK
  <1> QED
    BY <1>1, <1>2, <1>3, <1>4, <1>5, <1>6, <1>7, <1>8, <1>9, <1>10, <1>11, <1>12, <1>13
       DEF ConsumeNext, Step, CommitCall, ReleaseCall

LEMMA NextTimed == TypeOK /\ Timed /\ [ConsumeNext]_consumeVars => Timed'
  <1> SUFFICES ASSUME TypeOK, Timed, [ConsumeNext]_consumeVars PROVE Timed'
    OBVIOUS
  <1> USE AdmissionAssumption DEF etcd, attempt, wire, Timed, Wall, Calling, TypeOK
  <1>1. ASSUME NEW a \in Attempts, ReserveCall(a) PROVE Timed'
    BY <1>1 DEF ReserveCall
  <1>2. ASSUME NEW a \in Attempts, NEW w \in {"commit", "release"}, SettleCall(a, w) PROVE Timed'
    BY <1>2 DEF SettleCall
  <1>3. ASSUME NEW a \in Attempts, LoadReserve(a) PROVE Timed'
    BY <1>3 DEF LoadReserve, SendPut, Return
  <1>4. ASSUME NEW a \in Attempts, GrantLease(a) PROVE Timed'
    BY <1>4 DEF GrantLease, SendPut
  <1>5. ASSUME NEW a \in Attempts, LoadCommit(a) PROVE Timed'
    BY <1>5 DEF LoadCommit, SendPut, Return, Committable
  <1>6. ASSUME NEW a \in Attempts, LoadRelease(a) PROVE Timed'
    BY <1>6 DEF LoadRelease, SendPut, Return
  <1>7. ASSUME NEW a \in Attempts, Execute(a) PROVE Timed'
    BY <1>7 DEF Execute
  <1>8. ASSUME NEW a \in Attempts, PutWon(a) PROVE Timed'
    BY <1>8 DEF PutWon
  <1>9. ASSUME NEW a \in Attempts, PutMissed(a) PROVE Timed'
    BY <1>9 DEF PutMissed
  <1>10. ASSUME NEW a \in Attempts, Unavailable(a) \/ GatewayDies(a) PROVE Timed'
    BY <1>10 DEF Unavailable, GatewayDies
  <1>11. CASE LeaseExpires
    BY <1>11 DEF LeaseExpires
  <1>12. CASE Tick
    BY <1>12 DEF Tick
  <1>13. CASE UNCHANGED consumeVars
    BY <1>13 DEF consumeVars
  <1> QED
    BY <1>1, <1>2, <1>3, <1>4, <1>5, <1>6, <1>7, <1>8, <1>9, <1>10, <1>11, <1>12, <1>13
       DEF ConsumeNext, Step, CommitCall, ReleaseCall

(* Every reachable state is well typed; no call makes more compare-and-put *)
(* attempts than max_cas_attempts or has two puts on their way.            *)
THEOREM TypeCorrect == ConsumeSpec => []TypeOK
  <1>1. ConsumeInit => TypeOK /\ Timed
    BY InitTypeOK, InitTimed
  <1>2. TypeOK /\ Timed /\ [ConsumeNext]_consumeVars => (TypeOK /\ Timed)'
    BY NextTypeOK, NextTimed
  <1> QED
    BY <1>1, <1>2, PTL DEF ConsumeSpec

-----------------------------------------------------------------------------
(* What a put changes, and what etcd makes of it.                          *)

LEMMA ReplacementFields ==
  ASSUME TypeOK, NEW a \in Attempts, NEW r \in Records, NEW ends \in Nat,
         NEW p, p = Replacement(a, r, ends)
  PROVE  /\ p \in Records
         /\ p.rev = r.rev
         /\ op[a] = "reserve" => /\ p.state = "reserved" /\ p.owner = Owner[a]
                                 /\ p.fencing = r.fencing + 1 /\ p.ends = ends
         /\ op[a] # "reserve" => p.owner = r.owner /\ p.fencing = r.fencing /\ p.ends = r.ends
         /\ op[a] = "commit" => p.state = "consumed"
         /\ op[a] = "release" => p.state = r.state
  <1>1. p \in Records
    BY ReplacementType
  <1>2. op[a] \in {"reserve", "commit", "release"}
    BY DEF TypeOK
  <1>3. CASE op[a] = "reserve"
    BY <1>1, <1>3 DEF Replacement
  <1>4. CASE op[a] = "commit"
    BY <1>1, <1>4 DEF Replacement, Records
  <1>5. CASE op[a] = "release"
    BY <1>1, <1>5 DEF Replacement, Records
  <1> QED
    BY <1>2, <1>3, <1>4, <1>5

LEMMA ExecuteEffect ==
  ASSUME TypeOK, NEW a \in Attempts, Execute(a)
  PROVE  /\ put' = [put EXCEPT ![a] = {}]
         /\ UNCHANGED <<clock, pc, op, now, tries, seen, lease, fencing, admitted>>
         /\ \/ /\ UNCHANGED <<record, revision>>
               /\ reply' = [reply EXCEPT ![a] = "missed"]
            \/ \E p \in put[a] :
                  /\ p.rev = record.rev
                  /\ revision' = revision + 1 /\ record'.rev = revision + 1
                  /\ record'.state = p.state /\ record'.owner = p.owner
                  /\ record'.fencing = p.fencing /\ record'.ends = p.ends
                  /\ reply' = [reply EXCEPT ![a] = "won"]
  <1>1. PICK p \in put[a] :
          IF PutApplies(p)
            THEN /\ revision' = revision + 1
                 /\ record' = [p EXCEPT !.rev = revision + 1]
                 /\ reply' = [reply EXCEPT ![a] = "won"]
            ELSE /\ reply' = [reply EXCEPT ![a] = "missed"]
                 /\ UNCHANGED etcd
    BY DEF Execute
  <1>2. p \in Records
    BY DEF TypeOK
  <1>3. CASE PutApplies(p)
    BY <1>1, <1>2, <1>3 DEF Execute, PutApplies, Records, attempt
  <1>4. CASE ~PutApplies(p)
    BY <1>1, <1>4 DEF Execute, etcd, attempt
  <1> QED
    BY <1>3, <1>4

LEMMA LoadReserveEffect ==
  ASSUME TypeOK, Timed, NEW a \in Attempts, LoadReserve(a)
  PROVE  /\ pc[a] = "load" /\ op[a] = "reserve"
         /\ seen' = [seen EXCEPT ![a] = record]
         /\ UNCHANGED <<clock, record, revision, op, now, tries, lease, reply, admitted>>
         /\ \/ /\ pc' = [pc EXCEPT ![a] = "done"]
               /\ fencing' = [fencing EXCEPT ![a] = 0]
               /\ UNCHANGED put
            \/ /\ record.state = "reserved" /\ record.owner = Owner[a]
               /\ pc' = [pc EXCEPT ![a] = "held"]
               /\ fencing' = [fencing EXCEPT ![a] = record.fencing]
               /\ UNCHANGED put
            \/ /\ record.state # "consumed"
               /\ pc' = [pc EXCEPT ![a] = "grant"]
               /\ UNCHANGED <<put, fencing>>
            \/ \E q \in Records :
                  /\ record.state # "consumed" /\ lease[a] # 0
                  /\ q.rev = record.rev /\ q.state = "reserved" /\ q.owner = Owner[a]
                  /\ q.fencing = record.fencing + 1 /\ q.ends = lease[a]
                  /\ pc' = [pc EXCEPT ![a] = "wait"]
                  /\ put' = [put EXCEPT ![a] = {q}]
                  /\ UNCHANGED fencing
  <1>1. record \in Records /\ lease[a] \in Nat
    BY DEF TypeOK
  <1>2. ~Taken(a, record) => record.state # "consumed"
    BY DEF LoadReserve, Timed, Calling, Taken
  <1> DEFINE q == Replacement(a, record, lease[a])
  <1>3. op[a] = "reserve" =>
          /\ q \in Records /\ q.rev = record.rev /\ q.state = "reserved" /\ q.owner = Owner[a]
          /\ q.fencing = record.fencing + 1 /\ q.ends = lease[a]
    BY <1>1, ReplacementFields
  <1>4. SendPut(a, record, lease[a]) =>
          /\ pc' = [pc EXCEPT ![a] = "wait"]
          /\ put' = [put EXCEPT ![a] = {q}]
          /\ UNCHANGED fencing
    BY DEF SendPut
  <1> HIDE DEF q
  <1>5. CASE SendPut(a, record, lease[a]) /\ lease[a] # 0 /\ ~Taken(a, record) /\ UNCHANGED lease
    BY <1>2, <1>3, <1>4, <1>5 DEF LoadReserve, etcd
  <1>6. CASE /\ ~Taken(a, record)
             /\ pc' = [pc EXCEPT ![a] = "grant"]
             /\ UNCHANGED <<put, lease, fencing>>
    BY <1>2, <1>6 DEF LoadReserve, etcd
  <1>7. CASE Return(a, "done", 0)
    BY <1>7 DEF LoadReserve, Return, etcd
  <1>8. CASE Busy(a, record) /\ record.owner = Owner[a] /\ Return(a, "held", record.fencing)
    BY <1>8 DEF LoadReserve, Return, Busy, etcd
  <1> QED
    BY <1>5, <1>6, <1>7, <1>8 DEF LoadReserve

LEMMA GrantLeaseEffect ==
  ASSUME TypeOK, Timed, NEW a \in Attempts, GrantLease(a)
  PROVE  /\ pc[a] = "grant" /\ op[a] = "reserve"
         /\ UNCHANGED <<clock, record, revision, op, now, tries, seen, fencing, reply, admitted>>
         /\ pc' = [pc EXCEPT ![a] = "wait"]
         /\ \E q \in Records :
               /\ q.rev = seen[a].rev /\ q.state = "reserved" /\ q.owner = Owner[a]
               /\ q.fencing = seen[a].fencing + 1
               /\ q.ends = clock + (Until - now[a]) + RetentionSlack
               /\ put' = [put EXCEPT ![a] = {q}]
               /\ lease' = [lease EXCEPT ![a] = q.ends]
  <1> DEFINE e == clock + (Until - now[a]) + RetentionSlack
             q == Replacement(a, seen[a], e)
  <1>1. e \in Nat
    BY AdmissionAssumption DEF GrantLease, Timed, TypeOK, Calling
  <1>2. pc[a] = "grant" /\ op[a] = "reserve" /\ seen[a] \in Records
    BY DEF GrantLease, Timed, TypeOK
  <1>3. /\ lease' = [lease EXCEPT ![a] = e]
        /\ put' = [put EXCEPT ![a] = {q}]
        /\ pc' = [pc EXCEPT ![a] = "wait"]
        /\ UNCHANGED <<clock, record, revision, op, now, tries, seen, fencing, reply, admitted>>
    BY DEF GrantLease, SendPut, etcd
  <1> HIDE DEF e
  <1>4. /\ q \in Records /\ q.rev = seen[a].rev /\ q.state = "reserved" /\ q.owner = Owner[a]
        /\ q.fencing = seen[a].fencing + 1 /\ q.ends = e
    BY <1>1, <1>2, ReplacementFields
  <1> HIDE DEF q
  <1> QED
    BY <1>2, <1>3, <1>4 DEF e

LEMMA LoadCommitEffect ==
  ASSUME TypeOK, NEW a \in Attempts, LoadCommit(a)
  PROVE  /\ pc[a] = "load" /\ op[a] = "commit"
         /\ seen' = [seen EXCEPT ![a] = record]
         /\ UNCHANGED <<clock, record, revision, op, now, tries, lease, fencing, reply>>
         /\ \/ /\ pc' = [pc EXCEPT ![a] = "done"]
               /\ UNCHANGED put
               /\ \/ UNCHANGED admitted
                  \/ /\ admitted' = admitted \cup {a}
                     /\ record.state = "consumed" /\ record.fencing = fencing[a]
            \/ \E q \in Records :
                  /\ record.state = "reserved" /\ Matches(a, record) /\ now[a] <= Until
                  /\ q.rev = record.rev /\ q.state = "consumed" /\ q.owner = record.owner
                  /\ q.fencing = record.fencing /\ q.ends = record.ends
                  /\ pc' = [pc EXCEPT ![a] = "wait"]
                  /\ put' = [put EXCEPT ![a] = {q}]
                  /\ UNCHANGED admitted
  <1> DEFINE q == Replacement(a, record, record.ends)
  <1>1. record \in Records /\ record.ends \in Nat
    BY DEF TypeOK, Records
  <1>2. op[a] = "commit" =>
          /\ q \in Records /\ q.rev = record.rev /\ q.state = "consumed" /\ q.owner = record.owner
          /\ q.fencing = record.fencing /\ q.ends = record.ends
    BY <1>1, ReplacementFields
  <1>3. SendPut(a, record, record.ends) =>
          /\ pc' = [pc EXCEPT ![a] = "wait"]
          /\ put' = [put EXCEPT ![a] = {q}]
          /\ UNCHANGED fencing
    BY DEF SendPut
  <1> HIDE DEF q
  <1>4. CASE Committable(a, record)
    BY <1>2, <1>3, <1>4 DEF LoadCommit, Committable, etcd
  <1>5. CASE ~Committable(a, record)
    <2>1. fencing' = fencing
      BY <1>5 DEF LoadCommit, Return, TypeOK
    <2> QED
      BY <1>5, <2>1 DEF LoadCommit, Return, etcd
  <1> QED
    BY <1>4, <1>5

LEMMA LoadReleaseEffect ==
  ASSUME TypeOK, NEW a \in Attempts, LoadRelease(a)
  PROVE  /\ pc[a] = "load" /\ op[a] = "release"
         /\ seen' = [seen EXCEPT ![a] = record]
         /\ UNCHANGED <<clock, record, revision, op, now, tries, lease, fencing, reply, admitted>>
         /\ \/ /\ pc' = [pc EXCEPT ![a] = "done"]
               /\ UNCHANGED put
            \/ \E q \in Records :
                  /\ record.state = "reserved"
                  /\ q.rev = record.rev /\ q.state = "reserved" /\ q.owner = record.owner
                  /\ q.fencing = record.fencing /\ q.ends = record.ends
                  /\ pc' = [pc EXCEPT ![a] = "wait"]
                  /\ put' = [put EXCEPT ![a] = {q}]
  <1> DEFINE q == Replacement(a, record, record.ends)
  <1>1. record \in Records /\ record.ends \in Nat
    BY DEF TypeOK, Records
  <1>2. op[a] = "release" =>
          /\ q \in Records /\ q.rev = record.rev /\ q.state = record.state /\ q.owner = record.owner
          /\ q.fencing = record.fencing /\ q.ends = record.ends
    BY <1>1, ReplacementFields
  <1>3. SendPut(a, record, record.ends) =>
          /\ pc' = [pc EXCEPT ![a] = "wait"]
          /\ put' = [put EXCEPT ![a] = {q}]
          /\ UNCHANGED fencing
    BY DEF SendPut
  <1> HIDE DEF q
  <1>4. CASE Releasable(a, record)
    BY <1>2, <1>3, <1>4 DEF LoadRelease, Releasable, etcd
  <1>5. CASE ~Releasable(a, record)
    <2>1. fencing' = fencing
      BY <1>5 DEF LoadRelease, Return, TypeOK
    <2> QED
      BY <1>5, <2>1 DEF LoadRelease, Return, etcd
  <1> QED
    BY <1>4, <1>5

-----------------------------------------------------------------------------
(* A consumed record stays consumed.                                       *)

(* A put or a loaded record that would still pass its compare was not made *)
(* from a consumed record.                                                 *)
Revisions ==
    /\ record.rev <= revision
    /\ \A a \in Attempts : \A p \in put[a] :
         p.rev <= revision /\ (p.rev = record.rev => record.state # "consumed")
    /\ \A a \in Attempts : pc[a] = "grant" =>
         /\ seen[a].rev <= revision
         /\ seen[a].rev = record.rev => record.state # "consumed"

LEMMA NextRevisions == TypeOK /\ Timed /\ Revisions /\ [ConsumeNext]_consumeVars => Revisions'
  <1> SUFFICES ASSUME TypeOK, Timed, Revisions, [ConsumeNext]_consumeVars PROVE Revisions'
    OBVIOUS
  <1> USE DEF etcd, attempt, wire
  <1>0. /\ record \in Records /\ revision \in Nat /\ record.ends \in Nat /\ record.rev \in Nat
        /\ pc \in [Attempts -> {"idle", "load", "grant", "wait", "held", "done"}]
        /\ put \in [Attempts -> SUBSET Records] /\ seen \in [Attempts -> Records]
        /\ \A a \in Attempts : lease[a] \in Nat /\ seen[a].rev \in Nat
    BY DEF TypeOK, Records
  <1>1. ASSUME NEW a \in Attempts, ReserveCall(a) PROVE Revisions'
    BY <1>0, <1>1 DEF ReserveCall, Revisions
  <1>2. ASSUME NEW a \in Attempts, NEW w \in {"commit", "release"}, SettleCall(a, w) PROVE Revisions'
    BY <1>0, <1>2 DEF SettleCall, Revisions
  <1>3. ASSUME NEW a \in Attempts, LoadReserve(a) PROVE Revisions'
    BY <1>0, <1>3, LoadReserveEffect DEF Revisions
  <1>4. ASSUME NEW a \in Attempts, GrantLease(a) PROVE Revisions'
    BY <1>0, <1>4, GrantLeaseEffect DEF Revisions
  <1>5. ASSUME NEW a \in Attempts, LoadCommit(a) PROVE Revisions'
    BY <1>0, <1>5, LoadCommitEffect DEF Revisions
  <1>6. ASSUME NEW a \in Attempts, LoadRelease(a) PROVE Revisions'
    BY <1>0, <1>6, LoadReleaseEffect DEF Revisions
  <1>7. ASSUME NEW a \in Attempts, Execute(a) PROVE Revisions'
    <2>1. \A b \in Attempts : \A p \in put[b] : p.rev \in Nat
      BY DEF TypeOK, Records
    <2>2. put' = [put EXCEPT ![a] = {}] /\ UNCHANGED <<pc, seen>>
      BY <1>7, ExecuteEffect
    <2>3. CASE UNCHANGED <<record, revision>>
      BY <1>0, <2>2, <2>3 DEF Revisions
    <2>4. CASE revision' = revision + 1 /\ record'.rev = revision + 1
      <3>1. \A b \in Attempts : \A p \in put'[b] : p \in put[b]
        BY <1>0, <2>2
      <3>2. \A b \in Attempts : \A p \in put[b] : p.rev <= revision
        BY DEF Revisions
      <3> QED
        BY <1>0, <2>1, <2>2, <2>4, <3>1, <3>2 DEF Revisions
    <2>5. \/ UNCHANGED <<record, revision>>
          \/ revision' = revision + 1 /\ record'.rev = revision + 1
      BY <1>7, ExecuteEffect
    <2> QED
      BY <2>3, <2>4, <2>5
  <1>8. ASSUME NEW a \in Attempts, PutWon(a) PROVE Revisions'
    BY <1>0, <1>8 DEF PutWon, Revisions
  <1>9. ASSUME NEW a \in Attempts, PutMissed(a) PROVE Revisions'
    BY <1>0, <1>9 DEF PutMissed, Revisions
  <1>10. ASSUME NEW a \in Attempts, Unavailable(a) \/ GatewayDies(a) PROVE Revisions'
    BY <1>0, <1>10 DEF Unavailable, GatewayDies, Revisions
  <1>11. CASE LeaseExpires
    BY <1>0, <1>11 DEF LeaseExpires, Revisions, NoRecord
  <1>12. CASE Tick
    BY <1>12 DEF Tick, Revisions
  <1>13. CASE UNCHANGED consumeVars
    BY <1>13 DEF consumeVars, Revisions
  <1> QED
    BY <1>1, <1>2, <1>3, <1>4, <1>5, <1>6, <1>7, <1>8, <1>9, <1>10, <1>11, <1>12, <1>13
       DEF ConsumeNext, Step, CommitCall, ReleaseCall

LEMMA InitRevisions == ConsumeInit => Revisions
  BY DEF ConsumeInit, Revisions, NoRecord

(* No step reopens a consumed record: whatever was loaded before, and      *)
(* however late its put arrives, the compare on mod_revision fails.        *)
THEOREM ConsumedStays == ConsumeSpec => ConsumedForGood
  <1> DEFINE I == TypeOK /\ Timed /\ Revisions
  <1>1. ConsumeInit => I
    BY InitTypeOK, InitTimed, InitRevisions
  <1>2. I /\ [ConsumeNext]_consumeVars => I'
    BY NextTypeOK, NextTimed, NextRevisions
  <1>3. I /\ [ConsumeNext]_consumeVars =>
           [record.state = "consumed" => record'.state \in {"consumed", "none"}]_consumeVars
    <2> SUFFICES ASSUME I, ConsumeNext, record.state = "consumed"
                 PROVE  record'.state \in {"consumed", "none"}
      OBVIOUS
    <2>1. ASSUME NEW a \in Attempts, Execute(a) PROVE record' = record
      BY <2>1, ExecuteEffect DEF Revisions
    <2>2. ASSUME NEW a \in Attempts, Step(a) PROVE record' = record
      BY <2>1, <2>2 DEF Step, ReserveCall, CommitCall, ReleaseCall, SettleCall, LoadReserve,
         GrantLease, LoadCommit, LoadRelease, PutWon, PutMissed, Unavailable, GatewayDies, etcd
    <2>3. CASE LeaseExpires
      BY <2>3 DEF LeaseExpires, NoRecord
    <2>4. CASE Tick
      BY <2>4 DEF Tick, etcd
    <2> QED
      BY <2>2, <2>3, <2>4 DEF ConsumeNext
  <1> QED
    BY <1>1, <1>2, <1>3, PTL DEF ConsumeSpec, ConsumedForGood

-----------------------------------------------------------------------------
(* At most one admission.                                                  *)

(* No gateway verifies the credentials any more. *)
Over == clock > Until + MaxStall

(* The lease of the record, of a put and of a call outlasts the last use   *)
(* of the credentials.                                                     *)
Retained ==
    /\ record = NoRecord \/ record.ends > Until + MaxStall
    /\ \A a \in Attempts : lease[a] = 0 \/ lease[a] > Until + MaxStall
    /\ \A a \in Attempts : \A p \in put[a] : p.ends > Until + MaxStall

(* What the record, the puts on their way and the loaded records are made  *)
(* of.                                                                     *)
RecordOK ==
    record = NoRecord \/ (record.state # "none" /\ record.fencing > 0 /\ record.rev > 0)

PutOK(a, p) ==
    /\ p.state # "none" /\ p.fencing > 0
    /\ p.rev = 0 => p.fencing = 1 /\ p.state = "reserved"
    /\ p.rev = record.rev =>
         \/ p.fencing = record.fencing + 1 /\ p.state = "reserved"
         \/ p.fencing = record.fencing /\ p.owner = record.owner /\ record.state = "reserved"
    /\ pc[a] = "wait" /\ op[a] = "reserve" =>
         p.state = "reserved" /\ p.fencing = seen[a].fencing + 1 /\ p.owner = Owner[a]
    /\ pc[a] = "wait" /\ op[a] = "commit" =>
         p.state = "consumed" /\ p.fencing = fencing[a] /\ p.owner = Owner[a]

SeenOK(a) ==
    /\ seen[a].rev = 0 => seen[a].fencing = 0
    /\ seen[a].rev = record.rev => seen[a].fencing = record.fencing

Puts ==
    /\ RecordOK
    /\ \A a \in Attempts : \A p \in put[a] : PutOK(a, p)
    /\ \A a \in Attempts : pc[a] = "grant" => SeenOK(a)

(* A call has a put or an answer only while it waits. *)
Calls ==
    \A a \in Attempts :
        /\ pc[a] \notin {"wait", "done"} => put[a] = {} /\ reply[a] = "none"
        /\ pc[a] = "wait" /\ reply[a] # "none" => put[a] = {}
        /\ pc[a] = "held" \/ op[a] # "reserve" => fencing[a] > 0

(* The record still descends from the first reservation, without having    *)
(* lapsed with its lease in between.                                       *)
Live ==
    \/ ~Over
    \/ record.state = "consumed"
    \/ \E a \in Attempts : \E p \in put[a] : p.state = "consumed" /\ p.rev = record.rev

(* The newest fencing is in the record, with the owner it was given to. *)
Backs(a, f) == f <= record.fencing /\ (f > 0 /\ f = record.fencing => Owner[a] = record.owner)

Fenced ==
    Live => \A a \in Attempts :
              /\ Backs(a, fencing[a])
              /\ pc[a] = "wait" /\ op[a] = "reserve" /\ reply[a] = "won"
                   => Backs(a, seen[a].fencing + 1)

(* The record is consumed on behalf of a. *)
ConsumedBy(a) ==
    record.state = "consumed" /\ record.fencing = fencing[a] /\ record.owner = Owner[a]

Won ==
    \A a \in Attempts :
        pc[a] = "wait" /\ op[a] = "commit" /\ reply[a] = "won" => ConsumedBy(a)

(* One attempt at a time under one owner name. *)
Solo ==
    \A a, b \in Attempts :
        a # b /\ Owner[a] = Owner[b] => pc[a] \in {"idle", "done"} \/ pc[b] \in {"idle", "done"}

(* After an admission the record is consumed for it, and whoever comes     *)
(* back under its owner name has not got past the load of its reserve.     *)
Admitted ==
    \A a \in admitted :
        /\ pc[a] = "done" /\ fencing[a] > 0
        /\ Live => ConsumedBy(a)
        /\ \A b \in Attempts :
             b # a /\ Owner[b] = Owner[a] =>
                pc[b] \in {"idle", "done"} \/ (pc[b] = "load" /\ op[b] = "reserve")

OnceInv ==
    /\ TypeOK /\ Timed /\ Revisions /\ Retained
    /\ Puts /\ Calls /\ Fenced /\ Won /\ Solo /\ Admitted /\ AtMostOnce

LEMMA NextCalls == TypeOK /\ Timed /\ Puts /\ Calls /\ [ConsumeNext]_consumeVars => Calls'
  <1> SUFFICES ASSUME TypeOK, Timed, Puts, Calls, [ConsumeNext]_consumeVars PROVE Calls'
    OBVIOUS
  <1> USE DEF etcd, attempt, wire
  <1>0. /\ record \in Records /\ record.ends \in Nat /\ record.rev \in Nat /\ record.fencing \in Nat
        /\ pc \in [Attempts -> {"idle", "load", "grant", "wait", "held", "done"}]
        /\ op \in [Attempts -> {"reserve", "commit", "release"}]
        /\ put \in [Attempts -> SUBSET Records] /\ seen \in [Attempts -> Records]
        /\ lease \in [Attempts -> Nat] /\ fencing \in [Attempts -> Nat]
        /\ reply \in [Attempts -> {"none", "won", "missed"}]
        /\ \A x \in Attempts : /\ seen[x].rev \in Nat /\ seen[x].fencing \in Nat
                               /\ \A p \in put[x] : p.rev \in Nat /\ p.fencing \in Nat /\ p.ends \in Nat
    BY DEF TypeOK, Records
  <1>1. ASSUME NEW a \in Attempts, ReserveCall(a) PROVE Calls'
    BY <1>0, <1>1 DEF Calls, ReserveCall
  <1>2. ASSUME NEW a \in Attempts, NEW w \in {"commit", "release"}, SettleCall(a, w) PROVE Calls'
    BY <1>0, <1>2 DEF Calls, SettleCall
  <1>3. ASSUME NEW a \in Attempts, LoadReserve(a) PROVE Calls'
    BY <1>0, <1>3, LoadReserveEffect DEF Calls, Puts, RecordOK, NoRecord
  <1>4. ASSUME NEW a \in Attempts, GrantLease(a) PROVE Calls'
    BY <1>0, <1>4, GrantLeaseEffect DEF Calls, Timed
  <1>5. ASSUME NEW a \in Attempts, LoadCommit(a) PROVE Calls'
    BY <1>0, <1>5, LoadCommitEffect DEF Calls
  <1>6. ASSUME NEW a \in Attempts, LoadRelease(a) PROVE Calls'
    BY <1>0, <1>6, LoadReleaseEffect DEF Calls
  <1>7. ASSUME NEW a \in Attempts, Execute(a) PROVE Calls'
    <2>1. put' = [put EXCEPT ![a] = {}] /\ UNCHANGED <<pc, op, fencing>>
      BY <1>7, ExecuteEffect
    <2>2. put[a] # {}
      BY <1>7 DEF Execute
    <2>3. reply' = [reply EXCEPT ![a] = "missed"] \/ reply' = [reply EXCEPT ![a] = "won"]
      BY <1>7, ExecuteEffect
    <2> QED
      BY <1>0, <2>1, <2>2, <2>3 DEF Calls
  <1>8. ASSUME NEW a \in Attempts, PutWon(a) PROVE Calls'
    BY <1>0, <1>8 DEF Calls, PutWon
  <1>9. ASSUME NEW a \in Attempts, PutMissed(a) PROVE Calls'
    BY <1>0, <1>9 DEF Calls, PutMissed
  <1>10. ASSUME NEW a \in Attempts, Unavailable(a) \/ GatewayDies(a) PROVE Calls'
    BY <1>0, <1>10 DEF Calls, Unavailable, GatewayDies
  <1>11. CASE LeaseExpires
    BY <1>0, <1>11 DEF Calls, LeaseExpires, NoRecord
  <1>12. CASE Tick
    BY <1>0, <1>12 DEF Calls, Tick
  <1>13. CASE UNCHANGED consumeVars
    BY <1>0, <1>13 DEF Calls, consumeVars
  <1> QED
    BY <1>1, <1>2, <1>3, <1>4, <1>5, <1>6, <1>7, <1>8, <1>9, <1>10, <1>11, <1>12, <1>13
       DEF ConsumeNext, Step, CommitCall, ReleaseCall

LEMMA NextSolo == TypeOK /\ Timed /\ Solo /\ [ConsumeNext]_consumeVars => Solo'
  <1> SUFFICES ASSUME TypeOK, Timed, Solo, [ConsumeNext]_consumeVars PROVE Solo'
    OBVIOUS
  <1> USE DEF etcd, attempt, wire
  <1>0. /\ record \in Records /\ record.ends \in Nat /\ record.rev \in Nat /\ record.fencing \in Nat
        /\ pc \in [Attempts -> {"idle", "load", "grant", "wait", "held", "done"}]
        /\ op \in [Attempts -> {"reserve", "commit", "release"}]
        /\ put \in [Attempts -> SUBSET Records] /\ seen \in [Attempts -> Records]
        /\ lease \in [Attempts -> Nat] /\ fencing \in [Attempts -> Nat]
        /\ reply \in [Attempts -> {"none", "won", "missed"}]
        /\ \A x \in Attempts : /\ seen[x].rev \in Nat /\ seen[x].fencing \in Nat
                               /\ \A p \in put[x] : p.rev \in Nat /\ p.fencing \in Nat /\ p.ends \in Nat
    BY DEF TypeOK, Records
  <1>1. ASSUME NEW a \in Attempts, ReserveCall(a) PROVE Solo'
    BY <1>0, <1>1 DEF Solo, ReserveCall
  <1>2. ASSUME NEW a \in Attempts, NEW w \in {"commit", "release"}, SettleCall(a, w) PROVE Solo'
    BY <1>0, <1>2 DEF Solo, SettleCall
  <1>3. ASSUME NEW a \in Attempts, LoadReserve(a) PROVE Solo'
    BY <1>0, <1>3, LoadReserveEffect DEF Solo
  <1>4. ASSUME NEW a \in Attempts, GrantLease(a) PROVE Solo'
    BY <1>0, <1>4, GrantLeaseEffect DEF Solo
  <1>5. ASSUME NEW a \in Attempts, LoadCommit(a) PROVE Solo'
    BY <1>0, <1>5, LoadCommitEffect DEF Solo
  <1>6. ASSUME NEW a \in Attempts, LoadRelease(a) PROVE Solo'
    BY <1>0, <1>6, LoadReleaseEffect DEF Solo
  <1>7. ASSUME NEW a \in Attempts, Execute(a) PROVE Solo'
    BY <1>0, <1>7, ExecuteEffect DEF Solo
  <1>8. ASSUME NEW a \in Attempts, PutWon(a) PROVE Solo'
    BY <1>0, <1>8 DEF Solo, PutWon
  <1>9. ASSUME NEW a \in Attempts, PutMissed(a) PROVE Solo'
    BY <1>0, <1>9 DEF Solo, PutMissed
  <1>10. ASSUME NEW a \in Attempts, Unavailable(a) \/ GatewayDies(a) PROVE Solo'
    BY <1>0, <1>10 DEF Solo, Unavailable, GatewayDies
  <1>11. CASE LeaseExpires
    BY <1>0, <1>11 DEF Solo, LeaseExpires, NoRecord
  <1>12. CASE Tick
    BY <1>0, <1>12 DEF Solo, Tick
  <1>13. CASE UNCHANGED consumeVars
    BY <1>0, <1>13 DEF Solo, consumeVars
  <1> QED
    BY <1>1, <1>2, <1>3, <1>4, <1>5, <1>6, <1>7, <1>8, <1>9, <1>10, <1>11, <1>12, <1>13
       DEF ConsumeNext, Step, CommitCall, ReleaseCall

LEMMA NextRetained == MaxSkew + MaxStall < RetentionSlack /\ TypeOK /\ Timed /\ Retained /\ [ConsumeNext]_consumeVars => Retained'
  <1> SUFFICES ASSUME MaxSkew + MaxStall < RetentionSlack, TypeOK, Timed, Retained, [ConsumeNext]_consumeVars PROVE Retained'
    OBVIOUS
  <1> USE DEF etcd, attempt, wire
  <1>0. /\ record \in Records /\ record.ends \in Nat /\ record.rev \in Nat /\ record.fencing \in Nat
        /\ pc \in [Attempts -> {"idle", "load", "grant", "wait", "held", "done"}]
        /\ op \in [Attempts -> {"reserve", "commit", "release"}]
        /\ put \in [Attempts -> SUBSET Records] /\ seen \in [Attempts -> Records]
        /\ lease \in [Attempts -> Nat] /\ fencing \in [Attempts -> Nat]
        /\ reply \in [Attempts -> {"none", "won", "missed"}]
        /\ \A x \in Attempts : /\ seen[x].rev \in Nat /\ seen[x].fencing \in Nat
                               /\ \A p \in put[x] : p.rev \in Nat /\ p.fencing \in Nat /\ p.ends \in Nat
    BY DEF TypeOK, Records
  <1>1. ASSUME NEW a \in Attempts, ReserveCall(a) PROVE Retained'
    BY <1>0, <1>1 DEF Retained, ReserveCall
  <1>2. ASSUME NEW a \in Attempts, NEW w \in {"commit", "release"}, SettleCall(a, w) PROVE Retained'
    BY <1>0, <1>2 DEF Retained, SettleCall
  <1>3. ASSUME NEW a \in Attempts, LoadReserve(a) PROVE Retained'
    BY <1>0, <1>3, LoadReserveEffect DEF Retained
  <1>4. ASSUME NEW a \in Attempts, GrantLease(a) PROVE Retained'
    <2>1. clock + (Until - now[a]) + RetentionSlack > Until + MaxStall
      BY AdmissionAssumption DEF TypeOK, Timed, Wall
    <2> QED
      BY <1>0, <1>4, <2>1, GrantLeaseEffect DEF Retained
  <1>5. ASSUME NEW a \in Attempts, LoadCommit(a) PROVE Retained'
    BY <1>0, <1>5, LoadCommitEffect DEF Retained, NoRecord
  <1>6. ASSUME NEW a \in Attempts, LoadRelease(a) PROVE Retained'
    BY <1>0, <1>6, LoadReleaseEffect DEF Retained, NoRecord
  <1>7. ASSUME NEW a \in Attempts, Execute(a) PROVE Retained'
    BY <1>0, <1>7, ExecuteEffect DEF Retained
  <1>8. ASSUME NEW a \in Attempts, PutWon(a) PROVE Retained'
    BY <1>0, <1>8 DEF Retained, PutWon
  <1>9. ASSUME NEW a \in Attempts, PutMissed(a) PROVE Retained'
    BY <1>0, <1>9 DEF Retained, PutMissed
  <1>10. ASSUME NEW a \in Attempts, Unavailable(a) \/ GatewayDies(a) PROVE Retained'
    BY <1>0, <1>10 DEF Retained, Unavailable, GatewayDies
  <1>11. CASE LeaseExpires
    BY <1>0, <1>11 DEF Retained, LeaseExpires, NoRecord
  <1>12. CASE Tick
    BY <1>0, <1>12 DEF Retained, Tick
  <1>13. CASE UNCHANGED consumeVars
    BY <1>0, <1>13 DEF Retained, consumeVars
  <1> QED
    BY <1>1, <1>2, <1>3, <1>4, <1>5, <1>6, <1>7, <1>8, <1>9, <1>10, <1>11, <1>12, <1>13
       DEF ConsumeNext, Step, CommitCall, ReleaseCall

LEMMA NextPuts == TypeOK /\ Timed /\ Revisions /\ Calls /\ Puts /\ [ConsumeNext]_consumeVars => Puts'
  <1> SUFFICES ASSUME TypeOK, Timed, Revisions, Calls, Puts, [ConsumeNext]_consumeVars PROVE Puts'
    OBVIOUS
  <1> USE DEF etcd, attempt, wire
  <1>0. /\ record \in Records /\ record.ends \in Nat /\ record.rev \in Nat /\ record.fencing \in Nat
        /\ pc \in [Attempts -> {"idle", "load", "grant", "wait", "held", "done"}]
        /\ op \in [Attempts -> {"reserve", "commit", "release"}]
        /\ put \in [Attempts -> SUBSET Records] /\ seen \in [Attempts -> Records]
        /\ lease \in [Attempts -> Nat] /\ fencing \in [Attempts -> Nat]
        /\ reply \in [Attempts -> {"none", "won", "missed"}]
        /\ \A x \in Attempts : /\ seen[x].rev \in Nat /\ seen[x].fencing \in Nat
                               /\ \A p \in put[x] : p.rev \in Nat /\ p.fencing \in Nat /\ p.ends \in Nat
    BY DEF TypeOK, Records
  <1>1. ASSUME NEW a \in Attempts, ReserveCall(a) PROVE Puts'
    BY <1>0, <1>1 DEF Puts, RecordOK, PutOK, SeenOK, ReserveCall
  <1>2. ASSUME NEW a \in Attempts, NEW w \in {"commit", "release"}, SettleCall(a, w) PROVE Puts'
    BY <1>0, <1>2 DEF Puts, RecordOK, PutOK, SeenOK, SettleCall
  <1>3. ASSUME NEW a \in Attempts, LoadReserve(a) PROVE Puts'
    <2>0. put[a] = {} /\ pc[a] \in {"load", "grant"} /\ UNCHANGED record
      BY <1>0, <1>3, LoadReserveEffect DEF Calls
    <2>1. RecordOK'
      BY <2>0 DEF Puts, RecordOK
    <2>2. ASSUME NEW b \in Attempts, NEW p \in put'[b] PROVE PutOK(b, p)'
      <3>1. CASE b # a
        <4>1. p \in put[b] /\ pc'[b] = pc[b] /\ op'[b] = op[b] /\ seen'[b] = seen[b] /\ fencing'[b] = fencing[b]
          BY <1>0, <1>3, <2>2, <3>1, LoadReserveEffect
        <4> QED
          BY <2>0, <4>1 DEF Puts, PutOK
      <3>2. CASE b = a
        BY <1>0, <1>3, <2>0, <2>2, <3>2, LoadReserveEffect DEF Puts, PutOK, RecordOK, NoRecord, SeenOK, Matches
      <3> QED
        BY <3>1, <3>2
    <2>3. ASSUME NEW b \in Attempts, pc'[b] = "grant" PROVE SeenOK(b)'
      BY <1>0, <1>3, <2>0, <2>3, LoadReserveEffect DEF Puts, SeenOK, RecordOK, NoRecord
    <2> QED
      BY <2>1, <2>2, <2>3 DEF Puts
  <1>4. ASSUME NEW a \in Attempts, GrantLease(a) PROVE Puts'
    <2>0. put[a] = {} /\ pc[a] \in {"load", "grant"} /\ UNCHANGED record
      BY <1>0, <1>4, GrantLeaseEffect DEF Calls
    <2>1. RecordOK'
      BY <2>0 DEF Puts, RecordOK
    <2>2. ASSUME NEW b \in Attempts, NEW p \in put'[b] PROVE PutOK(b, p)'
      <3>1. CASE b # a
        <4>1. p \in put[b] /\ pc'[b] = pc[b] /\ op'[b] = op[b] /\ seen'[b] = seen[b] /\ fencing'[b] = fencing[b]
          BY <1>0, <1>4, <2>2, <3>1, GrantLeaseEffect
        <4> QED
          BY <2>0, <4>1 DEF Puts, PutOK
      <3>2. CASE b = a
        BY <1>0, <1>4, <2>0, <2>2, <3>2, GrantLeaseEffect DEF Puts, PutOK, RecordOK, NoRecord, SeenOK, Matches
      <3> QED
        BY <3>1, <3>2
    <2>3. ASSUME NEW b \in Attempts, pc'[b] = "grant" PROVE SeenOK(b)'
      BY <1>0, <1>4, <2>0, <2>3, GrantLeaseEffect DEF Puts, SeenOK, RecordOK, NoRecord
    <2> QED
      BY <2>1, <2>2, <2>3 DEF Puts
  <1>5. ASSUME NEW a \in Attempts, LoadCommit(a) PROVE Puts'
    <2>0. put[a] = {} /\ pc[a] \in {"load", "grant"} /\ UNCHANGED record
      BY <1>0, <1>5, LoadCommitEffect DEF Calls
    <2>1. RecordOK'
      BY <2>0 DEF Puts, RecordOK
    <2>2. ASSUME NEW b \in Attempts, NEW p \in put'[b] PROVE PutOK(b, p)'
      <3>1. CASE b # a
        <4>1. p \in put[b] /\ pc'[b] = pc[b] /\ op'[b] = op[b] /\ seen'[b] = seen[b] /\ fencing'[b] = fencing[b]
          BY <1>0, <1>5, <2>2, <3>1, LoadCommitEffect
        <4> QED
          BY <2>0, <4>1 DEF Puts, PutOK
      <3>2. CASE b = a
        BY <1>0, <1>5, <2>0, <2>2, <3>2, LoadCommitEffect DEF Puts, PutOK, RecordOK, NoRecord, SeenOK, Matches
      <3> QED
        BY <3>1, <3>2
    <2>3. ASSUME NEW b \in Attempts, pc'[b] = "grant" PROVE SeenOK(b)'
      BY <1>0, <1>5, <2>0, <2>3, LoadCommitEffect DEF Puts, SeenOK, RecordOK, NoRecord
    <2> QED
      BY <2>1, <2>2, <2>3 DEF Puts
  <1>6. ASSUME NEW a \in Attempts, LoadRelease(a) PROVE Puts'
    <2>0. put[a] = {} /\ pc[a] \in {"load", "grant"} /\ UNCHANGED record
      BY <1>0, <1>6, LoadReleaseEffect DEF Calls
    <2>1. RecordOK'
      BY <2>0 DEF Puts, RecordOK
    <2>2. ASSUME NEW b \in Attempts, NEW p \in put'[b] PROVE PutOK(b, p)'
      <3>1. CASE b # a
        <4>1. p \in put[b] /\ pc'[b] = pc[b] /\ op'[b] = op[b] /\ seen'[b] = seen[b] /\ fencing'[b] = fencing[b]
          BY <1>0, <1>6, <2>2, <3>1, LoadReleaseEffect
        <4> QED
          BY <2>0, <4>1 DEF Puts, PutOK
      <3>2. CASE b = a
        BY <1>0, <1>6, <2>0, <2>2, <3>2, LoadReleaseEffect DEF Puts, PutOK, RecordOK, NoRecord, SeenOK, Matches
      <3> QED
        BY <3>1, <3>2
    <2>3. ASSUME NEW b \in Attempts, pc'[b] = "grant" PROVE SeenOK(b)'
      BY <1>0, <1>6, <2>0, <2>3, LoadReleaseEffect DEF Puts, SeenOK, RecordOK, NoRecord
    <2> QED
      BY <2>1, <2>2, <2>3 DEF Puts
  <1>7. ASSUME NEW a \in Attempts, Execute(a) PROVE Puts'
    <2>0. put' = [put EXCEPT ![a] = {}] /\ UNCHANGED <<pc, op, seen, fencing>>
      BY <1>7, ExecuteEffect
    <2>1. \A b \in Attempts : \A p \in put'[b] : p \in put[b]
      BY <1>0, <2>0
    <2>2. CASE UNCHANGED record
      BY <2>0, <2>1, <2>2 DEF Puts, RecordOK, PutOK, SeenOK
    <2>3. ASSUME NEW q \in put[a], record'.rev = revision + 1, record'.state = q.state,
                 record'.fencing = q.fencing
          PROVE  Puts'
      <3>1. RecordOK'
        BY <1>0, <2>3 DEF Puts, PutOK, RecordOK, TypeOK
      <3>2. ASSUME NEW b \in Attempts, NEW p \in put'[b] PROVE PutOK(b, p)'
        <4>1. p.rev # record'.rev
          BY <1>0, <2>1, <2>3 DEF Revisions, TypeOK
        <4> QED
          BY <2>0, <2>1, <4>1 DEF Puts, PutOK
      <3>3. ASSUME NEW b \in Attempts, pc'[b] = "grant" PROVE SeenOK(b)'
        <4>1. seen[b].rev # record'.rev
          BY <1>0, <2>0, <2>3, <3>3 DEF Revisions, TypeOK
        <4> QED
          BY <2>0, <3>3, <4>1 DEF Puts, SeenOK
      <3> QED
        BY <3>1, <3>2, <3>3 DEF Puts
    <2> QED
      BY <1>7, <2>2, <2>3, ExecuteEffect
  <1>8. ASSUME NEW a \in Attempts, PutWon(a) PROVE Puts'
    BY <1>0, <1>8 DEF Puts, RecordOK, PutOK, SeenOK, PutWon
  <1>9. ASSUME NEW a \in Attempts, PutMissed(a) PROVE Puts'
    BY <1>0, <1>9 DEF Puts, RecordOK, PutOK, SeenOK, PutMissed
  <1>10. ASSUME NEW a \in Attempts, Unavailable(a) \/ GatewayDies(a) PROVE Puts'
    BY <1>0, <1>10 DEF Puts, RecordOK, PutOK, SeenOK, Unavailable, GatewayDies
  <1>11. CASE LeaseExpires
    BY <1>0, <1>11 DEF Puts, RecordOK, PutOK, SeenOK, LeaseExpires, NoRecord
  <1>12. CASE Tick
    BY <1>0, <1>12 DEF Puts, RecordOK, PutOK, SeenOK, Tick
  <1>13. CASE UNCHANGED consumeVars
    BY <1>0, <1>13 DEF Puts, RecordOK, PutOK, SeenOK, consumeVars
  <1> QED
    BY <1>1, <1>2, <1>3, <1>4, <1>5, <1>6, <1>7, <1>8, <1>9, <1>10, <1>11, <1>12, <1>13
       DEF ConsumeNext, Step, CommitCall, ReleaseCall

(* While a reservation is being made, or a commit waits for its answer,    *)
(* the credentials are still in use.                                       *)
LEMMA InUse ==
  ASSUME TypeOK, Timed, NEW a \in Attempts
  PROVE  /\ pc[a] \in {"load", "grant", "wait"} /\ op[a] = "reserve" => ~Over
         /\ pc[a] = "wait" /\ op[a] = "commit" => ~Over
         /\ pc[a] = "load" /\ now[a] <= Until => ~Over
  BY AdmissionAssumption DEF Timed, TypeOK, Calling, Wall, Over

(* The record lapses only when the credentials are out of use, and then no *)
(* late commit can find it again.                                          *)
LEMMA LapseEnds ==
  ASSUME TypeOK, Retained, Puts, LeaseExpires
  PROVE  Over /\ ~Live'
  <1>1. clock \in Nat /\ record.ends \in Nat
    BY DEF TypeOK, Records
  <1>2. Over
    BY <1>1, AdmissionAssumption DEF LeaseExpires, Retained, Over
  <1>3. record' = NoRecord /\ UNCHANGED <<put, clock>>
    BY DEF LeaseExpires, wire
  <1>4. ASSUME NEW a \in Attempts, NEW p \in put[a], p.rev = 0 PROVE p.state # "consumed"
    BY <1>4 DEF Puts, PutOK
  <1> QED
    BY <1>2, <1>3, <1>4 DEF Live, Over, NoRecord

(* A record that has lapsed is never taken for the first one again. *)
LEMMA LiveBefore == TypeOK /\ Timed /\ Revisions /\ Retained /\ Puts /\ [ConsumeNext]_consumeVars /\ Live' => Live
  <1> SUFFICES ASSUME TypeOK, Timed, Revisions, Retained, Puts, [ConsumeNext]_consumeVars, Live' PROVE Live
    OBVIOUS
  <1> USE DEF etcd, attempt, wire
  <1>0. /\ record \in Records /\ record.ends \in Nat /\ record.rev \in Nat /\ record.fencing \in Nat
        /\ pc \in [Attempts -> {"idle", "load", "grant", "wait", "held", "done"}]
        /\ op \in [Attempts -> {"reserve", "commit", "release"}]
        /\ put \in [Attempts -> SUBSET Records] /\ seen \in [Attempts -> Records]
        /\ lease \in [Attempts -> Nat] /\ fencing \in [Attempts -> Nat]
        /\ reply \in [Attempts -> {"none", "won", "missed"}]
        /\ \A x \in Attempts : /\ seen[x].rev \in Nat /\ seen[x].fencing \in Nat
                               /\ \A p \in put[x] : p.rev \in Nat /\ p.fencing \in Nat /\ p.ends \in Nat
    BY DEF TypeOK, Records
  <1>1. ASSUME NEW a \in Attempts, ReserveCall(a) PROVE Live
    BY <1>0, <1>1 DEF Live, Over, ReserveCall
  <1>2. ASSUME NEW a \in Attempts, NEW w \in {"commit", "release"}, SettleCall(a, w) PROVE Live
    BY <1>0, <1>2 DEF Live, Over, SettleCall
  <1>3. ASSUME NEW a \in Attempts, LoadReserve(a) PROVE Live
    <2>1. /\ UNCHANGED <<clock, record>>
          /\ \A b \in Attempts : \A p \in put'[b] : p \in put[b] \/ p.state = "reserved"
      BY <1>0, <1>3, LoadReserveEffect
    <2> QED
      BY <2>1 DEF Live, Over
  <1>4. ASSUME NEW a \in Attempts, GrantLease(a) PROVE Live
    <2>1. /\ UNCHANGED <<clock, record>>
          /\ \A b \in Attempts : \A p \in put'[b] : p \in put[b] \/ p.state = "reserved"
      BY <1>0, <1>4, GrantLeaseEffect
    <2> QED
      BY <2>1 DEF Live, Over
  <1>5. ASSUME NEW a \in Attempts, LoadCommit(a) PROVE Live
    <2>1. UNCHANGED <<clock, record>> /\ (UNCHANGED put \/ (now[a] <= Until /\ pc[a] = "load"))
      BY <1>5, LoadCommitEffect
    <2> QED
      BY <2>1, InUse DEF Live, Over
  <1>6. ASSUME NEW a \in Attempts, LoadRelease(a) PROVE Live
    <2>1. /\ UNCHANGED <<clock, record>>
          /\ \A b \in Attempts : \A p \in put'[b] : p \in put[b] \/ p.state = "reserved"
      BY <1>0, <1>6, LoadReleaseEffect
    <2> QED
      BY <2>1 DEF Live, Over
  <1>7. ASSUME NEW a \in Attempts, Execute(a) PROVE Live
    <2>1. /\ UNCHANGED clock
          /\ \A b \in Attempts : \A p \in put'[b] : p \in put[b]
      BY <1>0, <1>7, ExecuteEffect
    <2>2. CASE UNCHANGED record
      BY <2>1, <2>2 DEF Live, Over
    <2>3. ASSUME NEW q \in put[a], q.rev = record.rev,
                 record'.rev = revision + 1, record'.state = q.state
          PROVE  Live
      <3>1. \A b \in Attempts : \A p \in put'[b] : p.rev # record'.rev
        BY <1>0, <2>1, <2>3 DEF Revisions, TypeOK
      <3> QED
        BY <2>1, <2>3, <3>1 DEF Live, Over
    <2> QED
      BY <1>7, <2>2, <2>3, ExecuteEffect
  <1>8. ASSUME NEW a \in Attempts, PutWon(a) PROVE Live
    BY <1>0, <1>8 DEF Live, Over, PutWon
  <1>9. ASSUME NEW a \in Attempts, PutMissed(a) PROVE Live
    BY <1>0, <1>9 DEF Live, Over, PutMissed
  <1>10. ASSUME NEW a \in Attempts, Unavailable(a) \/ GatewayDies(a) PROVE Live
    BY <1>0, <1>10 DEF Live, Over, Unavailable, GatewayDies
  <1>11. CASE LeaseExpires
    BY <1>11, LapseEnds
  <1>12. CASE Tick
    BY <1>0, <1>12, AdmissionAssumption DEF Live, Over, Tick, TypeOK
  <1>13. CASE UNCHANGED consumeVars
    BY <1>0, <1>13 DEF Live, Over, consumeVars
  <1> QED
    BY <1>1, <1>2, <1>3, <1>4, <1>5, <1>6, <1>7, <1>8, <1>9, <1>10, <1>11, <1>12, <1>13
       DEF ConsumeNext, Step, CommitCall, ReleaseCall

LEMMA NextFenced == TypeOK /\ Timed /\ Revisions /\ Retained /\ Puts /\ Calls /\ Fenced /\ [ConsumeNext]_consumeVars => Fenced'
  <1> SUFFICES ASSUME TypeOK, Timed, Revisions, Retained, Puts, Calls, Fenced, [ConsumeNext]_consumeVars PROVE Fenced'
    OBVIOUS
  <1> USE DEF etcd, attempt, wire
  <1>0. /\ record \in Records /\ record.ends \in Nat /\ record.rev \in Nat /\ record.fencing \in Nat
        /\ pc \in [Attempts -> {"idle", "load", "grant", "wait", "held", "done"}]
        /\ op \in [Attempts -> {"reserve", "commit", "release"}]
        /\ put \in [Attempts -> SUBSET Records] /\ seen \in [Attempts -> Records]
        /\ lease \in [Attempts -> Nat] /\ fencing \in [Attempts -> Nat]
        /\ reply \in [Attempts -> {"none", "won", "missed"}]
        /\ \A x \in Attempts : /\ seen[x].rev \in Nat /\ seen[x].fencing \in Nat
                               /\ \A p \in put[x] : p.rev \in Nat /\ p.fencing \in Nat /\ p.ends \in Nat
    BY DEF TypeOK, Records
  <1>L. Live' => Live
    BY LiveBefore
  <1>1. ASSUME NEW a \in Attempts, ReserveCall(a) PROVE Fenced'
    BY <1>0, <1>L, <1>1 DEF Fenced, Backs, ReserveCall
  <1>2. ASSUME NEW a \in Attempts, NEW w \in {"commit", "release"}, SettleCall(a, w) PROVE Fenced'
    BY <1>0, <1>L, <1>2 DEF Fenced, Backs, SettleCall
  <1>3. ASSUME NEW a \in Attempts, LoadReserve(a) PROVE Fenced'
    <2>1. reply'[a] = "none"
      BY <1>0, <1>3, LoadReserveEffect DEF Calls
    <2> QED
      BY <1>0, <1>L, <1>3, <2>1, LoadReserveEffect DEF Fenced, Backs
  <1>4. ASSUME NEW a \in Attempts, GrantLease(a) PROVE Fenced'
    <2>1. reply'[a] = "none"
      BY <1>0, <1>4, GrantLeaseEffect DEF Calls
    <2> QED
      BY <1>0, <1>L, <1>4, <2>1, GrantLeaseEffect DEF Fenced, Backs
  <1>5. ASSUME NEW a \in Attempts, LoadCommit(a) PROVE Fenced'
    <2>1. reply'[a] = "none"
      BY <1>0, <1>5, LoadCommitEffect DEF Calls
    <2> QED
      BY <1>0, <1>L, <1>5, <2>1, LoadCommitEffect DEF Fenced, Backs
  <1>6. ASSUME NEW a \in Attempts, LoadRelease(a) PROVE Fenced'
    <2>1. reply'[a] = "none"
      BY <1>0, <1>6, LoadReleaseEffect DEF Calls
    <2> QED
      BY <1>0, <1>L, <1>6, <2>1, LoadReleaseEffect DEF Fenced, Backs
  <1>7. ASSUME NEW a \in Attempts, Execute(a) PROVE Fenced'
    <2>0. UNCHANGED <<pc, op, seen, fencing>>
      BY <1>7, ExecuteEffect
    <2>1. CASE UNCHANGED record /\ reply' = [reply EXCEPT ![a] = "missed"]
      BY <1>0, <1>L, <2>0, <2>1 DEF Fenced, Backs
    <2>2. ASSUME NEW q \in put[a], q.rev = record.rev, record'.fencing = q.fencing,
                 record'.owner = q.owner, reply' = [reply EXCEPT ![a] = "won"], Live'
          PROVE  Fenced'
      <3>0. PutOK(a, q) /\ q.fencing \in Nat
        BY <1>0 DEF Puts
      <3>1. ASSUME NEW b \in Attempts, NEW f \in Nat, Backs(b, f) PROVE Backs(b, f)'
        BY <1>0, <2>2, <3>0, <3>1 DEF PutOK, Backs
      <3>2. ASSUME pc[a] = "wait", op[a] = "reserve" PROVE Backs(a, seen[a].fencing + 1)'
        BY <1>0, <2>0, <2>2, <3>0, <3>2 DEF PutOK, Backs
      <3>3. ASSUME NEW b \in Attempts PROVE Backs(b, fencing[b])'
        <4>1. fencing[b] \in Nat /\ Backs(b, fencing[b])
          BY <1>0, <1>L, <2>2 DEF Fenced
        <4>2. fencing[b] <= record'.fencing
              /\ (fencing[b] > 0 /\ fencing[b] = record'.fencing => Owner[b] = record'.owner)
          BY <3>1, <4>1 DEF Backs
        <4> QED
          BY <2>0, <4>2 DEF Backs
      <3>4. ASSUME NEW b \in Attempts, b # a, pc[b] = "wait", op[b] = "reserve", reply[b] = "won"
            PROVE  Backs(b, seen[b].fencing + 1)'
        <4>1. seen[b].fencing + 1 \in Nat
          BY <1>0
        <4>2. Backs(b, seen[b].fencing + 1)
          BY <1>L, <2>2, <3>4 DEF Fenced
        <4>3. seen[b].fencing + 1 <= record'.fencing
              /\ (seen[b].fencing + 1 = record'.fencing => Owner[b] = record'.owner)
          BY <1>0, <3>1, <4>1, <4>2 DEF Backs
        <4> QED
          BY <2>0, <4>3 DEF Backs
      <3>5. \A b \in Attempts : b # a => reply'[b] = reply[b]
        BY <1>0, <2>2
      <3> QED
        BY <2>0, <3>2, <3>3, <3>4, <3>5 DEF Fenced, Backs
    <2> QED
      BY <1>7, <2>1, <2>2, ExecuteEffect DEF Fenced
  <1>8. ASSUME NEW a \in Attempts, PutWon(a) PROVE Fenced'
    BY <1>0, <1>L, <1>8 DEF Fenced, Backs, PutWon
  <1>9. ASSUME NEW a \in Attempts, PutMissed(a) PROVE Fenced'
    BY <1>0, <1>L, <1>9 DEF Fenced, Backs, PutMissed
  <1>10. ASSUME NEW a \in Attempts, Unavailable(a) \/ GatewayDies(a) PROVE Fenced'
    BY <1>0, <1>L, <1>10 DEF Fenced, Backs, Unavailable, GatewayDies
  <1>11. CASE LeaseExpires
    BY <1>11, LapseEnds DEF Fenced
  <1>12. CASE Tick
    BY <1>0, <1>L, <1>12 DEF Fenced, Backs, Tick
  <1>13. CASE UNCHANGED consumeVars
    BY <1>0, <1>L, <1>13 DEF Fenced, Backs, consumeVars
  <1> QED
    BY <1>1, <1>2, <1>3, <1>4, <1>5, <1>6, <1>7, <1>8, <1>9, <1>10, <1>11, <1>12, <1>13
       DEF ConsumeNext, Step, CommitCall, ReleaseCall

LEMMA NextWon == TypeOK /\ Timed /\ Revisions /\ Retained /\ Puts /\ Calls /\ Won /\ [ConsumeNext]_consumeVars => Won'
  <1> SUFFICES ASSUME TypeOK, Timed, Revisions, Retained, Puts, Calls, Won, [ConsumeNext]_consumeVars PROVE Won'
    OBVIOUS
  <1> USE DEF etcd, attempt, wire
  <1>0. /\ record \in Records /\ record.ends \in Nat /\ record.rev \in Nat /\ record.fencing \in Nat
        /\ pc \in [Attempts -> {"idle", "load", "grant", "wait", "held", "done"}]
        /\ op \in [Attempts -> {"reserve", "commit", "release"}]
        /\ put \in [Attempts -> SUBSET Records] /\ seen \in [Attempts -> Records]
        /\ lease \in [Attempts -> Nat] /\ fencing \in [Attempts -> Nat]
        /\ reply \in [Attempts -> {"none", "won", "missed"}]
        /\ \A x \in Attempts : /\ seen[x].rev \in Nat /\ seen[x].fencing \in Nat
                               /\ \A p \in put[x] : p.rev \in Nat /\ p.fencing \in Nat /\ p.ends \in Nat
    BY DEF TypeOK, Records
  <1>1. ASSUME NEW a \in Attempts, ReserveCall(a) PROVE Won'
    BY <1>0, <1>1 DEF Won, ConsumedBy, ReserveCall
  <1>2. ASSUME NEW a \in Attempts, NEW w \in {"commit", "release"}, SettleCall(a, w) PROVE Won'
    BY <1>0, <1>2 DEF Won, ConsumedBy, SettleCall
  <1>3. ASSUME NEW a \in Attempts, LoadReserve(a) PROVE Won'
    <2>1. reply'[a] = "none"
      BY <1>0, <1>3, LoadReserveEffect DEF Calls
    <2> QED
      BY <1>0, <1>3, <2>1, LoadReserveEffect DEF Won, ConsumedBy
  <1>4. ASSUME NEW a \in Attempts, GrantLease(a) PROVE Won'
    <2>1. reply'[a] = "none"
      BY <1>0, <1>4, GrantLeaseEffect DEF Calls
    <2> QED
      BY <1>0, <1>4, <2>1, GrantLeaseEffect DEF Won, ConsumedBy
  <1>5. ASSUME NEW a \in Attempts, LoadCommit(a) PROVE Won'
    <2>1. reply'[a] = "none"
      BY <1>0, <1>5, LoadCommitEffect DEF Calls
    <2> QED
      BY <1>0, <1>5, <2>1, LoadCommitEffect DEF Won, ConsumedBy
  <1>6. ASSUME NEW a \in Attempts, LoadRelease(a) PROVE Won'
    <2>1. reply'[a] = "none"
      BY <1>0, <1>6, LoadReleaseEffect DEF Calls
    <2> QED
      BY <1>0, <1>6, <2>1, LoadReleaseEffect DEF Won, ConsumedBy
  <1>7. ASSUME NEW a \in Attempts, Execute(a) PROVE Won'
    <2>0. UNCHANGED <<pc, op, fencing>>
      BY <1>7, ExecuteEffect
    <2>1. CASE UNCHANGED record /\ reply' = [reply EXCEPT ![a] = "missed"]
      BY <1>0, <2>0, <2>1 DEF Won, ConsumedBy
    <2>2. ASSUME NEW q \in put[a], q.rev = record.rev, record'.fencing = q.fencing,
                 record'.state = q.state, record'.owner = q.owner,
                 reply' = [reply EXCEPT ![a] = "won"]
          PROVE  Won'
      <3>1. record.state # "consumed"
        BY <2>2 DEF Revisions
      <3>2. PutOK(a, q)
        BY DEF Puts
      <3> QED
        BY <1>0, <2>0, <2>2, <3>1, <3>2 DEF Won, ConsumedBy, PutOK
    <2> QED
      BY <1>7, <2>1, <2>2, ExecuteEffect
  <1>8. ASSUME NEW a \in Attempts, PutWon(a) PROVE Won'
    BY <1>0, <1>8 DEF Won, ConsumedBy, PutWon
  <1>9. ASSUME NEW a \in Attempts, PutMissed(a) PROVE Won'
    BY <1>0, <1>9 DEF Won, ConsumedBy, PutMissed
  <1>10. ASSUME NEW a \in Attempts, Unavailable(a) \/ GatewayDies(a) PROVE Won'
    BY <1>0, <1>10 DEF Won, ConsumedBy, Unavailable, GatewayDies
  <1>11. CASE LeaseExpires
    <2>1. Over /\ UNCHANGED <<pc, op, reply>>
      BY <1>11, LapseEnds DEF LeaseExpires
    <2>2. ASSUME NEW b \in Attempts, pc[b] = "wait" /\ op[b] = "commit" PROVE FALSE
      BY <2>1, <2>2, InUse
    <2> QED
      BY <2>1, <2>2 DEF Won
  <1>12. CASE Tick
    BY <1>0, <1>12 DEF Won, ConsumedBy, Tick
  <1>13. CASE UNCHANGED consumeVars
    BY <1>0, <1>13 DEF Won, ConsumedBy, consumeVars
  <1> QED
    BY <1>1, <1>2, <1>3, <1>4, <1>5, <1>6, <1>7, <1>8, <1>9, <1>10, <1>11, <1>12, <1>13
       DEF ConsumeNext, Step, CommitCall, ReleaseCall

LEMMA NextAdmitted == TypeOK /\ Timed /\ Revisions /\ Retained /\ Puts /\ Calls /\ Fenced /\ Won /\ Solo /\ Admitted /\ [ConsumeNext]_consumeVars => Admitted'
  <1> SUFFICES ASSUME TypeOK, Timed, Revisions, Retained, Puts, Calls, Fenced, Won, Solo, Admitted, [ConsumeNext]_consumeVars PROVE Admitted'
    OBVIOUS
  <1> USE DEF etcd, attempt, wire
  <1>0. /\ record \in Records /\ record.ends \in Nat /\ record.rev \in Nat /\ record.fencing \in Nat
        /\ pc \in [Attempts -> {"idle", "load", "grant", "wait", "held", "done"}]
        /\ op \in [Attempts -> {"reserve", "commit", "release"}]
        /\ put \in [Attempts -> SUBSET Records] /\ seen \in [Attempts -> Records]
        /\ lease \in [Attempts -> Nat] /\ fencing \in [Attempts -> Nat]
        /\ reply \in [Attempts -> {"none", "won", "missed"}]
        /\ \A x \in Attempts : /\ seen[x].rev \in Nat /\ seen[x].fencing \in Nat
                               /\ \A p \in put[x] : p.rev \in Nat /\ p.fencing \in Nat /\ p.ends \in Nat
    BY DEF TypeOK, Records
  <1>L. Live' => Live
    BY LiveBefore
  <1>D. \A x \in admitted : x \in Attempts /\ pc[x] = "done"
    BY DEF Admitted, TypeOK
  <1>1. ASSUME NEW a \in Attempts, ReserveCall(a) PROVE Admitted'
    <2>1. UNCHANGED <<record, op, fencing, admitted>> /\ pc' = [pc EXCEPT ![a] = "load"] /\ pc[a] = "idle"
      BY <1>1 DEF ReserveCall
    <2>2. op[a] = "reserve"
      BY <2>1 DEF Timed
    <2> QED
      BY <1>0, <1>L, <1>D, <2>1, <2>2 DEF Admitted, ConsumedBy
  <1>2. ASSUME NEW a \in Attempts, NEW w \in {"commit", "release"}, SettleCall(a, w) PROVE Admitted'
    BY <1>0, <1>L, <1>D, <1>2 DEF Admitted, ConsumedBy, SettleCall
  <1>3. ASSUME NEW a \in Attempts, LoadReserve(a) PROVE Admitted'
    <2>1. ~Over
      BY <1>3, InUse DEF LoadReserve
    <2>2. \A x \in admitted : record.state = "consumed"
      BY <2>1 DEF Live, Admitted, ConsumedBy
    <2> QED
      BY <1>0, <1>D, <1>3, <2>2, <1>L, LoadReserveEffect DEF Admitted, ConsumedBy
  <1>4. ASSUME NEW a \in Attempts, GrantLease(a) PROVE Admitted'
    BY <1>0, <1>L, <1>D, <1>4, GrantLeaseEffect DEF Admitted, ConsumedBy
  <1>5. ASSUME NEW a \in Attempts, LoadCommit(a) PROVE Admitted'
    <2>0. /\ pc[a] = "load" /\ op[a] = "commit" /\ UNCHANGED <<record, op, fencing>>
          /\ pc' = [pc EXCEPT ![a] = "done"] \/ pc' = [pc EXCEPT ![a] = "wait"]
      BY <1>5, LoadCommitEffect
    <2>1. CASE UNCHANGED admitted
      BY <1>0, <1>D, <1>L, <2>0, <2>1 DEF Admitted, ConsumedBy
    <2>2. CASE /\ admitted' = admitted \cup {a} /\ pc' = [pc EXCEPT ![a] = "done"]
               /\ record.state = "consumed" /\ record.fencing = fencing[a]
      <3>1. ConsumedBy(a) /\ fencing[a] > 0
        BY <1>0, <2>0, <2>2 DEF Live, Fenced, Backs, Calls, ConsumedBy
      <3>2. \A b \in Attempts : b # a /\ Owner[b] = Owner[a] => pc[b] \in {"idle", "done"}
        BY <2>0 DEF Solo
      <3> QED
        BY <1>0, <1>D, <1>L, <2>0, <2>2, <3>1, <3>2 DEF Admitted, ConsumedBy
    <2> QED
      BY <1>5, <2>1, <2>2, LoadCommitEffect
  <1>6. ASSUME NEW a \in Attempts, LoadRelease(a) PROVE Admitted'
    BY <1>0, <1>L, <1>D, <1>6, LoadReleaseEffect DEF Admitted, ConsumedBy
  <1>7. ASSUME NEW a \in Attempts, Execute(a) PROVE Admitted'
    <2>0. UNCHANGED <<pc, op, fencing, admitted>>
      BY <1>7, ExecuteEffect
    <2>1. CASE UNCHANGED record
      BY <1>L, <2>0, <2>1 DEF Admitted, ConsumedBy
    <2>2. ASSUME NEW q \in put[a], q.rev = record.rev PROVE Admitted'
      <3>1. record.state # "consumed"
        BY <2>2 DEF Revisions
      <3> QED
        BY <1>L, <2>0, <3>1 DEF Admitted, ConsumedBy
    <2> QED
      BY <1>7, <2>1, <2>2, ExecuteEffect
  <1>8. ASSUME NEW a \in Attempts, PutWon(a) PROVE Admitted'
    <2>1. CASE op[a] = "commit"
      <3>1. ConsumedBy(a) /\ fencing[a] > 0
        BY <1>8, <2>1 DEF PutWon, Won, Calls
      <3>2. \A b \in Attempts : b # a /\ Owner[b] = Owner[a] => pc[b] \in {"idle", "done"}
        BY <1>8 DEF Solo, PutWon
      <3> QED
        BY <1>0, <1>D, <1>L, <1>8, <2>1, <3>1, <3>2 DEF PutWon, Admitted, ConsumedBy
    <2>2. CASE op[a] # "commit"
      BY <1>0, <1>D, <1>L, <1>8, <2>2 DEF PutWon, Admitted, ConsumedBy
    <2> QED
      BY <2>1, <2>2
  <1>9. ASSUME NEW a \in Attempts, PutMissed(a) PROVE Admitted'
    BY <1>0, <1>L, <1>D, <1>9 DEF Admitted, ConsumedBy, PutMissed
  <1>10. ASSUME NEW a \in Attempts, Unavailable(a) \/ GatewayDies(a) PROVE Admitted'
    BY <1>0, <1>L, <1>D, <1>10 DEF Admitted, ConsumedBy, Unavailable, GatewayDies
  <1>11. CASE LeaseExpires
    BY <1>11, LapseEnds DEF LeaseExpires, Admitted
  <1>12. CASE Tick
    BY <1>0, <1>L, <1>D, <1>12 DEF Admitted, ConsumedBy, Tick
  <1>13. CASE UNCHANGED consumeVars
    BY <1>0, <1>L, <1>D, <1>13 DEF Admitted, ConsumedBy, consumeVars
  <1> QED
    BY <1>1, <1>2, <1>3, <1>4, <1>5, <1>6, <1>7, <1>8, <1>9, <1>10, <1>11, <1>12, <1>13
       DEF ConsumeNext, Step, CommitCall, ReleaseCall

LEMMA NextAtMostOnce ==
  OnceInv /\ [ConsumeNext]_consumeVars => AtMostOnce'
  <1> SUFFICES ASSUME OnceInv, [ConsumeNext]_consumeVars PROVE AtMostOnce'
    OBVIOUS
  <1> USE DEF OnceInv
  <1>1. ASSUME NEW a \in Attempts, LoadCommit(a), admitted' # admitted
        PROVE  admitted \subseteq {a} /\ admitted' \subseteq admitted \cup {a}
    <2>1. /\ admitted' = admitted \cup {a} /\ pc[a] = "load" /\ op[a] = "commit"
          /\ record.state = "consumed" /\ record.fencing = fencing[a]
      BY <1>1, LoadCommitEffect
    <2>2. Owner[a] = record.owner
      BY <2>1 DEF Live, Fenced, Backs, Calls
    <2>3. ASSUME NEW b \in admitted PROVE b = a
      BY <2>1, <2>2 DEF Live, Admitted, ConsumedBy, TypeOK
    <2> QED
      BY <2>1, <2>3
  <1>2. ASSUME NEW a \in Attempts, PutWon(a), admitted' # admitted
        PROVE  admitted \subseteq {a} /\ admitted' \subseteq admitted \cup {a}
    <2>1. admitted' = admitted \cup {a} /\ pc[a] = "wait" /\ op[a] = "commit" /\ reply[a] = "won"
      BY <1>2 DEF PutWon
    <2>2. ConsumedBy(a) /\ ~Over
      BY <2>1, InUse DEF Won
    <2>3. ASSUME NEW b \in admitted PROVE b = a
      BY <2>1, <2>2 DEF Live, Admitted, ConsumedBy, TypeOK
    <2> QED
      BY <2>1, <2>3
  <1>3. \/ admitted' = admitted
        \/ \E a \in Attempts : (LoadCommit(a) \/ PutWon(a)) /\ admitted' # admitted
    BY DEF ConsumeNext, Step, ReserveCall, CommitCall, ReleaseCall, SettleCall, LoadReserve,
       GrantLease, LoadRelease, Execute, PutMissed, Unavailable, GatewayDies, LeaseExpires,
       Tick, consumeVars
  <1> QED
    BY <1>1, <1>2, <1>3 DEF AtMostOnce

LEMMA InitOnceInv == ConsumeInit => OnceInv
  <1> SUFFICES ASSUME ConsumeInit PROVE OnceInv
    OBVIOUS
  <1>1. TypeOK /\ Timed /\ Revisions
    BY InitTypeOK, InitTimed, InitRevisions
  <1>2. /\ record = NoRecord /\ admitted = {} /\ record.fencing = 0
        /\ \A a \in Attempts : /\ pc[a] = "idle" /\ op[a] = "reserve" /\ lease[a] = 0
                               /\ fencing[a] = 0 /\ put[a] = {} /\ reply[a] = "none"
    BY DEF ConsumeInit, NoRecord
  <1>3. Retained /\ Puts /\ Calls
    BY <1>2 DEF Retained, Puts, RecordOK, Calls
  <1>4. Fenced /\ Won /\ Solo /\ Admitted /\ AtMostOnce
    BY <1>2 DEF Fenced, Backs, Won, Solo, Admitted, AtMostOnce
  <1> QED
    BY <1>1, <1>3, <1>4 DEF OnceInv

(* The same credentials admit at most one session, for any number of       *)
(* attempts and gateways, as long as the gateways' clocks differ and their *)
(* frames stall by less, together, than the second retention_ttl adds.     *)
THEOREM AdmittedOnce ==
  ASSUME MaxSkew + MaxStall < RetentionSlack
  PROVE  ConsumeSpec => []AtMostOnce
  <1>1. ConsumeInit => OnceInv
    BY InitOnceInv
  <1>2. OnceInv /\ [ConsumeNext]_consumeVars => OnceInv'
    <2> SUFFICES ASSUME OnceInv, [ConsumeNext]_consumeVars PROVE OnceInv'
      OBVIOUS
    <2>1. AtMostOnce'
      BY NextAtMostOnce
    <2>2. TypeOK' /\ Timed' /\ Revisions' /\ Retained'
      BY NextTypeOK, NextTimed, NextRevisions, NextRetained DEF OnceInv
    <2>3. Puts' /\ Calls' /\ Fenced' /\ Won' /\ Solo'
      BY NextPuts, NextCalls, NextFenced, NextWon, NextSolo DEF OnceInv
    <2>4. Admitted'
      BY NextAdmitted DEF OnceInv
    <2> QED
      BY <2>1, <2>2, <2>3, <2>4 DEF OnceInv
  <1>3. OnceInv => AtMostOnce
    BY DEF OnceInv
  <1> QED
    BY <1>1, <1>2, <1>3, PTL DEF ConsumeSpec

-----------------------------------------------------------------------------
(* The refinement of the atomic store.                                     *)

(* The credentials may be reserved at time t. *)
Free(t, r) ==
    /\ r.state = "consumed" => t > Until
    /\ r.state = "reserved" => t >= r.expires

(* p is what a call by that name, at time t and for that owner, makes of   *)
(* the record r.                                                           *)
Made(call, t, owner, p, r) ==
    \/ /\ call = "reserve" /\ Free(t, r)
       /\ p.state = "reserved" /\ p.owner = owner
       /\ p.fencing = r.fencing + 1 /\ p.expires = t + ReservationTtl
    \/ /\ call = "commit" /\ r.state = "reserved" /\ t < r.expires /\ t <= Until
       /\ p.state = "consumed" /\ p.owner = r.owner
       /\ p.fencing = r.fencing /\ p.expires = r.expires
    \/ /\ call = "release" /\ r.state = "reserved"
       /\ p.state = "reserved" /\ p.owner = r.owner
       /\ p.fencing = r.fencing /\ p.expires = t

(* A put, or a loaded record, that would pass its compare was made from    *)
(* the record as it is; a dropped record is the one that was never there.  *)
Fresh ==
    /\ record.rev = 0 => record = NoRecord
    /\ \A a \in Attempts : \A p \in put[a] :
         /\ p.rev = 0 => Made(op[a], now[a], Owner[a], p, NoRecord)
         /\ p.rev = record.rev => Made(op[a], now[a], Owner[a], p, record)
    /\ \A a \in Attempts : pc[a] = "grant" =>
         /\ op[a] = "reserve" /\ Free(now[a], seen[a])
         /\ seen[a].rev = 0 => seen[a] = NoRecord
         /\ seen[a].rev = record.rev => seen[a] = record

(* The inductive invariant behind ActsAtomically. *)
AtomicInv == TypeOK /\ Timed /\ Revisions /\ Calls /\ Puts /\ Fresh /\ clock <= MaxTime

LEMMA SentMade ==
    ASSUME NEW a \in Attempts, NEW r \in Records, NEW ends \in Nat, TypeOK,
           op[a] = "reserve" => Free(now[a], r),
           op[a] = "commit" => r.state = "reserved" /\ now[a] < r.expires /\ now[a] <= Until,
           op[a] = "release" => r.state = "reserved"
    PROVE  /\ Made(op[a], now[a], Owner[a], Replacement(a, r, ends), r)
           /\ Replacement(a, r, ends).rev = r.rev
<1>1. CASE op[a] = "reserve"
  BY <1>1 DEF Replacement, Made
<1>2. CASE op[a] = "commit"
  BY <1>2 DEF Replacement, Made, Records
<1>3. CASE op[a] = "release"
  BY <1>3 DEF Replacement, Made, Records
<1>4. QED BY <1>1, <1>2, <1>3 DEF TypeOK

(* reserve goes on with a record that is neither taken nor busy. *)
LEMMA FreeToReserve ==
    ASSUME TypeOK, NEW a \in Attempts, NEW r \in Records
    PROVE  Free(now[a], r) <=> ~Taken(a, r) /\ ~Busy(a, r)
BY AdmissionAssumption DEF TypeOK, Records, Free, Taken, Busy

LEMMA InitFresh == ConsumeInit => Fresh
BY DEF ConsumeInit, Fresh, NoRecord

LEMMA NextFresh ==
    ASSUME TypeOK, Timed, Revisions, Calls, Fresh, [ConsumeNext]_consumeVars
    PROVE  Fresh'
<1> USE DEF etcd, attempt, wire
<1>0. /\ record \in Records /\ revision \in Nat /\ record.ends \in Nat /\ record.rev \in Nat
      /\ op \in [Attempts -> {"reserve", "commit", "release"}]
      /\ pc \in [Attempts -> {"idle", "load", "grant", "wait", "held", "done"}]
      /\ put \in [Attempts -> SUBSET Records] /\ seen \in [Attempts -> Records]
      /\ lease \in [Attempts -> Nat] /\ now \in [Attempts -> Nat]
      /\ \A a \in Attempts : /\ seen[a].rev \in Nat
                             /\ \A p \in put[a] : p.rev \in Nat /\ p.rev <= revision
      /\ record.rev <= revision
      /\ \A a \in Attempts : pc[a] = "grant" => seen[a].rev <= revision
  BY DEF TypeOK, Records, Revisions
(* A step of a leaves the record alone, and its own put and load are fresh. *)
<1>1. ASSUME NEW a \in Attempts, UNCHANGED record,
             \A b \in Attempts \ {a} : UNCHANGED <<pc[b], op[b], now[b], seen[b], put[b]>>,
             \A p \in put'[a] :
                /\ p.rev = 0 => Made(op'[a], now'[a], Owner[a], p, NoRecord)
                /\ p.rev = record.rev => Made(op'[a], now'[a], Owner[a], p, record),
             pc'[a] = "grant" =>
               /\ op'[a] = "reserve" /\ Free(now'[a], seen'[a])
               /\ seen'[a].rev = 0 => seen'[a] = NoRecord
               /\ seen'[a].rev = record.rev => seen'[a] = record
      PROVE  Fresh'
  BY <1>1 DEF Fresh
(* What is sent from the record as it is, is fresh. *)
<1>2. ASSUME NEW a \in Attempts, NEW ends \in Nat, UNCHANGED <<record, op, now>>,
             SendPut(a, record, ends),
             op[a] = "reserve" => Free(now[a], record),
             op[a] = "commit" => record.state = "reserved" /\ now[a] < record.expires /\ now[a] <= Until,
             op[a] = "release" => record.state = "reserved",
             \A b \in Attempts \ {a} : UNCHANGED seen[b]
      PROVE  Fresh'
  <2>1. /\ Made(op[a], now[a], Owner[a], Replacement(a, record, ends), record)
        /\ Replacement(a, record, ends).rev = record.rev
    BY <1>0, <1>2, SentMade
  <2>2. /\ put' = [put EXCEPT ![a] = {Replacement(a, record, ends)}]
        /\ pc' = [pc EXCEPT ![a] = "wait"]
    BY <1>2 DEF SendPut
  <2> DEFINE q == Replacement(a, record, ends)
  <2>3. Made(op'[a], now'[a], Owner[a], q, record)
    BY <1>2, <2>1
  <2> HIDE DEF q
  <2>4. \A p \in put'[a] : p = q /\ p.rev = record.rev
    BY <1>0, <2>1, <2>2 DEF q
  <2>5. record.rev = 0 => record = NoRecord
    BY DEF Fresh
  <2>6. \A p \in put'[a] :
          /\ p.rev = 0 => Made(op'[a], now'[a], Owner[a], p, NoRecord)
          /\ p.rev = record.rev => Made(op'[a], now'[a], Owner[a], p, record)
    BY <1>2, <2>3, <2>4, <2>5
  <2>7. /\ pc'[a] # "grant"
        /\ \A b \in Attempts \ {a} : UNCHANGED <<pc[b], op[b], now[b], seen[b], put[b]>>
    BY <1>0, <1>2, <2>2
  <2>8. QED BY <1>1, <1>2, <2>6, <2>7
(* Nobody has a put on its way between two calls. *)
<1>3. \A a \in Attempts : pc[a] \in {"idle", "held", "load", "grant"} => put[a] = {}
  BY DEF Calls
<1>4. ASSUME NEW a \in Attempts, ReserveCall(a) PROVE Fresh'
  <2>1. put'[a] = {} /\ pc'[a] = "load"
    BY <1>0, <1>3, <1>4 DEF ReserveCall
  <2>2. QED BY <1>0, <1>1, <1>4, <2>1 DEF ReserveCall
<1>5. ASSUME NEW a \in Attempts, NEW w \in {"commit", "release"}, SettleCall(a, w) PROVE Fresh'
  <2>1. put'[a] = {} /\ pc'[a] = "load"
    BY <1>0, <1>3, <1>5 DEF SettleCall
  <2>2. QED BY <1>0, <1>1, <1>5, <2>1 DEF SettleCall
<1>6. ASSUME NEW a \in Attempts, LoadReserve(a) PROVE Fresh'
  <2>1. CASE Free(now[a], record) /\ lease[a] # 0
    BY <1>0, <1>2, <1>6, <2>1, FreeToReserve DEF LoadReserve
  <2>2. CASE ~Free(now[a], record) \/ lease[a] = 0
    <3>1. UNCHANGED <<record, op, now>> /\ seen' = [seen EXCEPT ![a] = record] /\ put' = put
          /\ op[a] = "reserve"
      BY <1>0, <1>6, <2>2, FreeToReserve DEF LoadReserve, Return
    <3>2. put'[a] = {}
      BY <1>3, <1>6, <3>1 DEF LoadReserve
    <3>3. \A b \in Attempts \ {a} : UNCHANGED pc[b]
      BY <1>0, <1>6, <2>2, FreeToReserve DEF LoadReserve, Return
    <3>4. pc'[a] = "grant" => Free(now[a], record)
      BY <1>0, <1>6, <2>2, FreeToReserve DEF LoadReserve, Return
    <3>5. pc'[a] = "grant" => Free(now'[a], seen'[a])
      BY <1>0, <3>1, <3>4
    <3>6. record.rev = 0 => record = NoRecord
      BY DEF Fresh
    <3>7. QED BY <1>0, <1>1, <3>1, <3>2, <3>3, <3>5, <3>6
  <2>3. QED BY <2>1, <2>2
<1>7. ASSUME NEW a \in Attempts, GrantLease(a) PROVE Fresh'
  <2> DEFINE ends == clock + (Until - now[a]) + RetentionSlack
             q == Replacement(a, seen[a], ends)
  <2>1. ends \in Nat
    BY <1>7, AdmissionAssumption DEF GrantLease, Timed, TypeOK, Calling
  <2>2. /\ pc[a] = "grant" /\ op[a] = "reserve" /\ Free(now[a], seen[a])
        /\ seen[a].rev = 0 => seen[a] = NoRecord
        /\ seen[a].rev = record.rev => seen[a] = record
    BY <1>7 DEF GrantLease, Fresh
  <2>3. UNCHANGED <<record, op, now, seen>> /\ put' = [put EXCEPT ![a] = {q}]
        /\ pc' = [pc EXCEPT ![a] = "wait"]
    BY <1>7 DEF GrantLease, SendPut
  <2> HIDE DEF ends
  <2>4. Made(op[a], now[a], Owner[a], q, seen[a]) /\ q.rev = seen[a].rev
    BY <1>0, <2>1, <2>2, SentMade
  <2> HIDE DEF q
  <2>5. \A p \in put'[a] : p = q
    BY <1>0, <2>3
  <2>6. /\ q.rev = 0 => Made(op'[a], now'[a], Owner[a], q, NoRecord)
        /\ q.rev = record.rev => Made(op'[a], now'[a], Owner[a], q, record)
    BY <2>2, <2>3, <2>4
  <2>7. QED BY <1>0, <1>1, <2>3, <2>5, <2>6
<1>8. ASSUME NEW a \in Attempts, LoadCommit(a) PROVE Fresh'
  <2>1. CASE Committable(a, record)
    BY <1>0, <1>2, <1>8, <2>1 DEF LoadCommit, Committable
  <2>2. CASE ~Committable(a, record)
    <3>1. UNCHANGED <<record, op, now, put>> /\ seen' = [seen EXCEPT ![a] = record]
          /\ pc' = [pc EXCEPT ![a] = "done"] /\ pc[a] = "load"
      BY <1>8, <2>2 DEF LoadCommit, Return
    <3>2. QED BY <1>0, <1>1, <1>3, <3>1
  <2>3. QED BY <2>1, <2>2
<1>9. ASSUME NEW a \in Attempts, LoadRelease(a) PROVE Fresh'
  <2>1. CASE Releasable(a, record)
    BY <1>0, <1>2, <1>9, <2>1 DEF LoadRelease, Releasable
  <2>2. CASE ~Releasable(a, record)
    <3>1. UNCHANGED <<record, op, now, put>> /\ seen' = [seen EXCEPT ![a] = record]
          /\ pc' = [pc EXCEPT ![a] = "done"] /\ pc[a] = "load"
      BY <1>9, <2>2 DEF LoadRelease, Return
    <3>2. QED BY <1>0, <1>1, <1>3, <3>1
  <2>3. QED BY <2>1, <2>2
(* Once a put was applied no other one that was sent before fits. *)
<1>10. ASSUME NEW a \in Attempts, Execute(a) PROVE Fresh'
  <2>1. put' = [put EXCEPT ![a] = {}] /\ UNCHANGED <<pc, op, now, seen>>
    BY <1>10, ExecuteEffect
  <2>2. CASE UNCHANGED record
    BY <1>0, <2>1, <2>2 DEF Fresh
  <2>3. CASE record'.rev = revision + 1
    <3>1. \A b \in Attempts : \A p \in put'[b] : p \in put[b] /\ p.rev # record'.rev
      BY <1>0, <2>1, <2>3
    <3>2. \A b \in Attempts : pc[b] = "grant" => seen[b].rev # record'.rev
      BY <1>0, <2>3
    <3>3. record'.rev # 0
      BY <1>0, <2>3
    <3>4. \A b \in Attempts : \A p \in put'[b] : p.rev = 0 => Made(op'[b], now'[b], Owner[b], p, NoRecord)
      BY <2>1, <3>1 DEF Fresh
    <3>5. \A b \in Attempts : pc'[b] = "grant" =>
            /\ op'[b] = "reserve" /\ Free(now'[b], seen'[b])
            /\ seen'[b].rev = 0 => seen'[b] = NoRecord
      BY <2>1 DEF Fresh
    <3>6. QED BY <2>1, <3>1, <3>2, <3>3, <3>4, <3>5 DEF Fresh
  <2>4. QED BY <1>10, <2>2, <2>3, ExecuteEffect
<1>11. ASSUME NEW a \in Attempts, PutWon(a) \/ PutMissed(a) \/ Unavailable(a) \/ GatewayDies(a)
       PROVE  Fresh'
  <2>1. UNCHANGED <<record, op, now, seen, put>>
    BY <1>11 DEF PutWon, PutMissed, Unavailable, GatewayDies
  <2>2. \A b \in Attempts : pc'[b] = "grant" => pc[b] = "grant"
    BY <1>0, <1>11 DEF PutWon, PutMissed, Unavailable, GatewayDies
  <2>3. QED BY <2>1, <2>2 DEF Fresh
(* The record that is dropped leaves NoRecord to what was made from it. *)
<1>12. CASE LeaseExpires
  <2>1. record' = NoRecord /\ UNCHANGED <<pc, op, now, seen, put>> /\ NoRecord.rev = 0
    BY <1>12 DEF LeaseExpires, NoRecord
  <2>2. QED BY <2>1 DEF Fresh
<1>13. CASE Tick \/ UNCHANGED consumeVars
  <2>1. UNCHANGED <<record, pc, op, now, seen, put>>
    BY <1>13 DEF Tick, consumeVars
  <2>2. QED BY <2>1 DEF Fresh
<1>14. QED
  BY <1>4, <1>5, <1>6, <1>7, <1>8, <1>9, <1>10, <1>11, <1>12, <1>13
     DEF ConsumeNext, Step, CommitCall, ReleaseCall

LEMMA AtomicInvariance == ConsumeSpec => []AtomicInv
<1>1. ConsumeInit => AtomicInv
  <2>1. ConsumeInit => Calls /\ Puts
    BY DEF ConsumeInit, Calls, Puts, RecordOK
  <2>2. QED BY <2>1, InitTypeOK, InitTimed, InitRevisions, InitFresh, AdmissionAssumption
       DEF AtomicInv, ConsumeInit
<1>2. AtomicInv /\ [ConsumeNext]_consumeVars => AtomicInv'
  <2> SUFFICES ASSUME AtomicInv, [ConsumeNext]_consumeVars PROVE AtomicInv'
    OBVIOUS
  <2>1. clock' <= MaxTime
    BY AdmissionAssumption DEF AtomicInv, TypeOK, ConsumeNext, Step, ReserveCall, CommitCall, ReleaseCall,
       SettleCall, LoadReserve, GrantLease, LoadCommit, LoadRelease, Execute, PutWon, PutMissed,
       Unavailable, GatewayDies, LeaseExpires, Tick, consumeVars
  <2>2. QED BY <2>1, NextTypeOK, NextTimed, NextRevisions, NextCalls, NextPuts, NextFresh
       DEF AtomicInv
<1>3. QED BY <1>1, <1>2, PTL DEF ConsumeSpec

(* The record as the atomic store has it. *)
stored == [state |-> record.state, owner |-> record.owner,
           fencing |-> record.fencing, expires |-> record.expires]

(* A put that is applied is one call of the atomic store, a record that is *)
(* dropped with its lease is forgotten, and nothing else changes the record.*)
LEMMA StepImplements ==
    ASSUME AtomicInv, [ConsumeNext]_consumeVars
    PROVE  [Store!Next]_stored
<1> USE DEF AtomicInv
<1>1. ASSUME NEW a \in Attempts, NEW p \in put[a], PutApplies(p), record' = [p EXCEPT !.rev = revision + 1]
      PROVE  Store!Next
  <2>1. p \in Records /\ record \in Records /\ now[a] \in 0..(MaxTime + MaxSkew)
    BY AdmissionAssumption DEF TypeOK, Timed, Wall
  <2>2. Made(op[a], now[a], Owner[a], p, record)
    BY <1>1 DEF Fresh, PutApplies
  <2>3. /\ record'.state = p.state /\ record'.owner = p.owner
        /\ record'.fencing = p.fencing /\ record'.expires = p.expires
    BY <1>1, <2>1 DEF Records
  <2>4. CASE op[a] = "reserve"
    <3>1. Store!Reserve(Owner[a], now[a])
      BY <2>2, <2>3, <2>4 DEF Made, Free, Store!Reserve
    <3>2. QED BY <2>1, <3>1 DEF Store!Next
  <2>5. CASE op[a] = "commit"
    <3>1. Store!Commit(now[a])
      BY <2>2, <2>3, <2>5 DEF Made, Store!Commit
    <3>2. QED BY <2>1, <3>1 DEF Store!Next
  <2>6. CASE op[a] = "release"
    <3>1. Store!Release(now[a])
      BY <2>2, <2>3, <2>6 DEF Made, Store!Release
    <3>2. QED BY <2>1, <3>1 DEF Store!Next
  <2>7. QED BY <2>4, <2>5, <2>6 DEF TypeOK
<1>2. ASSUME NEW a \in Attempts, Execute(a) PROVE Store!Next \/ UNCHANGED record
  BY <1>1, <1>2 DEF Execute, etcd
<1>3. ASSUME NEW a \in Attempts, Step(a) PROVE Store!Next \/ UNCHANGED record
  BY <1>2, <1>3 DEF Step, ReserveCall, CommitCall, ReleaseCall, SettleCall, LoadReserve,
     GrantLease, LoadCommit, LoadRelease, PutWon, PutMissed, Unavailable, GatewayDies, etcd
<1>4. ASSUME LeaseExpires PROVE Store!Next \/ UNCHANGED stored
  <2>1. stored' = Store!Forgotten
    BY <1>4 DEF LeaseExpires, NoRecord, Store!Forgotten, stored
  <2>2. CASE stored = Store!Forgotten
    BY <2>1, <2>2
  <2>3. CASE stored # Store!Forgotten
    BY <2>1, <2>3 DEF Store!Next, Store!Forget, stored
  <2>4. QED BY <2>2, <2>3
<1>5. ASSUME Tick \/ UNCHANGED consumeVars PROVE UNCHANGED record
  BY <1>5 DEF Tick, consumeVars, etcd
<1>6. QED BY <1>3, <1>4, <1>5 DEF ConsumeNext, stored

(* Loads, leases and compare-and-puts of any number of gateways, lost and  *)
(* late ones among them, implement the atomic store: what it promises      *)
(* holds of the record in etcd, whatever the clocks show.                  *)
THEOREM Implements == ConsumeSpec => ActsAtomically
<1>1. ConsumeInit => Store!Init
  BY DEF ConsumeInit, NoRecord, Store!Init, Store!Forgotten
<1>2. AtomicInv /\ [ConsumeNext]_consumeVars => [Store!Next]_stored
  BY StepImplements
<1>3. QED BY <1>1, <1>2, AtomicInvariance, PTL DEF ConsumeSpec, ActsAtomically, Store!Spec, stored

-----------------------------------------------------------------------------
(* The credentials (CredentialChain): a ticket is redeemed once and what is *)
(* good is accepted, for every number of logins, every length of the       *)
(* credentials' lives, any number of key changes and all clocks that differ *)
(* by no more than the leeway.                                             *)
Times == [iat : Int, exp : Int]

ChainTypeOK ==
    /\ time \in Nat /\ skew \in [Hosts -> 0..Leeway]
    /\ identity \in [Logins -> Times \cup {None}]
    /\ number \in [Logins -> Times \cup {None}]
    /\ batch \in [Logins -> Int \cup {None}]
    /\ grants \subseteq [login : Logins, iat : Int, kid : Int, exp : Int]
    /\ ticket \in [Logins -> Int \cup {None}]
    /\ consumed \subseteq Logins /\ redeemed \subseteq Logins
    /\ key \in Int /\ switched \in Int

(* A ticket that was accepted is in the guard until it is over.            *)
Guarded ==
    /\ twice = {}
    /\ \A l \in redeemed :
         ticket[l] # None /\ (l \in consumed \/ Now("realm") > ticket[l] + Leeway)

(* Every credential was issued before the present moment of its issuer and *)
(* ends with the one that it was issued for.                               *)
ChainBound ==
    /\ \A l \in Logins : identity[l] # None => identity[l].iat <= Now("verifier")
    /\ \A l \in Logins : number[l] # None =>
         identity[l] # None /\ number[l].exp <= identity[l].exp
    /\ \A l \in Logins : batch[l] # None => batch[l] <= Now("queue")
    /\ \A g \in grants :
         /\ identity[g.login] # None /\ g.exp <= identity[g.login].exp
         /\ g.iat <= Now("queue") /\ g.iat <= g.exp /\ g.exp <= g.iat + GrantWindow

(* The gateway knows the key of every grant that is not over: of an old    *)
(* key there is no grant from after the change.                            *)
KeysKnown ==
    /\ switched <= time
    /\ ring \in {{key}, {key, key + 1}, {key - 1, key}}
    /\ \A g \in grants :
         /\ g.kid <= key
         /\ g.kid < key => g.iat <= switched + skew["queue"]
         /\ g.kid \in ring \/ g.exp < Now("queue")

ChainInv == ChainTypeOK /\ Guarded /\ ChainBound /\ KeysKnown

-----------------------------------------------------------------------------
(* Clocks are at most the leeway apart, and only go on. *)
LEMMA ClocksClose ==
    ASSUME ChainTypeOK
    PROVE  /\ Leeway \in Nat /\ GrantWindow \in Nat
           /\ \A h \in {"verifier", "queue", "gateway", "realm"} :
                Now(h) \in Int /\ time <= Now(h) /\ Now(h) <= time + Leeway
BY CredentialsAssumption DEF ChainTypeOK, Now, Hosts

LEMMA ClocksGoOn ==
    ASSUME ChainTypeOK, [ChainNext]_chain
    PROVE  \A h \in {"verifier", "queue", "gateway", "realm"} :
             Now(h)' \in Int /\ Now(h) <= Now(h)'
<1> USE DEF Now, Hosts, ChainTypeOK
<1>1. skew' = skew /\ (time' = time \/ time' = time + 1)
    BY DEF ChainNext, chain, tokens, entry, keys, IssueIdentity, IssueNumber, ReleaseNumber, IssueGrant,
           ReserveGrant, IssueTicket, Redeem, Publish, Switch, Retire, ChainTick
<1> QED BY <1>1, CredentialsAssumption

-----------------------------------------------------------------------------
LEMMA NextChainTypeOK == ASSUME ChainTypeOK, [ChainNext]_chain PROVE ChainTypeOK'
<1> USE DEF ChainTypeOK, Times
<1>0. \A h \in {"verifier", "queue", "gateway", "realm"} : Now(h) \in Int
    BY ClocksClose
<1>1. ASSUME NEW l \in Logins, IssueIdentity(l) PROVE ChainTypeOK'
    BY <1>0, <1>1, CredentialsAssumption DEF IssueIdentity, entry, keys
<1>2. ASSUME NEW l \in Logins, IssueNumber(l) PROVE ChainTypeOK'
    BY <1>0, <1>2, CredentialsAssumption DEF IssueNumber, Earlier, entry, keys
<1>3. ASSUME NEW l \in Logins, ReleaseNumber(l) PROVE ChainTypeOK'
    BY <1>0, <1>3 DEF ReleaseNumber, entry, keys
<1>4. ASSUME NEW l \in Logins, IssueGrant(l) PROVE ChainTypeOK'
    BY <1>0, <1>4, CredentialsAssumption DEF IssueGrant, Earlier, entry, keys
<1>5. ASSUME NEW g \in grants, ReserveGrant(g) PROVE ChainTypeOK'
    BY <1>5 DEF ReserveGrant, tokens, keys
<1>6. ASSUME NEW l \in Logins, IssueTicket(l) PROVE ChainTypeOK'
    BY <1>0, <1>6, CredentialsAssumption DEF IssueTicket, tokens, keys
<1>7. ASSUME NEW l \in Logins, Redeem(l) PROVE ChainTypeOK'
    BY <1>7 DEF Redeem, tokens, keys
<1>8. CASE Publish \/ Switch \/ Retire
    BY <1>8 DEF Publish, Switch, Retire, tokens, entry
<1>9. CASE ChainTick
    BY <1>9 DEF ChainTick, tokens, entry, keys
<1>10. CASE UNCHANGED chain
    BY <1>10 DEF chain, tokens, entry, keys
<1> QED BY <1>1, <1>2, <1>3, <1>4, <1>5, <1>6, <1>7, <1>8, <1>9, <1>10 DEF ChainNext

(* The guard: only Redeem looks at it, and what it forgets is over. *)
LEMMA NextGuarded ==
    ASSUME ChainTypeOK, Guarded, [ChainNext]_chain
    PROVE  Guarded'
<1>0. Now("realm") \in Int /\ Now("realm")' \in Int /\ Now("realm") <= Now("realm")' /\ Leeway \in Nat
    BY ClocksClose, ClocksGoOn
<1>1. ASSUME NEW l \in Logins, IssueTicket(l) PROVE Guarded'
    <2>1. l \notin redeemed
        BY <1>1 DEF IssueTicket, Guarded
    <2>2. Now("realm")' = Now("realm")
        BY <1>1 DEF IssueTicket, Now
    <2> QED BY <1>1, <2>1, <2>2 DEF IssueTicket, Guarded, ChainTypeOK
<1>2. ASSUME NEW l \in Logins, Redeem(l) PROVE Guarded'
    <2> DEFINE kept == {m \in consumed : Remembered(m, Now("realm"))}
    <2>1. /\ consumed' = kept \cup {l} /\ ticket' = ticket /\ Now("realm")' = Now("realm")
          /\ redeemed' = IF l \in kept THEN redeemed ELSE redeemed \cup {l}
          /\ twice' = IF l \in redeemed \ kept THEN twice \cup {l} ELSE twice
          /\ ticket[l] # None /\ Now("realm") <= ticket[l] + Leeway
        BY <1>2 DEF Redeem, TicketValid, tokens, Now
    <2>2. ASSUME NEW m \in redeemed PROVE m \in kept \/ Now("realm") > ticket[m] + Leeway
        <3>1. m \in Logins /\ ticket[m] \in Int
            BY DEF Guarded, ChainTypeOK
        <3> QED BY <3>1, <1>0 DEF Guarded, Remembered
    <2>3. l \notin redeemed \ kept
        <3>1. ticket[l] \in Int
            BY <2>1 DEF ChainTypeOK
        <3> QED BY <1>0, <2>1, <2>2, <3>1
    <2> QED BY <2>1, <2>2, <2>3 DEF Guarded
<1>3. CASE ChainTick
    <2> SUFFICES ASSUME NEW l \in redeemed
                 PROVE  ticket[l] # None /\ (l \in consumed \/ Now("realm")' > ticket[l] + Leeway)
        BY <1>3 DEF ChainTick, Guarded, entry
    <2>1. l \in Logins /\ ticket[l] \in Int
        BY DEF Guarded, ChainTypeOK
    <2> QED BY <1>0, <2>1 DEF Guarded
<1>4. CASE UNCHANGED <<time, skew, ticket, consumed, redeemed, twice>>
    BY <1>4 DEF Guarded, Now
<1> QED
    BY <1>1, <1>2, <1>3, <1>4
    DEF ChainNext, chain, IssueIdentity, IssueNumber, ReleaseNumber, IssueGrant, ReserveGrant, Publish, Switch,
        Retire, tokens, entry, keys

-----------------------------------------------------------------------------
(* What the number, the release and the grant take from the credential     *)
(* before them stays so: none of them is issued again with other times.    *)
LEMMA NextChainBound ==
    ASSUME ChainTypeOK, ChainBound, [ChainNext]_chain
    PROVE  ChainBound'
<1>0. /\ \A h \in {"verifier", "queue"} :
           Now(h) \in Int /\ Now(h)' \in Int /\ Now(h) <= Now(h)'
      /\ GrantWindow \in Nat /\ Leeway \in Nat
    BY ClocksClose, ClocksGoOn
<1>1. ASSUME NEW l \in Logins, IssueIdentity(l) PROVE ChainBound'
    <2>1. /\ identity' = [identity EXCEPT ![l] =
               [iat |-> Now("verifier"), exp |-> Now("verifier") + IdentityTtl]]
          /\ identity[l] = None
          /\ UNCHANGED <<number, batch, grants>>
          /\ Now("verifier")' = Now("verifier") /\ Now("queue")' = Now("queue")
        BY <1>1 DEF IssueIdentity, Now
    <2>2. \A m \in Logins : m # l => identity'[m] = identity[m]
        BY <2>1 DEF ChainTypeOK
    <2>3. identity'[l].iat = Now("verifier")
        BY <2>1 DEF ChainTypeOK
    <2>4. \A g \in grants : g.login \in Logins /\ g.login # l
        BY <2>1 DEF ChainBound, ChainTypeOK
    <2>5. \A m \in Logins : number[m] # None => m # l
        BY <2>1 DEF ChainBound
    <2> QED BY <1>0, <2>1, <2>2, <2>3, <2>4, <2>5 DEF ChainBound
<1>2. ASSUME NEW l \in Logins, IssueNumber(l) PROVE ChainBound'
    <2>1. identity[l] \in Times
        BY <1>2 DEF IssueNumber, ChainTypeOK
    <2> QED BY <1>0, <1>2, <2>1, CredentialsAssumption
            DEF IssueNumber, ChainBound, Earlier, Now, ChainTypeOK, Times
<1>3. ASSUME NEW l \in Logins, ReleaseNumber(l) PROVE ChainBound'
    BY <1>0, <1>3 DEF ReleaseNumber, ChainBound, Now, ChainTypeOK
<1>4. ASSUME NEW l \in Logins, IssueGrant(l) PROVE ChainBound'
    <2> DEFINE new == [login |-> l, iat |-> batch[l], kid |-> key,
                       exp |-> Earlier(number[l].exp, batch[l] + GrantWindow)]
    <2>1. /\ number[l] \in Times /\ identity[l] \in Times /\ identity[l] # None
          /\ number[l].exp <= identity[l].exp
          /\ batch[l] \in Int /\ batch[l] <= Now("queue") /\ batch[l] <= number[l].exp
        BY <1>4 DEF IssueGrant, ChainBound, ChainTypeOK
    <2>2. /\ new.exp <= identity[new.login].exp
          /\ new.iat <= Now("queue") /\ new.iat <= new.exp /\ new.exp <= new.iat + GrantWindow
        BY <1>0, <2>1 DEF Earlier, Times
    <2>3. grants' = grants \cup {new} /\ UNCHANGED <<identity, number, batch>>
          /\ Now("verifier")' = Now("verifier") /\ Now("queue")' = Now("queue")
        BY <1>4 DEF IssueGrant, Now
    <2> QED BY <2>1, <2>2, <2>3 DEF ChainBound
<1>5. CASE ChainTick
    <2>1. /\ UNCHANGED <<identity, number, batch, grants>>
          /\ \A l \in Logins : identity[l] # None => identity[l].iat \in Int
          /\ \A l \in Logins : batch[l] # None => batch[l] \in Int
          /\ \A g \in grants : g.iat \in Int
        BY <1>5 DEF ChainTick, tokens, ChainTypeOK, Times
    <2> QED BY <1>0, <2>1 DEF ChainBound
<1>6. CASE UNCHANGED <<time, skew, identity, number, batch, grants>>
    BY <1>6 DEF ChainBound, Now
<1> QED
    BY <1>1, <1>2, <1>3, <1>4, <1>5, <1>6
    DEF ChainNext, chain, ReserveGrant, IssueTicket, Redeem, Publish, Switch, Retire, tokens, entry, keys

(* The change of the key: a grant under the old one is from before the     *)
(* switch, so it is over when the old one is withdrawn.                    *)
LEMMA NextKeysKnown ==
    ASSUME ChainTypeOK, ChainBound, KeysKnown, [ChainNext]_chain
    PROVE  KeysKnown'
<1>0. /\ Now("queue") \in Int /\ time <= Now("queue") /\ Now("queue") = time + skew["queue"]
      /\ Now("queue") <= time + Leeway
      /\ Now("queue")' \in Int /\ Now("queue") <= Now("queue")'
      /\ GrantWindow \in Nat /\ Leeway \in Nat /\ time \in Int /\ switched \in Int /\ key \in Int
      /\ skew["queue"] \in Int /\ skew["queue"] <= Leeway
      /\ \A g \in grants : g.iat \in Int /\ g.exp \in Int /\ g.kid \in Int
    BY ClocksClose, ClocksGoOn DEF Now, ChainTypeOK, Hosts
<1>1. ASSUME NEW l \in Logins, IssueGrant(l) PROVE KeysKnown'
    <2> DEFINE new == [login |-> l, iat |-> batch[l], kid |-> key,
                       exp |-> Earlier(number[l].exp, batch[l] + GrantWindow)]
    <2>1. grants' = grants \cup {new} /\ UNCHANGED <<time, skew, key, ring, switched>>
          /\ Now("queue")' = Now("queue")
        BY <1>1 DEF IssueGrant, Now, keys
    <2>2. new.kid = key /\ key \in ring
        BY DEF KeysKnown
    <2> HIDE DEF new
    <2> QED BY <1>0, <2>1, <2>2 DEF KeysKnown
<1>2. CASE Publish
    BY <1>0, <1>2 DEF Publish, KeysKnown, tokens, Now
<1>3. CASE Switch
    <2>1. key' = key + 1 /\ switched' = time /\ ring' = ring /\ grants' = grants
          /\ time' = time /\ skew' = skew /\ Now("queue")' = Now("queue")
        BY <1>3 DEF Switch, tokens, Now
    <2>2. ring = {key, key + 1}
        BY <1>0, <1>3 DEF Switch, KeysKnown
    <2>3. key' - 1 = key
        BY <1>0, <2>1
    <2>4. ring' \in {{key'}, {key', key' + 1}, {key' - 1, key'}}
        BY <2>1, <2>2, <2>3
    <2>5. ASSUME NEW g \in grants
          PROVE  /\ g.kid <= key' /\ g.iat <= switched' + skew["queue"]
                 /\ g.kid \in ring' \/ g.exp < Now("queue")'
        BY <1>0, <2>1 DEF KeysKnown, ChainBound
    <2> QED BY <1>0, <2>1, <2>4, <2>5 DEF KeysKnown
<1>4. CASE Retire
    <2>1. key' = key /\ switched' = switched /\ ring' = {key} /\ grants' = grants
          /\ time' = time /\ skew' = skew /\ Now("queue")' = Now("queue")
          /\ time > switched + GrantWindow + Leeway
        BY <1>4 DEF Retire, tokens, Now
    <2>2. ASSUME NEW g \in grants, g.kid # key PROVE g.exp < Now("queue")
        <3>1. g.iat <= switched + skew["queue"]
            BY <1>0, <2>2 DEF KeysKnown
        <3>2. g.exp <= g.iat + GrantWindow
            BY DEF ChainBound
        <3> QED BY <1>0, <2>1, <3>1, <3>2
    <2> QED BY <2>1, <2>2 DEF KeysKnown
<1>5. CASE ChainTick
    <2>1. UNCHANGED <<key, ring, switched, grants, skew>> /\ time' = time + 1
        BY <1>5 DEF ChainTick, tokens, keys
    <2> QED BY <1>0, <2>1 DEF KeysKnown
<1>6. CASE UNCHANGED <<time, skew, grants, key, ring, switched>>
    BY <1>6 DEF KeysKnown, Now
<1> QED
    BY <1>1, <1>2, <1>3, <1>4, <1>5, <1>6
    DEF ChainNext, chain, IssueIdentity, IssueNumber, ReleaseNumber, ReserveGrant, IssueTicket, Redeem,
        tokens, entry, keys

-----------------------------------------------------------------------------
LEMMA InitChainInv == ASSUME ChainInit PROVE ChainInv
<1>1. ChainTypeOK
    BY CredentialsAssumption DEF ChainInit, ChainTypeOK
<1>2. Guarded /\ ChainBound
    BY DEF ChainInit, Guarded, ChainBound
<1>3. KeysKnown
    BY DEF ChainInit, KeysKnown
<1> QED BY <1>1, <1>2, <1>3 DEF ChainInv

LEMMA NextChainInv == ASSUME ChainInv, [ChainNext]_chain PROVE ChainInv'
BY NextChainTypeOK, NextGuarded, NextChainBound, NextKeysKnown DEF ChainInv

LEMMA ChainInvariance == ChainSpec => []ChainInv
BY InitChainInv, NextChainInv, PTL DEF ChainSpec

(* SessionTickets::redeem accepts a ticket once, however the clocks go and *)
(* whenever the guard forgets, as long as the realm is not restarted.      *)
THEOREM Redeemed == ChainSpec => []RedeemedOnce
<1>1. ChainInv => RedeemedOnce
    BY DEF ChainInv, Guarded, RedeemedOnce
<1> QED BY ChainInvariance, <1>1, PTL

(* What is still good by the clock of its issuer is accepted by the next   *)
(* host, over clocks that are the leeway apart and any change of the key,  *)
(* and an admission is remembered as long as its credentials are accepted. *)
THEOREM CredentialsAccepted == ChainSpec => []GoodAccepted
<1>1. ASSUME ChainInv PROVE GoodAccepted
    <2>0. /\ Leeway \in Nat /\ GrantWindow \in Nat /\ time \in Int
          /\ \A h \in {"verifier", "queue", "gateway", "realm"} :
               Now(h) \in Int /\ time <= Now(h) /\ Now(h) <= time + Leeway
        BY <1>1, ClocksClose DEF ChainInv, ChainTypeOK
    <2>1. ASSUME NEW l \in Logins, identity[l] # None
          PROVE  /\ identity[l].iat \in Int /\ identity[l].exp \in Int
                 /\ \A h \in {"queue", "gateway"} : identity[l].iat <= Now(h) + Leeway
        <3>1. identity[l] \in Times /\ identity[l].iat <= Now("verifier")
            BY <1>1, <2>1 DEF ChainInv, ChainTypeOK, ChainBound
        <3> QED BY <2>0, <3>1 DEF Times
    <2>2. ASSUME NEW l \in Logins, identity[l] # None, Now("verifier") <= identity[l].exp
          PROVE  Current(identity[l], Now("queue"))
        BY <2>0, <2>1, <2>2 DEF Current
    <2>3. ASSUME NEW l \in Logins, ticket[l] # None, Now("gateway") <= ticket[l]
          PROVE  TicketValid(l, Now("realm"))
        <3>1. ticket[l] \in Int
            BY <1>1, <2>3 DEF ChainInv, ChainTypeOK
        <3> QED BY <2>0, <2>3, <3>1 DEF TicketValid
    <2>4. ASSUME NEW g \in grants
          PROVE  /\ Now("queue") <= g.exp => Reservable(g, Now("gateway"))
                 /\ Reservable(g, Now("gateway")) => Now("gateway") <= consume_until(g)
        <3>1. /\ g.login \in Logins /\ g.iat \in Int /\ g.exp \in Int
              /\ identity[g.login] # None /\ g.exp <= identity[g.login].exp
              /\ g.iat <= Now("queue") /\ g.iat <= g.exp /\ g.exp <= g.iat + GrantWindow
              /\ g.kid \in ring \/ g.exp < Now("queue")
            BY <1>1 DEF ChainInv, ChainTypeOK, ChainBound, KeysKnown
        <3>2. /\ identity[g.login].iat \in Int /\ identity[g.login].exp \in Int
              /\ identity[g.login].iat <= Now("gateway") + Leeway
            BY <2>1, <3>1
        <3> QED BY <2>0, <3>1, <3>2
                DEF Reservable, GrantValid, Current, consume_until, Earlier
    <2> QED BY <2>2, <2>3, <2>4 DEF GoodAccepted
<1> QED BY ChainInvariance, <1>1, PTL

-----------------------------------------------------------------------------
(* The transports.  Types. *)
EventType == [kind : {"Opened", "Message", "Closed", "Moved"}, session : Sessions, frame : Nat]

ConnType ==
    [sent : Nat, cuts : SUBSET Nat, fin : BOOLEAN, rst : BOOLEAN, pulled : Nat,
     read : Nat, out : Int, sock : Int, got : Int]

TlsReasons ==
    {"unknown", "peer_closed", "tls_handshake_failed", "tls_handshake_timeout",
     "idle_timeout", "frame_too_large", "receive_failed", "flush_failed",
     "transport_error", "send_failed", "application_requested"}

EntryType ==
    [stage : {"away", "elsewhere", "dialing", "handshake", "open", "closed", "refused"},
     c : ConnType, wantsWrite : BOOLEAN, closing : BOOLEAN, reason : TlsReasons]

PollFields == {"at", "ready", "served", "active", "closes", "batch"}

TlsTypes ==
    /\ conns \in [TlsPeers -> EntryType]
    /\ DOMAIN poll = PollFields
    /\ poll = [at |-> poll.at, ready |-> poll.ready, served |-> poll.served,
               active |-> poll.active, closes |-> poll.closes, batch |-> poll.batch]
    /\ poll.at \in {"rest", "serve"}
    /\ poll.served \subseteq Held /\ DOMAIN poll.ready \subseteq Held \ poll.served
    /\ poll.closes \subseteq poll.served \X TlsReasons
    /\ poll.batch \in Seq(EventType)

StateType ==
    [stage : {"away", "elsewhere", "known", "unconfigured", "refused", "gone"},
     connected : BOOLEAN, stream : BOOLEAN, closing : BOOLEAN,
     reason : {"unknown", "overloaded", "application_requested", "transport_error",
               "peer_requested"},
     shut : BOOLEAN, ended : BOOLEAN, sent : Nat, input : Nat, decoded : Nat,
     receiving : BOOLEAN, moved : BOOLEAN, pending : Int]

QuicTypes == states \in [QuicPeers -> StateType] /\ events \in Seq(EventType)

ServiceTypes ==
    /\ inbox \in Seq(EventType)
    /\ phase \in [Sessions -> {"unknown", "open", "over"}] /\ told \in [Sessions -> Nat]

-----------------------------------------------------------------------------
(* What a sequence of events says of a session.                            *)

Says(q, p, s, k)   == q[p].session = s /\ q[p].kind = k
Has(q, s, k)       == \E p \in 1..Len(q) : Says(q, p, s, k)
Before(q, p, s, k) == \E r \in 1..(p - 1) : Says(q, r, s, k)
HasFrame(q, s, m)  == \E p \in 1..Len(q) : Says(q, p, s, "Message") /\ q[p].frame = m
UpTo(q, s, n)      == \A p \in 1..Len(q) : Says(q, p, s, "Message") => q[p].frame <= n

(* The event at p is a step of the contract for s, when those before it    *)
(* have been handled: s is in phase ph now, was told frame n last, and is  *)
(* given up if g.                                                          *)
Fits(q, p, s, ph, n, g) ==
    /\ q[p].kind = "Opened" =>
         ph = "unknown" /\ ~Before(q, p, s, "Opened") /\ ~Before(q, p, s, "Closed")
    /\ q[p].kind \in {"Message", "Closed"} =>
         /\ ph # "over" /\ ~Before(q, p, s, "Closed")
         /\ g \/ ph = "open" \/ Before(q, p, s, "Opened")
    /\ q[p].kind = "Message" =>
         /\ q[p].frame > n
         /\ \A r \in 1..(p - 1) : Says(q, r, s, "Message") => q[r].frame < q[p].frame
         /\ \/ g
            \/ q[p].frame = n + 1
            \/ \E r \in 1..(p - 1) : Says(q, r, s, "Message") /\ q[r].frame = q[p].frame - 1

Flow(q, s, ph, n, g) == \A p \in 1..Len(q) : q[p].session = s => Fits(q, p, s, ph, n, g)

-----------------------------------------------------------------------------
(* The invariant.                                                          *)

Given(st) == st.reason \in {"overloaded", "application_requested"}
GivenUp   == {s \in QuicPeers : Given(states[s])}

QuicStream == inbox \o events
TlsStream  == inbox \o poll.batch

(* What the service has been told and will be told of a QUIC connection. *)
QuicReported(q, s, ph, n, st) ==
    /\ Flow(q, s, ph, n, Given(st))
    /\ ph # "unknown" \/ Has(q, s, "Opened") \/ Has(q, s, "Closed") => st.connected
    /\ ph = "over" \/ Has(q, s, "Closed") => st.ended
    /\ st.connected /\ ~st.ended /\ ~Given(st) => ph = "open" \/ Has(q, s, "Opened")
    /\ n <= st.decoded /\ UpTo(q, s, st.decoded)
    /\ ~Given(st) => n = st.decoded \/ HasFrame(q, s, st.decoded)

QuicSane(s, st) ==
    /\ st.decoded <= st.input /\ st.input <= st.sent /\ st.sent <= QuicFrames[s]
    /\ st.ended => ~st.receiving
    /\ st.stream \/ st.receiving => st.connected
    /\ st.closing /\ ~st.ended => Given(st)
    /\ Given(st) => st.shut

QuicPart ==
    /\ QuicTypes
    /\ \A p \in 1..Len(events) : events[p].session \in QuicPeers
    /\ \A s \in QuicPeers : QuicReported(QuicStream, s, phase[s], told[s], states[s])
                           /\ QuicSane(s, states[s])

(* The same of a TLS connection. *)
TlsReported(q, s, ph, n, e) ==
    /\ Flow(q, s, ph, n, FALSE)
    /\ ph # "unknown" \/ Has(q, s, "Opened") => e.stage \in {"open", "closed"}
    /\ ph = "over" \/ Has(q, s, "Closed") => e.stage = "closed"
    /\ e.stage = "open" => ph = "open" \/ Has(q, s, "Opened")
    /\ UpTo(q, s, Frames[s])

(* All frames before m are told or on their way. *)
Heard(q, s, n, m) == n <= m /\ UpTo(q, s, m) /\ (n = m \/ HasFrame(q, s, m))

TlsSane(s, e) ==
    /\ e.c.read <= e.c.sent /\ e.c.sent <= Frames[s] * FrameSize
    /\ e.c.sent \in e.c.cuts \cup {0}
    /\ e.stage \notin {"open", "closed"} => e.c.read = 0 /\ e.c.out = 0
    /\ e.stage \notin {"handshake", "open", "closed"} => e.reason = "unknown"

(* What was read of a connection is reported, and if its peer has closed   *)
(* its side everything was read; closing are those this poll will close.*)
TlsEnd(q, s, ph, n, e, closing) ==
    /\ e.stage # "closed" /\ (s \in closing => e.reason = "peer_closed") =>
         Heard(q, s, n, e.c.read \div FrameSize)
    /\ e.stage = "handshake" /\ e.reason = "peer_closed" => s \in closing
    /\ e.stage = "open" /\ e.reason = "peer_closed" => e.c.fin /\ e.c.read = e.c.sent
    /\ e.stage = "closed" /\ e.reason = "peer_closed" =>
         /\ ~Has(q, s, "Message")
         /\ ph # "unknown" \/ Has(q, s, "Opened") => n = e.c.sent \div FrameSize

(* The sessions that this poll closes.                                     *)
Closing == {p[1] : p \in poll.closes}

(* The poll. *)
PollOk ==
    /\ poll.at = "rest" => poll = Resting
    /\ poll.at = "serve" => inbox = <<>>
    /\ \A p \in 1..Len(poll.batch) : poll.batch[p].session \in poll.served
    /\ \A p \in poll.closes :
         /\ conns[p[1]].reason = p[2]
         /\ p[2] = "peer_closed" => ~Has(poll.batch, p[1], "Message")
    /\ \A s \in DOMAIN poll.ready :
         "peer_closed" \in poll.ready[s] => "readable" \in poll.ready[s]

TlsPart ==
    /\ TlsTypes /\ PollOk
    /\ \A s \in TlsPeers :
         /\ TlsReported(TlsStream, s, phase[s], told[s], conns[s])
         /\ TlsSane(s, conns[s])
         /\ TlsEnd(TlsStream, s, phase[s], told[s], conns[s], Closing)

IInv == ServiceTypes /\ QuicPart /\ TlsPart

-----------------------------------------------------------------------------
(* Sequences.                                                              *)

(* The elements of two joined sequences. *)
LEMMA CatType == ASSUME NEW S, NEW a \in Seq(S), NEW b \in Seq(S)
                 PROVE  /\ a \o b \in Seq(S) /\ Len(a \o b) = Len(a) + Len(b)
                        /\ Len(a) \in Nat /\ Len(b) \in Nat
                        /\ \A i \in 1..Len(a) : (a \o b)[i] = a[i]
                        /\ \A i \in 1..Len(b) : (a \o b)[Len(a) + i] = b[i]
OBVIOUS

(* A place in two joined sequences is in the one or in the other. *)
LEMMA CatPlace == ASSUME NEW S, NEW a \in Seq(S), NEW b \in Seq(S), NEW p \in 1..Len(a \o b)
                  PROVE  \/ p \in 1..Len(a) /\ (a \o b)[p] = a[p]
                         \/ \E j \in 1..Len(b) : p = Len(a) + j /\ (a \o b)[p] = b[j]
<1>1. p \in 1..(Len(a) + Len(b)) /\ Len(a) \in Nat /\ Len(b) \in Nat
  BY CatType
<1>2. CASE p <= Len(a)
  BY <1>1, <1>2, CatType
<1>3. CASE p > Len(a)
  <2>1. p - Len(a) \in 1..Len(b) /\ p = Len(a) + (p - Len(a))
    BY <1>1, <1>3
  <2> QED BY <2>1, CatType
<1> QED BY <1>1, <1>2, <1>3

(* The same of every place at once, of sequences of events. *)
LEMMA EventsPlace == ASSUME NEW a \in Seq(EventType), NEW b \in Seq(EventType)
                     PROVE  \A i \in 1..Len(a \o b) : \/ i \in 1..Len(a) /\ (a \o b)[i] = a[i]
                                                      \/ \E j \in 1..Len(b) : (a \o b)[i] = b[j]
<1>1. ASSUME NEW p \in 1..Len(a \o b)
      PROVE  \/ p \in 1..Len(a) /\ (a \o b)[p] = a[p]
             \/ \E j \in 1..Len(b) : p = Len(a) + j /\ (a \o b)[p] = b[j]
  BY CatPlace
<1> QED BY <1>1

(* Sequences with the same elements are the same. *)
LEMMA SameSeq == ASSUME NEW S, NEW a \in Seq(S), NEW b \in Seq(S), Len(a) = Len(b),
                        \A i \in 1..Len(a) : a[i] = b[i]
                 PROVE  a = b
OBVIOUS

(* To append is to join a sequence of one. *)
LEMMA AppendCat == ASSUME NEW S, NEW a \in Seq(S), NEW e \in S
                   PROVE  Append(a, e) = a \o <<e>> /\ <<e>> \in Seq(S) /\ Len(<<e>>) = 1
                          /\ <<e>>[1] = e
<1>1. <<e>> \in Seq(S) /\ Len(<<e>>) = 1 /\ <<e>>[1] = e
  OBVIOUS
<1>2. Append(a, e) \in Seq(S) /\ Len(Append(a, e)) = Len(a) + 1 /\ Len(a) \in Nat
      /\ \A i \in 1..Len(a) : Append(a, e)[i] = a[i]
      /\ Append(a, e)[Len(a) + 1] = e
  OBVIOUS
<1> DEFINE l == Append(a, e)
           r == a \o <<e>>
<1>3. r \in Seq(S) /\ Len(r) = Len(l)
  BY <1>1, <1>2, CatType
<1>4. ASSUME NEW i \in 1..Len(l) PROVE l[i] = r[i]
  <2>1. i \in 1..Len(a) \/ i = Len(a) + 1
    BY <1>2
  <2> QED BY <1>1, <1>2, <2>1, CatType
<1>5. l = r
  <2> HIDE DEF l, r
  <2> QED BY <1>2, <1>3, <1>4, SameSeq DEF l
<1> QED BY <1>1, <1>5

(* Joining is associative, and the empty sequence adds nothing. *)
LEMMA CatJoins == ASSUME NEW S, NEW a \in Seq(S), NEW b \in Seq(S), NEW c \in Seq(S)
                  PROVE  (a \o b) \o c = a \o (b \o c)
<1> DEFINE l == (a \o b) \o c
           r == a \o (b \o c)
<1>1. /\ a \o b \in Seq(S) /\ b \o c \in Seq(S) /\ Len(a \o b) = Len(a) + Len(b)
      /\ Len(b \o c) = Len(b) + Len(c) /\ Len(a) \in Nat /\ Len(b) \in Nat /\ Len(c) \in Nat
  BY CatType
<1>2. l \in Seq(S) /\ r \in Seq(S) /\ Len(l) = Len(a) + Len(b) + Len(c) /\ Len(r) = Len(l)
  BY <1>1, CatType
<1>3. ASSUME NEW i \in 1..Len(l) PROVE l[i] = r[i]
  <2>1. CASE i <= Len(a)
    BY <1>1, <2>1, CatType
  <2>2. CASE i > Len(a) /\ i <= Len(a) + Len(b)
    <3> DEFINE j == i - Len(a)
    <3>1. j \in 1..Len(b) /\ j \in 1..Len(b \o c) /\ i = Len(a) + j /\ i \in 1..Len(a \o b)
      BY <1>1, <2>2
    <3>2. l[i] = (a \o b)[i] /\ (a \o b)[Len(a) + j] = b[j]
      BY <1>1, <3>1, CatType
    <3>3. r[Len(a) + j] = (b \o c)[j] /\ (b \o c)[j] = b[j]
      BY <1>1, <3>1, CatType
    <3> HIDE DEF j, l, r
    <3> QED BY <3>1, <3>2, <3>3
  <2>3. CASE i > Len(a) + Len(b)
    <3> DEFINE j == i - (Len(a) + Len(b))
    <3>1. j \in 1..Len(c) /\ i = Len(a \o b) + j /\ i = Len(a) + (Len(b) + j)
          /\ Len(b) + j \in 1..Len(b \o c)
      BY <1>1, <1>2, <2>3
    <3>2. l[Len(a \o b) + j] = c[j]
      BY <1>1, <3>1, CatType
    <3>3. r[Len(a) + (Len(b) + j)] = (b \o c)[Len(b) + j] /\ (b \o c)[Len(b) + j] = c[j]
      BY <1>1, <3>1, CatType
    <3> HIDE DEF j, l, r
    <3> QED BY <3>1, <3>2, <3>3
  <2> QED BY <1>1, <2>1, <2>2, <2>3
<1> HIDE DEF l, r
<1>4. l = r
  BY <1>2, <1>3, SameSeq
<1> QED BY <1>4 DEF l, r

(* Joining with the empty sequence changes nothing. *)
LEMMA CatNothing == ASSUME NEW S, NEW s \in Seq(S) PROVE <<>> \o s = s /\ s \o <<>> = s
<1>1. <<>> \in Seq(S) /\ Len(<<>>) = 0
  OBVIOUS
<1>2. Len(<<>> \o s) = Len(s) /\ <<>> \o s \in Seq(S) /\ \A i \in 1..Len(s) : (<<>> \o s)[i] = s[i]
  OBVIOUS
<1>3. Len(s \o <<>>) = Len(s) /\ s \o <<>> \in Seq(S) /\ \A i \in 1..Len(s) : (s \o <<>>)[i] = s[i]
  OBVIOUS
<1>4. <<>> \o s = s
  BY <1>2, SameSeq
<1>5. s \o <<>> = s
  BY <1>3, SameSeq
<1> QED BY <1>4, <1>5

(* The head of the first is the head of both. *)
LEMMA CatTail == ASSUME NEW S, NEW a \in Seq(S), NEW b \in Seq(S), a # <<>>
                 PROVE  /\ Tail(a) \o b = Tail(a \o b) /\ Head(a \o b) = Head(a)
                        /\ a \o b # <<>>
<1>1. /\ Tail(a) \in Seq(S) /\ Len(Tail(a)) = Len(a) - 1
      /\ Len(a) \in Nat \ {0} /\ Len(b) \in Nat
  OBVIOUS
<1>2. a \o b \in Seq(S) /\ Len(a \o b) = Len(a) + Len(b) /\ a \o b # <<>>
      /\ (a \o b)[1] = a[1]
  BY <1>1, CatType
<1>3. Head(a \o b) = Head(a)
  BY <1>1, <1>2
<1> DEFINE l == Tail(a) \o b
           r == Tail(a \o b)
<1>4. l \in Seq(S) /\ r \in Seq(S) /\ Len(l) = Len(a) + Len(b) - 1 /\ Len(r) = Len(l)
      /\ \A i \in 1..Len(r) : r[i] = (a \o b)[i + 1]
  BY <1>1, <1>2, CatType
<1>5. ASSUME NEW i \in 1..Len(l) PROVE l[i] = r[i]
  <2>1. r[i] = (a \o b)[i + 1]
    BY <1>4
  <2>2. CASE i <= Len(a) - 1
    <3>1. l[i] = Tail(a)[i] /\ Tail(a)[i] = a[i + 1]
      BY <1>1, <2>2, CatType
    <3>2. (a \o b)[i + 1] = a[i + 1]
      BY <1>1, <2>2, CatType
    <3> QED BY <2>1, <3>1, <3>2
  <2>3. CASE i > Len(a) - 1
    <3> DEFINE j == i - (Len(a) - 1)
    <3>1. j \in 1..Len(b) /\ i = Len(Tail(a)) + j /\ i + 1 = Len(a) + j
      BY <1>1, <1>4, <2>3
    <3>2. l[Len(Tail(a)) + j] = b[j] /\ (a \o b)[Len(a) + j] = b[j]
      BY <1>1, <3>1, CatType
    <3> HIDE DEF j, l, r
    <3> QED BY <2>1, <3>1, <3>2
  <2> QED BY <1>1, <2>2, <2>3
<1> HIDE DEF l, r
<1>6. l = r
  BY <1>4, <1>5, SameSeq
<1> QED BY <1>2, <1>3, <1>6 DEF l, r

-----------------------------------------------------------------------------
(* What events say, and the flow of them.                                  *)

(* What two joined sequences say. *)
LEMMA CatSays ==
    ASSUME NEW q \in Seq(EventType), NEW r \in Seq(EventType), NEW s
    PROVE  /\ \A k : Has(q \o r, s, k) <=> Has(q, s, k) \/ Has(r, s, k)
           /\ \A m : HasFrame(q \o r, s, m) <=> HasFrame(q, s, m) \/ HasFrame(r, s, m)
           /\ \A m : UpTo(q \o r, s, m) <=> UpTo(q, s, m) /\ UpTo(r, s, m)
<1> DEFINE l == q \o r
<1>1. \A p \in 1..Len(q) : p \in 1..Len(l) /\ l[p] = q[p]
  BY CatType
<1>2. \A j \in 1..Len(r) : Len(q) + j \in 1..Len(l) /\ l[Len(q) + j] = r[j]
  BY CatType
<1>3. \A p \in 1..Len(l) : \/ p \in 1..Len(q) /\ l[p] = q[p]
                           \/ \E j \in 1..Len(r) : l[p] = r[j]
  BY CatPlace
<1> HIDE DEF l
<1>4. ASSUME NEW k PROVE Has(l, s, k) <=> Has(q, s, k) \/ Has(r, s, k)
  <2>1. Has(l, s, k) => Has(q, s, k) \/ Has(r, s, k)
    BY <1>3 DEF Has, Says
  <2>2. Has(q, s, k) => Has(l, s, k)
    BY <1>1 DEF Has, Says
  <2>3. Has(r, s, k) => Has(l, s, k)
    BY <1>2 DEF Has, Says
  <2> QED BY <2>1, <2>2, <2>3
<1>5. ASSUME NEW m PROVE HasFrame(l, s, m) <=> HasFrame(q, s, m) \/ HasFrame(r, s, m)
  <2>1. HasFrame(l, s, m) => HasFrame(q, s, m) \/ HasFrame(r, s, m)
    BY <1>3 DEF HasFrame, Says
  <2>2. HasFrame(q, s, m) => HasFrame(l, s, m)
    BY <1>1 DEF HasFrame, Says
  <2>3. HasFrame(r, s, m) => HasFrame(l, s, m)
    BY <1>2 DEF HasFrame, Says
  <2> QED BY <2>1, <2>2, <2>3
<1>6. ASSUME NEW m PROVE UpTo(l, s, m) <=> UpTo(q, s, m) /\ UpTo(r, s, m)
  <2>1. UpTo(q, s, m) /\ UpTo(r, s, m) => UpTo(l, s, m)
    BY <1>3 DEF UpTo, Says
  <2>2. UpTo(l, s, m) => UpTo(q, s, m)
    BY <1>1 DEF UpTo, Says
  <2>3. UpTo(l, s, m) => UpTo(r, s, m)
    BY <1>2 DEF UpTo, Says
  <2> QED BY <2>1, <2>2, <2>3
<1> QED BY <1>4, <1>5, <1>6 DEF l

(* What one event says. *)
LEMMA OneSays ==
    ASSUME NEW e \in EventType, NEW s
    PROVE  /\ \A k : Has(<<e>>, s, k) <=> e.session = s /\ e.kind = k
           /\ \A m : HasFrame(<<e>>, s, m) <=> e.session = s /\ e.kind = "Message" /\ e.frame = m
           /\ \A m : UpTo(<<e>>, s, m) <=> (e.session = s /\ e.kind = "Message" => e.frame <= m)
<1> DEFINE q == <<e>>
<1>1. q \in Seq(EventType) /\ Len(q) = 1 /\ q[1] = e
  OBVIOUS
<1> HIDE DEF q
<1>2. 1..Len(q) = {1}
  BY <1>1
<1>3. \A p \in 1..Len(q) : q[p] = e
  BY <1>1, <1>2
<1>4. \A k : Has(q, s, k) <=> e.session = s /\ e.kind = k
  BY <1>2, <1>3 DEF Has, Says
<1>5. \A m : HasFrame(q, s, m) <=> e.session = s /\ e.kind = "Message" /\ e.frame = m
  BY <1>2, <1>3 DEF HasFrame, Says
<1>6. \A m : UpTo(q, s, m) <=> (e.session = s /\ e.kind = "Message" => e.frame <= m)
  BY <1>2, <1>3 DEF UpTo, Says
<1> QED BY <1>4, <1>5, <1>6 DEF q

(* A sequence says what its head and its tail say. *)
LEMMA TailSays ==
    ASSUME NEW q \in Seq(EventType), q # <<>>, NEW s
    PROVE  LET e == Head(q) IN
           /\ \A k : Has(q, s, k) <=> (e.session = s /\ e.kind = k) \/ Has(Tail(q), s, k)
           /\ \A m : HasFrame(q, s, m) <=>
                (e.session = s /\ e.kind = "Message" /\ e.frame = m) \/ HasFrame(Tail(q), s, m)
           /\ \A m : UpTo(q, s, m) <=>
                (e.session = s /\ e.kind = "Message" => e.frame <= m) /\ UpTo(Tail(q), s, m)
<1> DEFINE e == Head(q)
           t == Tail(q)
<1>1. e \in EventType /\ t \in Seq(EventType) /\ q[1] = e
  OBVIOUS
<1>2. Len(t) + 1 = Len(q) /\ Len(t) \in Nat /\ \A i \in 1..Len(t) : t[i] = q[i + 1]
  OBVIOUS
<1> HIDE DEF e, t
<1>3. q = <<e>> \o t
  <2>1. <<e>> \in Seq(EventType) /\ Len(<<e>>) = 1 /\ <<e>>[1] = e
    BY <1>1
  <2>2. <<e>> \o t \in Seq(EventType) /\ Len(<<e>> \o t) = Len(q) /\ (<<e>> \o t)[1] = e
    BY <1>1, <1>2, <2>1, CatType
  <2>3. ASSUME NEW i \in 1..Len(q) PROVE q[i] = (<<e>> \o t)[i]
    <3>1. CASE i = 1
      BY <1>1, <2>2, <3>1
    <3>2. CASE i # 1
      <4>1. i - 1 \in 1..Len(t) /\ i = Len(<<e>>) + (i - 1) /\ i = (i - 1) + 1
        BY <1>2, <2>1, <3>2
      <4> DEFINE h == i - 1
                 o == <<e>>
      <4>2. h \in 1..Len(t) /\ i = Len(o) + h /\ i = h + 1 /\ o \in Seq(EventType)
        BY <2>1, <4>1
      <4> HIDE DEF h, o
      <4>3. (o \o t)[Len(o) + h] = t[h] /\ t[h] = q[h + 1]
        BY <1>1, <1>2, <4>2, CatType
      <4>4. (o \o t)[i] = q[i]
        BY <4>2, <4>3
      <4> QED BY <4>4 DEF o
    <3> QED BY <3>1, <3>2
  <2> QED BY <2>2, <2>3, SameSeq
<1>4. <<e>> \in Seq(EventType)
  BY <1>1
<1> DEFINE o == <<e>>
<1>5. q = o \o t /\ o \in Seq(EventType)
  BY <1>3, <1>4
<1>6. /\ \A k : Has(o, s, k) <=> e.session = s /\ e.kind = k
      /\ \A m : HasFrame(o, s, m) <=> e.session = s /\ e.kind = "Message" /\ e.frame = m
      /\ \A m : UpTo(o, s, m) <=> (e.session = s /\ e.kind = "Message" => e.frame <= m)
  BY <1>1, OneSays
<1> HIDE DEF o
<1>7. /\ \A k : Has(o \o t, s, k) <=> Has(o, s, k) \/ Has(t, s, k)
      /\ \A m : HasFrame(o \o t, s, m) <=> HasFrame(o, s, m) \/ HasFrame(t, s, m)
      /\ \A m : UpTo(o \o t, s, m) <=> UpTo(o, s, m) /\ UpTo(t, s, m)
  BY <1>1, <1>5, CatSays
<1> QED BY <1>5, <1>6, <1>7 DEF e, t

(* A sequence without s says nothing of it. *)
LEMMA SilentSays ==
    ASSUME NEW q, NEW s, \A p \in 1..Len(q) : q[p].session # s
    PROVE  /\ \A k : ~Has(q, s, k)
           /\ \A m : ~HasFrame(q, s, m) /\ UpTo(q, s, m)
           /\ \A ph, n, g : Flow(q, s, ph, n, g)
BY DEF Has, HasFrame, UpTo, Says, Flow

(* What comes before a place depends on nothing behind it. *)
LEMMA FlowJoin ==
    ASSUME NEW q \in Seq(EventType), NEW r \in Seq(EventType), NEW s, NEW ph, NEW n, NEW g \in BOOLEAN,
           Flow(q, s, ph, n, g),
           \A j \in 1..Len(r) : r[j].session = s => Fits(q \o r, Len(q) + j, s, ph, n, g)
    PROVE  Flow(q \o r, s, ph, n, g)
<1> DEFINE l == q \o r
<1>1. \A p \in 1..Len(q) : l[p] = q[p]
  BY CatType
<1>2. ASSUME NEW p \in 1..Len(q), q[p].session = s PROVE Fits(l, p, s, ph, n, g)
  <2>1. \A i \in 1..(p - 1) : l[i] = q[i]
    BY <1>1, CatType
  <2>2. Fits(q, p, s, ph, n, g) /\ l[p] = q[p]
    BY <1>1, <1>2 DEF Flow
  <2>3. \A k : Before(l, p, s, k) <=> Before(q, p, s, k)
    BY <2>1 DEF Before, Says
  <2> HIDE DEF l
  <2> QED BY <2>1, <2>2, <2>3 DEF Fits, Says
<1>3. ASSUME NEW p \in 1..Len(l), l[p].session = s PROVE Fits(l, p, s, ph, n, g)
  <2>1. \/ p \in 1..Len(q) /\ l[p] = q[p]
        \/ \E j \in 1..Len(r) : p = Len(q) + j /\ l[p] = r[j]
    BY CatPlace
  <2> HIDE DEF l
  <2> QED BY <1>2, <1>3, <2>1 DEF l
<1> QED BY <1>3 DEF Flow

(* Events of others do not matter, behind *)
LEMMA FlowOther ==
    ASSUME NEW q \in Seq(EventType), NEW r \in Seq(EventType), NEW s, NEW ph, NEW n, NEW g \in BOOLEAN,
           Flow(q, s, ph, n, g), \A j \in 1..Len(r) : r[j].session # s
    PROVE  Flow(q \o r, s, ph, n, g)
BY FlowJoin

(* or ahead. *)
LEMMA FlowAhead ==
    ASSUME NEW q \in Seq(EventType), NEW r \in Seq(EventType), NEW s, NEW ph, NEW n, NEW g \in BOOLEAN,
           Flow(q, s, ph, n, g), \A j \in 1..Len(r) : r[j].session # s
    PROVE  Flow(r \o q, s, ph, n, g)
<1> DEFINE l == r \o q
<1>1. /\ Len(r) \in Nat /\ Len(q) \in Nat /\ Len(l) = Len(r) + Len(q)
      /\ \A i \in 1..Len(r) : l[i] = r[i]
      /\ \A i \in 1..Len(q) : l[Len(r) + i] = q[i]
  BY CatType
<1>2. \A i \in 1..Len(l) : \/ i \in 1..Len(r) /\ l[i] = r[i]
                           \/ \E j \in 1..Len(q) : i = Len(r) + j /\ l[i] = q[j]
  BY CatPlace
<1>3. ASSUME NEW p \in 1..Len(l), l[p].session = s PROVE Fits(l, p, s, ph, n, g)
  <2>0. \/ p \in 1..Len(r) /\ l[p] = r[p]
        \/ \E j \in 1..Len(q) : p = Len(r) + j /\ l[p] = q[j]
    BY <1>2
  <2> HIDE DEF l
  <2>1. PICK j \in 1..Len(q) : p = Len(r) + j /\ l[p] = q[j]
    BY <1>3, <2>0
  <2>2. Fits(q, j, s, ph, n, g)
    BY <1>3, <2>1 DEF Flow
  <2>3. \A i \in 1..(j - 1) : Len(r) + i \in 1..(p - 1) /\ l[Len(r) + i] = q[i]
    BY <1>1, <2>1
  <2>4. ASSUME NEW i \in 1..(p - 1), l[i].session = s
        PROVE  \E h \in 1..(j - 1) : l[i] = q[h]
    <3>1. CASE i <= Len(r)
      BY <1>1, <2>1, <2>4, <3>1
    <3>2. CASE i > Len(r)
      <4>1. i - Len(r) \in 1..(j - 1) /\ i - Len(r) \in 1..Len(q) /\ i = Len(r) + (i - Len(r))
        BY <1>1, <2>1, <3>2
      <4> QED BY <1>1, <4>1
    <3> QED BY <1>1, <2>1, <3>1, <3>2
  <2>5. ASSUME NEW k PROVE Before(l, p, s, k) <=> Before(q, j, s, k)
    <3>1. Before(l, p, s, k) => Before(q, j, s, k)
      BY <2>4 DEF Before, Says
    <3>2. Before(q, j, s, k) => Before(l, p, s, k)
      BY <2>3 DEF Before, Says
    <3> QED BY <3>1, <3>2
  <2>6. l[p].kind = "Opened" =>
          ph = "unknown" /\ ~Before(l, p, s, "Opened") /\ ~Before(l, p, s, "Closed")
    BY <2>1, <2>2, <2>5 DEF Fits
  <2>7. l[p].kind \in {"Message", "Closed"} =>
          /\ ph # "over" /\ ~Before(l, p, s, "Closed")
          /\ g \/ ph = "open" \/ Before(l, p, s, "Opened")
    BY <2>1, <2>2, <2>5 DEF Fits
  <2>8. ASSUME l[p].kind = "Message"
        PROVE  /\ l[p].frame > n
               /\ \A i \in 1..(p - 1) : Says(l, i, s, "Message") => l[i].frame < l[p].frame
               /\ \/ g
                  \/ l[p].frame = n + 1
                  \/ \E i \in 1..(p - 1) : Says(l, i, s, "Message") /\ l[i].frame = l[p].frame - 1
    <3>1. /\ q[j].frame > n
          /\ \A i \in 1..(j - 1) : Says(q, i, s, "Message") => q[i].frame < q[j].frame
          /\ \/ g
             \/ q[j].frame = n + 1
             \/ \E i \in 1..(j - 1) : Says(q, i, s, "Message") /\ q[i].frame = q[j].frame - 1
      BY <2>1, <2>2, <2>8 DEF Fits
    <3>2. \A i \in 1..(p - 1) : Says(l, i, s, "Message") => l[i].frame < l[p].frame
      BY <2>1, <2>4, <3>1 DEF Says
    <3>3. ASSUME NEW i \in 1..(j - 1), Says(q, i, s, "Message"), q[i].frame = q[j].frame - 1
          PROVE  \E h \in 1..(p - 1) : Says(l, h, s, "Message") /\ l[h].frame = l[p].frame - 1
      BY <2>1, <2>3, <3>3 DEF Says
    <3> QED BY <2>1, <3>1, <3>2, <3>3
  <2> QED BY <2>6, <2>7, <2>8 DEF Fits
<1> QED BY <1>3 DEF Flow

(* One event more of s. *)
LEMMA FlowMore ==
    ASSUME NEW q \in Seq(EventType), NEW e \in EventType, NEW s, NEW ph, NEW n \in Nat, NEW g \in BOOLEAN,
           Flow(q, s, ph, n, g), e.session = s,
           e.kind = "Opened" => ph = "unknown" /\ ~Has(q, s, "Opened") /\ ~Has(q, s, "Closed"),
           e.kind \in {"Message", "Closed"} =>
             ph # "over" /\ ~Has(q, s, "Closed") /\ (g \/ ph = "open" \/ Has(q, s, "Opened")),
           e.kind = "Message" =>
             /\ e.frame > n /\ UpTo(q, s, e.frame - 1)
             /\ g \/ e.frame = n + 1 \/ HasFrame(q, s, e.frame - 1)
    PROVE  Flow(Append(q, e), s, ph, n, g)
<1> DEFINE l == q \o <<e>>
<1>1. Append(q, e) = l /\ <<e>> \in Seq(EventType) /\ Len(<<e>>) = 1 /\ <<e>>[1] = e
  BY AppendCat
<1>2. Len(q) \in Nat /\ l[Len(q) + 1] = e /\ \A i \in 1..Len(q) : l[i] = q[i]
  BY <1>1, CatType
<1>3. Fits(l, Len(q) + 1, s, ph, n, g)
  <2> DEFINE p == Len(q) + 1
  <2>1. 1..(p - 1) = 1..Len(q) /\ l[p] = e
    BY <1>2
  <2> HIDE DEF l, p
  <2>2. \A k : Before(l, p, s, k) <=> Has(q, s, k)
    BY <1>2, <2>1 DEF Before, Has, Says
  <2>3. e.frame \in Nat /\ \A i \in 1..Len(q) : q[i].frame \in Nat
    <3>1. \A i \in 1..Len(q) : q[i] \in EventType
      OBVIOUS
    <3> QED BY <3>1 DEF EventType
  <2>4. ASSUME e.kind = "Message", NEW i \in 1..(p - 1), Says(l, i, s, "Message")
        PROVE  l[i].frame < e.frame
    <3>1. i \in 1..Len(q) /\ l[i] = q[i] /\ q[i].frame <= e.frame - 1
      BY <1>2, <2>1, <2>4 DEF UpTo, Says
    <3> QED BY <2>3, <3>1
  <2>5. ASSUME HasFrame(q, s, e.frame - 1)
        PROVE  \E i \in 1..(p - 1) : Says(l, i, s, "Message") /\ l[i].frame = e.frame - 1
    BY <1>2, <2>1, <2>5 DEF HasFrame, Says
  <2>6. Fits(l, p, s, ph, n, g)
    BY <2>1, <2>2, <2>4, <2>5 DEF Fits
  <2> QED BY <2>6 DEF p
<1>4. \A j \in 1..Len(<<e>>) : Fits(l, Len(q) + j, s, ph, n, g)
  BY <1>1, <1>3
<1>5. Flow(l, s, ph, n, g)
  BY <1>1, <1>4, FlowJoin
<1> QED BY <1>1, <1>5

(* Frames of s that follow on one another. *)
LEMMA FlowRun ==
    ASSUME NEW q \in Seq(EventType), NEW r \in Seq(EventType), NEW s, NEW ph, NEW n \in Nat,
           NEW a \in Nat, Flow(q, s, ph, n, FALSE), ph # "over", ~Has(q, s, "Closed"),
           ph = "open" \/ Has(q, s, "Opened"), n <= a, UpTo(q, s, a), n = a \/ HasFrame(q, s, a),
           \A i \in 1..Len(r) : Says(r, i, s, "Message") /\ r[i].frame = a + i
    PROVE  Flow(q \o r, s, ph, n, FALSE)
<1> DEFINE l == q \o r
<1>1. /\ Len(q) \in Nat /\ Len(r) \in Nat /\ Len(l) = Len(q) + Len(r)
      /\ \A i \in 1..Len(q) : l[i] = q[i]
      /\ \A i \in 1..Len(r) : l[Len(q) + i] = r[i]
  BY CatType
<1>2. \A i \in 1..Len(q) : q[i].frame \in Nat
  <2>1. \A i \in 1..Len(q) : q[i] \in EventType
    OBVIOUS
  <2> QED BY <2>1 DEF EventType
<1>3. \A i \in 1..Len(l) : \/ i \in 1..Len(q) /\ l[i] = q[i]
                           \/ \E h \in 1..Len(r) : i = Len(q) + h /\ l[i] = r[h]
  BY CatPlace
<1> HIDE DEF l
<1>4. ASSUME NEW j \in 1..Len(r) PROVE Fits(l, Len(q) + j, s, ph, n, FALSE)
  <2> DEFINE p == Len(q) + j
  <2>1. l[p] = r[j] /\ l[p].kind = "Message" /\ l[p].frame = a + j /\ p \in Nat
    BY <1>1 DEF Says
  <2>2. \A i \in 1..(p - 1) : i \in 1..Len(l)
    BY <1>1
  <2>3. \A i \in 1..Len(q) : i \in 1..(p - 1)
    BY <1>1
  <2>4. \A i \in 1..(p - 1) : \/ i \in 1..Len(q) /\ l[i] = q[i]
                              \/ \E h \in 1..(j - 1) : i = Len(q) + h /\ l[i] = r[h]
    <3>1. SUFFICES ASSUME NEW i \in 1..(p - 1), NEW h \in 1..Len(r), i = Len(q) + h, l[i] = r[h]
                   PROVE  h \in 1..(j - 1)
      BY <1>3, <2>2
    <3> QED BY <1>1, <3>1
  <2>10. \A h \in 1..(j - 1) : /\ h \in 1..Len(r) /\ r[h].kind = "Message"
                              /\ r[h].frame = a + h /\ a + h < a + j
    <3>1. \A h \in 1..(j - 1) : h \in 1..Len(r) /\ a + h < a + j
      BY <1>1
    <3> QED BY <3>1 DEF Says
  <2>5. ~Before(l, p, s, "Closed")
    <3>1. SUFFICES ASSUME NEW i \in 1..(p - 1), Says(l, i, s, "Closed") PROVE FALSE
      BY DEF Before
    <3>2. CASE i \in 1..Len(q) /\ l[i] = q[i]
      BY <3>1, <3>2 DEF Has, Says
    <3>3. ASSUME NEW h \in 1..(j - 1), l[i] = r[h] PROVE FALSE
      BY <2>10, <3>1, <3>3 DEF Says
    <3> QED BY <2>4, <3>2, <3>3
  <2>6. ph = "open" \/ Before(l, p, s, "Opened")
    BY <1>1, <2>3 DEF Before, Has, Says
  <2>7. ASSUME NEW i \in 1..(p - 1), Says(l, i, s, "Message") PROVE l[i].frame < a + j
    <3>1. CASE i \in 1..Len(q) /\ l[i] = q[i]
      <4>1. q[i].frame <= a
        BY <2>7, <3>1 DEF UpTo, Says
      <4> QED BY <1>2, <3>1, <4>1
    <3>2. ASSUME NEW h \in 1..(j - 1), l[i] = r[h] PROVE l[i].frame < a + j
      BY <2>10, <3>2
    <3> QED BY <2>4, <3>1, <3>2
  <2>8. \/ a + j = n + 1
        \/ \E i \in 1..(p - 1) : Says(l, i, s, "Message") /\ l[i].frame = (a + j) - 1
    <3>1. CASE j = 1 /\ n = a
      BY <3>1
    <3>2. CASE j = 1 /\ HasFrame(q, s, a)
      <4>1. PICK i \in 1..Len(q) : Says(q, i, s, "Message") /\ q[i].frame = a
        BY <3>2 DEF HasFrame
      <4> QED BY <1>1, <2>3, <3>2, <4>1 DEF Says
    <3>3. CASE j # 1
      <4>1. j - 1 \in 1..Len(r) /\ Len(q) + (j - 1) \in 1..(p - 1)
        BY <1>1, <3>3
      <4>2. l[Len(q) + (j - 1)] = r[j - 1] /\ r[j - 1].frame = a + (j - 1)
            /\ Says(r, j - 1, s, "Message")
        BY <1>1, <4>1
      <4> DEFINE h == Len(q) + (j - 1)
      <4>3. h \in 1..(p - 1) /\ l[h] = r[j - 1] /\ a + (j - 1) = (a + j) - 1
        BY <4>1, <4>2
      <4> HIDE DEF h
      <4>4. Says(l, h, s, "Message") /\ l[h].frame = (a + j) - 1
        BY <4>2, <4>3 DEF Says
      <4> QED BY <4>3, <4>4
    <3> QED BY <3>1, <3>2, <3>3
  <2> HIDE DEF p
  <2>9. Fits(l, p, s, ph, n, FALSE)
    BY <2>1, <2>5, <2>6, <2>7, <2>8 DEF Fits
  <2> QED BY <2>9 DEF p
<1> QED BY <1>4, FlowJoin DEF l

(* Ends, of s at most one. *)
LEMMA FlowEnds ==
    ASSUME NEW q \in Seq(EventType), NEW r \in Seq(EventType), NEW s, NEW ph, NEW n \in Nat,
           Flow(q, s, ph, n, FALSE),
           \A i \in 1..Len(r) : r[i].kind = "Closed",
           \A i, j \in 1..Len(r) : r[i].session = r[j].session => i = j,
           Has(r, s, "Closed") => /\ ph # "over" /\ ~Has(q, s, "Closed")
                                  /\ ph = "open" \/ Has(q, s, "Opened")
    PROVE  Flow(q \o r, s, ph, n, FALSE)
<1> DEFINE l == q \o r
<1>1. /\ Len(q) \in Nat /\ Len(r) \in Nat /\ Len(l) = Len(q) + Len(r)
      /\ \A i \in 1..Len(q) : l[i] = q[i]
      /\ \A i \in 1..Len(r) : l[Len(q) + i] = r[i]
  BY CatType
<1>2. \A i \in 1..Len(l) : \/ i \in 1..Len(q) /\ l[i] = q[i]
                           \/ \E h \in 1..Len(r) : i = Len(q) + h /\ l[i] = r[h]
  BY CatPlace
<1> HIDE DEF l
<1>3. ASSUME NEW j \in 1..Len(r), r[j].session = s PROVE Fits(l, Len(q) + j, s, ph, n, FALSE)
  <2> DEFINE p == Len(q) + j
  <2>1. l[p].kind = "Closed" /\ p \in Nat /\ Has(r, s, "Closed")
    BY <1>1, <1>3 DEF Has, Says
  <2>2. \A i \in 1..(p - 1) : i \in 1..Len(l)
    BY <1>1
  <2>3. \A i \in 1..Len(q) : i \in 1..(p - 1)
    BY <1>1
  <2>4. ASSUME NEW i \in 1..(p - 1), Says(l, i, s, "Closed") PROVE Has(q, s, "Closed")
    <3>1. CASE i \in 1..Len(q) /\ l[i] = q[i]
      BY <2>4, <3>1 DEF Has, Says
    <3>2. ASSUME NEW h \in 1..Len(r), i = Len(q) + h, l[i] = r[h] PROVE FALSE
      <4>1. h = j
        BY <1>3, <2>4, <3>2 DEF Says
      <4> QED BY <1>1, <3>2, <4>1
    <3> QED BY <1>2, <2>2, <3>1, <3>2
  <2>5. ~Before(l, p, s, "Closed")
    BY <2>1, <2>4 DEF Before
  <2>6. ph = "open" \/ Before(l, p, s, "Opened")
    BY <1>1, <2>1, <2>3 DEF Before, Has, Says
  <2> HIDE DEF p
  <2>7. Fits(l, p, s, ph, n, FALSE)
    BY <2>1, <2>5, <2>6 DEF Fits
  <2> QED BY <2>7 DEF p
<1> QED BY <1>3, FlowJoin DEF l

(* Where a session stands when an event has been handled. *)
PhaseAfter(e, s, ph) ==
    IF e.session = s /\ e.kind = "Opened" THEN "open"
    ELSE IF e.session = s /\ e.kind = "Closed" THEN "over" ELSE ph
ToldAfter(e, s, n) == IF e.session = s /\ e.kind = "Message" THEN e.frame ELSE n

(* The first event is handled: the others still fit, *)
LEMMA FlowVisit ==
    ASSUME NEW q \in Seq(EventType), q # <<>>, NEW s, NEW ph, NEW n \in Nat, NEW g \in BOOLEAN,
           Flow(q, s, ph, n, g)
    PROVE  Flow(Tail(q), s, PhaseAfter(Head(q), s, ph), ToldAfter(Head(q), s, n), g)
<1> DEFINE e == Head(q)
           t == Tail(q)
           ph2 == PhaseAfter(e, s, ph)
           n2 == ToldAfter(e, s, n)
<1>1. /\ e \in EventType /\ t \in Seq(EventType) /\ q[1] = e /\ Len(t) \in Nat
      /\ Len(q) = Len(t) + 1
      /\ \A i \in 1..Len(t) : t[i] = q[i + 1]
  OBVIOUS
<1>2. \A i \in 1..Len(q) : q[i].frame \in Nat /\ q[i] \in EventType
  <2>1. \A i \in 1..Len(q) : q[i] \in EventType
    OBVIOUS
  <2> QED BY <2>1 DEF EventType
<1> HIDE DEF e, t
<1>3. ASSUME NEW p \in 1..Len(t), t[p].session = s PROVE Fits(t, p, s, ph2, n2, g)
  <2>1. p + 1 \in 1..Len(q) /\ q[p + 1] = t[p] /\ (p + 1) - 1 = p /\ 1 \in 1..p
    BY <1>1
  <2>2. Fits(q, p + 1, s, ph, n, g)
    BY <1>3, <2>1 DEF Flow
  <2>3. \A i \in 1..(p - 1) : i + 1 \in 1..p /\ q[i + 1] = t[i] /\ i + 1 \in 1..Len(q)
    BY <1>1
  <2>4. \A i \in 1..p : i = 1 \/ (i - 1 \in 1..(p - 1) /\ q[i] = t[i - 1])
    <3>1. SUFFICES ASSUME NEW i \in 1..p, i # 1 PROVE i - 1 \in 1..(p - 1) /\ q[i] = t[i - 1]
      OBVIOUS
    <3>2. i - 1 \in 1..(p - 1) /\ (i - 1) + 1 = i
      BY <3>1
    <3> QED BY <2>3, <3>2
  <2>5. ASSUME NEW k PROVE Before(q, p + 1, s, k) <=> (e.session = s /\ e.kind = k) \/ Before(t, p, s, k)
    <3>1. Before(q, p + 1, s, k) => (e.session = s /\ e.kind = k) \/ Before(t, p, s, k)
      BY <1>1, <2>1, <2>4 DEF Before, Says
    <3>2. Before(t, p, s, k) => Before(q, p + 1, s, k)
      BY <2>1, <2>3 DEF Before, Says
    <3>3. e.session = s /\ e.kind = k => Before(q, p + 1, s, k)
      BY <1>1, <2>1 DEF Before, Says
    <3> QED BY <3>1, <3>2, <3>3
  <2>6. t[p].kind = "Opened" =>
          ph2 = "unknown" /\ ~Before(t, p, s, "Opened") /\ ~Before(t, p, s, "Closed")
    BY <2>1, <2>2, <2>5 DEF Fits, PhaseAfter
  <2>7. t[p].kind \in {"Message", "Closed"} =>
          /\ ph2 # "over" /\ ~Before(t, p, s, "Closed")
          /\ g \/ ph2 = "open" \/ Before(t, p, s, "Opened")
    BY <2>1, <2>2, <2>5 DEF Fits, PhaseAfter
  <2>8. ASSUME t[p].kind = "Message"
        PROVE  /\ t[p].frame > n2
               /\ \A i \in 1..(p - 1) : Says(t, i, s, "Message") => t[i].frame < t[p].frame
               /\ \/ g
                  \/ t[p].frame = n2 + 1
                  \/ \E i \in 1..(p - 1) : Says(t, i, s, "Message") /\ t[i].frame = t[p].frame - 1
    <3> DEFINE m == t[p].frame
    <3>1. /\ m > n
          /\ \A i \in 1..p : Says(q, i, s, "Message") => q[i].frame < m
          /\ \/ g
             \/ m = n + 1
             \/ \E i \in 1..p : Says(q, i, s, "Message") /\ q[i].frame = m - 1
      BY <2>1, <2>2, <2>8 DEF Fits
    <3>2. m \in Nat
      BY <1>2, <2>1
    <3> HIDE DEF m
    <3>3. e.session = s /\ e.kind = "Message" => e.frame < m
      BY <1>1, <2>1, <3>1 DEF Says
    <3>4. m > n2
      BY <3>1, <3>3 DEF ToldAfter
    <3>5. \A i \in 1..(p - 1) : Says(t, i, s, "Message") => t[i].frame < m
      BY <2>3, <3>1 DEF Says
    <3>6. e.frame \in Nat
      BY <1>1 DEF EventType
    <3>7. CASE m = n + 1
      <4>1. ~(e.session = s /\ e.kind = "Message") \/ e.frame > n
        <5>1. 1 \in 1..Len(q)
          BY <1>1
        <5>2. q[1].session = s => Fits(q, 1, s, ph, n, g)
          BY <5>1 DEF Flow
        <5> QED BY <1>1, <5>2 DEF Fits
      <4>2. ~(e.session = s /\ e.kind = "Message")
        BY <3>3, <3>6, <3>7, <4>1
      <4> QED BY <3>4, <3>5, <3>7, <4>2 DEF m, ToldAfter
    <3>8. ASSUME NEW i \in 1..p, Says(q, i, s, "Message"), q[i].frame = m - 1
          PROVE  \/ m = n2 + 1
                 \/ \E h \in 1..(p - 1) : Says(t, h, s, "Message") /\ t[h].frame = m - 1
      <4>1. CASE i = 1
        BY <1>1, <3>2, <3>6, <3>8, <4>1 DEF Says, ToldAfter
      <4>2. CASE i - 1 \in 1..(p - 1) /\ q[i] = t[i - 1]
        BY <3>8, <4>2 DEF Says
      <4> QED BY <2>4, <4>1, <4>2
    <3> QED BY <3>1, <3>4, <3>5, <3>7, <3>8 DEF m
  <2> HIDE DEF ph2, n2
  <2> QED BY <2>6, <2>7, <2>8 DEF Fits
<1>4. Flow(t, s, ph2, n2, g)
  BY <1>3 DEF Flow
<1> QED BY <1>4 DEF e, t

(* and it is a step of the contract. *)
LEMMA FlowHead ==
    ASSUME NEW q \in Seq(EventType), q # <<>>, NEW s, NEW ph, NEW n \in Nat, NEW g \in BOOLEAN,
           Flow(q, s, ph, n, g), Head(q).session = s
    PROVE  LET e == Head(q) IN
           /\ e.kind = "Opened" => ph = "unknown"
           /\ e.kind \in {"Message", "Closed"} => ph # "over" /\ (g \/ ph = "open")
           /\ e.kind = "Message" => e.frame > n /\ (g \/ e.frame = n + 1)
<1>1. 1 \in 1..Len(q) /\ q[1] = Head(q) /\ 1..(1 - 1) = {}
  OBVIOUS
<1>2. Fits(q, 1, s, ph, n, g)
  BY <1>1 DEF Flow
<1> QED BY <1>1, <1>2 DEF Fits, Before

(* What fits a session fits it when it is given up. *)
LEMMA FlowGiven ==
    ASSUME NEW q, NEW s, NEW ph, NEW n, NEW g \in BOOLEAN, NEW h \in BOOLEAN, g => h,
           Flow(q, s, ph, n, g)
    PROVE  Flow(q, s, ph, n, h)
<1>1. ASSUME NEW p \in 1..Len(q), q[p].session = s PROVE Fits(q, p, s, ph, n, h)
  <2>1. Fits(q, p, s, ph, n, g)
    BY <1>1 DEF Flow
  <2> QED BY <2>1 DEF Fits
<1> QED BY <1>1 DEF Flow

-----------------------------------------------------------------------------
(* What is reported of a QUIC connection.                                  *)

(* Nothing is reported, and nothing that matters changes. *)
LEMMA QuicSame ==
    ASSUME NEW q, NEW s, NEW ph, NEW n, NEW st, NEW st2, QuicReported(q, s, ph, n, st),
           st2.connected = st.connected, st2.ended = st.ended, st2.decoded = st.decoded,
           Given(st) => Given(st2)
    PROVE  QuicReported(q, s, ph, n, st2)
<1>1. Given(st) \in BOOLEAN /\ Given(st2) \in BOOLEAN
  BY DEF Given
<1>2. Flow(q, s, ph, n, Given(st2))
  BY <1>1, FlowGiven DEF QuicReported
<1> QED BY <1>2 DEF QuicReported

(* What would be reported does not fit, and the connection is given up. *)
LEMMA QuicDropped ==
    ASSUME NEW q, NEW s, NEW ph, NEW n \in Nat, NEW st \in StateType, NEW st2 \in StateType,
           QuicReported(q, s, ph, n, st), Given(st2), st.connected => st2.connected,
           st2.ended = st.ended, st.decoded <= st2.decoded,
           \A p \in 1..Len(q) : q[p].frame \in Nat
    PROVE  QuicReported(q, s, ph, n, st2)
<1>1. Given(st) \in BOOLEAN /\ Given(st2) \in BOOLEAN
  BY DEF Given
<1>2. Flow(q, s, ph, n, Given(st2))
  BY <1>1, FlowGiven DEF QuicReported
<1>3. st.decoded \in Nat /\ st2.decoded \in Nat
  BY DEF StateType
<1>4. n <= st2.decoded /\ UpTo(q, s, st2.decoded)
  BY <1>3 DEF QuicReported, UpTo
<1> QED BY <1>2, <1>4 DEF QuicReported

(* An event is reported: the first of a connection, a frame, a move, or    *)
(* the end.                                                                *)
LEMMA QuicMore ==
    ASSUME NEW q \in Seq(EventType), NEW s \in Sessions, NEW ph, NEW n \in Nat,
           NEW st \in StateType, NEW st2 \in StateType, NEW e \in EventType,
           QuicReported(q, s, ph, n, st), e.session = s, ~st.ended, ph \in {"unknown", "open", "over"},
           Given(st2) <=> Given(st),
           e.kind = "Opened" => ~st.connected /\ st2.connected,
           e.kind # "Opened" => st.connected /\ st2.connected,
           st2.ended <=> e.kind = "Closed",
           e.kind = "Message" => e.frame = st.decoded + 1 /\ st2.decoded = st.decoded + 1,
           e.kind # "Message" => st2.decoded = st.decoded
    PROVE  QuicReported(Append(q, e), s, ph, n, st2)
<1> DEFINE g == Given(st)
           d == st.decoded
           l == Append(q, e)
<1>1. g \in BOOLEAN /\ Given(st2) \in BOOLEAN /\ Given(st2) = g
  BY DEF Given
<1>2. d \in Nat /\ st2.decoded \in Nat /\ e.frame \in Nat
  BY DEF StateType, EventType
<1>3. /\ Flow(q, s, ph, n, g) /\ ph # "over" /\ ~Has(q, s, "Closed")
      /\ ph # "unknown" \/ Has(q, s, "Opened") \/ Has(q, s, "Closed") => st.connected
      /\ st.connected /\ ~g => ph = "open" \/ Has(q, s, "Opened")
      /\ n <= d /\ UpTo(q, s, d)
      /\ ~g => n = d \/ HasFrame(q, s, d)
  BY DEF QuicReported
<1>4. Flow(l, s, ph, n, g)
  <2>1. e.kind = "Opened" => ph = "unknown" /\ ~Has(q, s, "Opened") /\ ~Has(q, s, "Closed")
    BY <1>3
  <2>2. e.kind \in {"Message", "Closed"} =>
          ph # "over" /\ ~Has(q, s, "Closed") /\ (g \/ ph = "open" \/ Has(q, s, "Opened"))
    BY <1>3
  <2>3. e.kind = "Message" =>
          /\ e.frame > n /\ UpTo(q, s, e.frame - 1)
          /\ g \/ e.frame = n + 1 \/ HasFrame(q, s, e.frame - 1)
    <3>1. e.kind = "Message" => e.frame - 1 = d
      BY <1>2
    <3> HIDE DEF d, g
    <3> QED BY <1>2, <1>3, <3>1
  <2> HIDE DEF g
  <2> QED BY <1>1, <1>3, <2>1, <2>2, <2>3, FlowMore
<1>5. /\ \A k : Has(l, s, k) <=> Has(q, s, k) \/ e.kind = k
      /\ \A m : HasFrame(l, s, m) <=> HasFrame(q, s, m) \/ (e.kind = "Message" /\ e.frame = m)
      /\ \A m : UpTo(l, s, m) <=> UpTo(q, s, m) /\ (e.kind = "Message" => e.frame <= m)
  <2> DEFINE o == <<e>>
  <2>1. l = q \o o /\ o \in Seq(EventType)
    BY AppendCat
  <2>2. /\ \A k : Has(o, s, k) <=> e.session = s /\ e.kind = k
        /\ \A m : HasFrame(o, s, m) <=> e.session = s /\ e.kind = "Message" /\ e.frame = m
        /\ \A m : UpTo(o, s, m) <=> (e.session = s /\ e.kind = "Message" => e.frame <= m)
    BY OneSays
  <2> HIDE DEF o, l
  <2>3. /\ \A k : Has(q \o o, s, k) <=> Has(q, s, k) \/ Has(o, s, k)
        /\ \A m : HasFrame(q \o o, s, m) <=> HasFrame(q, s, m) \/ HasFrame(o, s, m)
        /\ \A m : UpTo(q \o o, s, m) <=> UpTo(q, s, m) /\ UpTo(o, s, m)
    BY <2>1, CatSays
  <2> QED BY <2>1, <2>2, <2>3
<1>6. UpTo(q, s, st2.decoded)
  <2>1. \A p \in 1..Len(q) : q[p] \in EventType
    OBVIOUS
  <2>2. \A p \in 1..Len(q) : q[p].frame \in Nat
    BY <2>1 DEF EventType
  <2>3. d <= st2.decoded
    BY <1>2
  <2> HIDE DEF d
  <2> QED BY <1>2, <1>3, <2>2, <2>3 DEF UpTo
<1> HIDE DEF l
<1>7. ph # "unknown" \/ Has(l, s, "Opened") \/ Has(l, s, "Closed") => st2.connected
  BY <1>3, <1>5
<1>8. ph = "over" \/ Has(l, s, "Closed") => st2.ended
  BY <1>3, <1>5
<1>9. st2.connected /\ ~st2.ended /\ ~g => ph = "open" \/ Has(l, s, "Opened")
  BY <1>3, <1>5
<1>10. n <= st2.decoded /\ UpTo(l, s, st2.decoded)
  BY <1>2, <1>3, <1>5, <1>6
<1>11. ~g => n = st2.decoded \/ HasFrame(l, s, st2.decoded)
  BY <1>2, <1>3, <1>5
<1>12. QuicReported(l, s, ph, n, st2)
  BY <1>1, <1>4, <1>7, <1>8, <1>9, <1>10, <1>11 DEF QuicReported
<1> QED BY <1>12 DEF l

(* Events of other sessions are behind or ahead. *)
LEMMA QuicOther ==
    ASSUME NEW q \in Seq(EventType), NEW r \in Seq(EventType), NEW s, NEW ph, NEW n, NEW st,
           QuicReported(q, s, ph, n, st), \A p \in 1..Len(r) : r[p].session # s
    PROVE  QuicReported(q \o r, s, ph, n, st) /\ QuicReported(r \o q, s, ph, n, st)
<1>1. Given(st) \in BOOLEAN
  BY DEF Given
<1>2. Flow(q \o r, s, ph, n, Given(st)) /\ Flow(r \o q, s, ph, n, Given(st))
  BY <1>1, FlowOther, FlowAhead DEF QuicReported
<1>3. /\ \A k : ~Has(r, s, k)
      /\ \A m : ~HasFrame(r, s, m) /\ UpTo(r, s, m)
  BY SilentSays
<1>4. /\ \A k : Has(q \o r, s, k) <=> Has(q, s, k)
      /\ \A m : HasFrame(q \o r, s, m) <=> HasFrame(q, s, m)
      /\ \A m : UpTo(q \o r, s, m) <=> UpTo(q, s, m)
  BY <1>3, CatSays
<1>5. /\ \A k : Has(r \o q, s, k) <=> Has(q, s, k)
      /\ \A m : HasFrame(r \o q, s, m) <=> HasFrame(q, s, m)
      /\ \A m : UpTo(r \o q, s, m) <=> UpTo(q, s, m)
  BY <1>3, CatSays
<1> QED BY <1>2, <1>4, <1>5 DEF QuicReported

(* The service handles the first event. *)
LEMMA QuicVisit ==
    ASSUME NEW q \in Seq(EventType), q # <<>>, NEW s, NEW ph \in {"unknown", "open", "over"},
           NEW n \in Nat, NEW st \in StateType, QuicReported(q, s, ph, n, st)
    PROVE  QuicReported(Tail(q), s, PhaseAfter(Head(q), s, ph), ToldAfter(Head(q), s, n), st)
<1> DEFINE e == Head(q)
           t == Tail(q)
           ph2 == PhaseAfter(e, s, ph)
           n2 == ToldAfter(e, s, n)
           g == Given(st)
           d == st.decoded
<1>1. g \in BOOLEAN /\ d \in Nat /\ Flow(q, s, ph, n, g)
  BY DEF Given, StateType, QuicReported
<1>2. Flow(t, s, ph2, n2, g)
  BY <1>1, FlowVisit
<1>3. /\ \A k : Has(q, s, k) <=> (e.session = s /\ e.kind = k) \/ Has(t, s, k)
      /\ \A m : HasFrame(q, s, m) <=>
           (e.session = s /\ e.kind = "Message" /\ e.frame = m) \/ HasFrame(t, s, m)
      /\ \A m : UpTo(q, s, m) <=>
           (e.session = s /\ e.kind = "Message" => e.frame <= m) /\ UpTo(t, s, m)
  BY TailSays
<1>4. e.frame \in Nat
  <2>1. e \in EventType
    OBVIOUS
  <2> QED BY <2>1 DEF EventType
<1>5. /\ ph # "unknown" \/ Has(q, s, "Opened") \/ Has(q, s, "Closed") => st.connected
      /\ ph = "over" \/ Has(q, s, "Closed") => st.ended
      /\ st.connected /\ ~st.ended /\ ~g => ph = "open" \/ Has(q, s, "Opened")
      /\ n <= d /\ UpTo(q, s, d)
      /\ ~g => n = d \/ HasFrame(q, s, d)
  BY DEF QuicReported
<1>6. e.session = s /\ e.kind \in {"Message", "Closed"} => g \/ ph = "open"
  BY <1>1, FlowHead
<1> HIDE DEF e, t
<1>7. ph2 # "unknown" \/ Has(t, s, "Opened") \/ Has(t, s, "Closed") => st.connected
  BY <1>3, <1>5 DEF PhaseAfter
<1>8. ph2 = "over" \/ Has(t, s, "Closed") => st.ended
  BY <1>3, <1>5 DEF PhaseAfter
<1>9. st.connected /\ ~st.ended /\ ~g => ph2 = "open" \/ Has(t, s, "Opened")
  BY <1>3, <1>5 DEF PhaseAfter
<1>10. n2 <= d /\ UpTo(t, s, d)
  BY <1>3, <1>4, <1>5 DEF ToldAfter
<1>11. ~g => n2 = d \/ HasFrame(t, s, d)
  <2>1. SUFFICES ASSUME ~g PROVE n2 = d \/ HasFrame(t, s, d)
    OBVIOUS
  <2>2. CASE HasFrame(q, s, d)
    BY <1>3, <2>2 DEF ToldAfter
  <2>3. CASE n = d
    <3>1. e.session = s /\ e.kind = "Message" => e.frame > n
      BY <1>1, FlowHead DEF e
    <3>2. e.session = s /\ e.kind = "Message" => e.frame <= d
      BY <1>3, <1>5
    <3>3. ~(e.session = s /\ e.kind = "Message")
      BY <1>1, <1>4, <2>3, <3>1, <3>2
    <3> QED BY <2>3, <3>3 DEF ToldAfter
  <2> QED BY <1>5, <2>1, <2>2, <2>3
<1> HIDE DEF ph2, n2
<1>12. QuicReported(t, s, ph2, n2, st)
  BY <1>2, <1>7, <1>8, <1>9, <1>10, <1>11 DEF QuicReported
<1> QED BY <1>12 DEF e, t, ph2, n2

-----------------------------------------------------------------------------
(* The steps of a QUIC connection.                                         *)

(* The streams of events are sequences. *)
LEMMA Streams ==
    ASSUME ServiceTypes, QuicTypes
    PROVE  /\ QuicStream \in Seq(EventType)
           /\ \A s \in QuicPeers : /\ s \in Sessions /\ states[s] \in StateType
                                   /\ phase[s] \in {"unknown", "open", "over"} /\ told[s] \in Nat
           /\ \A p \in 1..Len(QuicStream) : QuicStream[p].frame \in Nat
<1>1. QuicStream \in Seq(EventType)
  BY CatType DEF ServiceTypes, QuicTypes, QuicStream
<1>2. \A p \in 1..Len(QuicStream) : QuicStream[p] \in EventType
  BY <1>1
<1> QED BY <1>1, <1>2 DEF ServiceTypes, QuicTypes, Sessions, EventType

(* Events that are joined, in whichever order. *)
LEMMA EventsJoin == ASSUME NEW a \in Seq(EventType), NEW b \in Seq(EventType), NEW c \in Seq(EventType)
                    PROVE  (a \o b) \o c = a \o (b \o c)
<1> DEFINE S == EventType
<1> HIDE DEF S
<1>1. a \in Seq(S) /\ b \in Seq(S) /\ c \in Seq(S)
  BY DEF S
<1> QED BY <1>1, CatJoins

(* One connection moves, and reports nothing or one event. *)
LEMMA QuicStep ==
    ASSUME ServiceTypes, QuicPart, UNCHANGED <<inbox, phase, told>>,
           NEW s \in QuicPeers, NEW st \in StateType, states' = [states EXCEPT ![s] = st],
           QuicSane(s, st), Given(states[s]) => Given(st),
           \/ /\ events' = events
              /\ QuicReported(QuicStream, s, phase[s], told[s], st)
           \/ \E e \in EventType :
                /\ e.session = s /\ events' = Append(events, e)
                /\ QuicReported(Append(QuicStream, e), s, phase[s], told[s], st)
    PROVE  QuicPart' /\ GivenUp \subseteq GivenUp'
<1>1. /\ states' \in [QuicPeers -> StateType] /\ states'[s] = st
      /\ \A t \in QuicPeers : t # s => states'[t] = states[t]
  BY DEF QuicPart, QuicTypes
<1>2. GivenUp \subseteq GivenUp'
  BY <1>1 DEF GivenUp
<1>3. CASE events' = events /\ QuicReported(QuicStream, s, phase[s], told[s], st)
  <2>1. QuicStream' = QuicStream
    BY <1>3 DEF QuicStream
  <2>2. QuicTypes'
    BY <1>1, <1>3 DEF QuicTypes, QuicPart
  <2>3. ASSUME NEW t \in QuicPeers
        PROVE  QuicReported(QuicStream, t, phase[t], told[t], states'[t]) /\ QuicSane(t, states'[t])
    BY <1>1, <1>3 DEF QuicPart
  <2> QED BY <1>2, <1>3, <2>1, <2>2, <2>3 DEF QuicPart
<1>4. ASSUME NEW e \in EventType, e.session = s, events' = Append(events, e),
             QuicReported(Append(QuicStream, e), s, phase[s], told[s], st)
      PROVE  QuicPart'
  <2> DEFINE o == <<e>>
  <2>7. events \in Seq(EventType) /\ inbox \in Seq(EventType) /\ QuicStream \in Seq(EventType)
    BY Streams DEF QuicPart, QuicTypes, ServiceTypes
  <2>1. /\ o \in Seq(EventType) /\ Append(events, e) = events \o o
        /\ Append(QuicStream, e) = QuicStream \o o /\ Len(o) = 1 /\ o[1].session = s
    <3> DEFINE q == QuicStream
    <3> HIDE DEF q
    <3>1. q \in Seq(EventType)
      BY <2>7 DEF q
    <3>2. Append(q, e) = q \o o
      BY <3>1, AppendCat
    <3> QED BY <1>4, <2>7, <3>2, AppendCat DEF q
  <2>6. \A p \in 1..Len(o) : o[p].session = s
    BY <2>1
  <2> HIDE DEF o
  <2>2. QuicStream' = QuicStream \o o
    <3>1. (inbox \o events) \o o = inbox \o (events \o o)
      BY <2>1, <2>7, EventsJoin
    <3> QED BY <1>4, <2>1, <3>1 DEF QuicStream
  <2>3. QuicTypes'
    BY <1>1, <1>4 DEF QuicTypes, QuicPart
  <2>4. ASSUME NEW t \in QuicPeers
        PROVE  QuicReported(QuicStream \o o, t, phase[t], told[t], states'[t]) /\ QuicSane(t, states'[t])
    <3>1. CASE t = s
      BY <1>1, <1>4, <2>1, <3>1
    <3>2. CASE t # s
      <4>1. QuicReported(QuicStream, t, phase[t], told[t], states[t]) /\ QuicSane(t, states[t])
        BY DEF QuicPart
      <4>2. \A p \in 1..Len(o) : o[p].session # t
        BY <2>6, <3>2
      <4> QED BY <1>1, <2>1, <2>7, <3>2, <4>1, <4>2, QuicOther
    <3> QED BY <3>1, <3>2
  <2>5. \A p \in 1..Len(events') : events'[p].session \in QuicPeers
    <3>1. \A p \in 1..Len(events') : \/ p \in 1..Len(events) /\ events'[p] = events[p]
                                     \/ events'[p] = e
      BY <1>4, <2>7
    <3> QED BY <1>4, <3>1 DEF QuicPart
  <2> QED BY <2>2, <2>3, <2>4, <2>5 DEF QuicPart
<1> QED BY <1>2, <1>3, <1>4

(* Nothing is reported, and the connection only may be given up. *)
LEMMA QuicSilent ==
    ASSUME ServiceTypes, QuicPart, UNCHANGED <<inbox, phase, told, events>>,
           NEW s \in QuicPeers, NEW st \in StateType, states' = [states EXCEPT ![s] = st],
           QuicSane(s, st), Given(states[s]) => Given(st), st.connected = states[s].connected,
           st.ended = states[s].ended, st.decoded = states[s].decoded
    PROVE  QuicPart' /\ GivenUp \subseteq GivenUp'
<1>1. QuicReported(QuicStream, s, phase[s], told[s], st)
  BY QuicSame DEF QuicPart
<1> QED BY <1>1, QuicStep

(* A connection that is rejected is given up. *)
LEMMA RejectedSane ==
    ASSUME NEW s, NEW st \in StateType, QuicSane(s, st), ~st.ended
    PROVE  LET r == Rejected(st) IN
           /\ r \in StateType /\ QuicSane(s, r) /\ Given(r)
           /\ r.connected = st.connected /\ r.ended = st.ended /\ r.decoded = st.decoded
<1>1. CASE st.closing
  BY <1>1 DEF Rejected, QuicSane
<1>2. CASE ~st.closing
  <2> DEFINE r == [st EXCEPT !.closing = TRUE, !.reason = "overloaded", !.shut = TRUE]
  <2>1. r \in StateType
    BY DEF StateType
  <2>2. /\ r.reason = "overloaded" /\ r.shut /\ r.connected = st.connected /\ r.ended = st.ended
        /\ r.decoded = st.decoded /\ r.input = st.input /\ r.sent = st.sent
        /\ r.receiving = st.receiving /\ r.stream = st.stream
    BY DEF StateType
  <2>3. Rejected(st) = r
    BY <1>2 DEF Rejected
  <2> HIDE DEF r
  <2> QED BY <2>1, <2>2, <2>3 DEF QuicSane, Given
<1>3. st.closing \in BOOLEAN
  BY DEF StateType
<1> QED BY <1>1, <1>2, <1>3

(* push_event, with room or without. *)
LEMMA QuicReports ==
    ASSUME ServiceTypes, QuicPart, UNCHANGED <<inbox, phase, told>>,
           NEW s \in QuicPeers, NEW st \in StateType, NEW e \in EventType,
           Report(s, st, e), QuicSane(s, st), e.session = s, ~st.ended, e.kind # "Closed",
           Given(st) <=> Given(states[s]), st.ended = states[s].ended,
           e.kind = "Opened" => ~states[s].connected /\ st.connected,
           e.kind # "Opened" => states[s].connected /\ st.connected,
           e.kind = "Message" => e.frame = states[s].decoded + 1 /\ st.decoded = states[s].decoded + 1,
           e.kind # "Message" => st.decoded = states[s].decoded
    PROVE  QuicPart' /\ GivenUp \subseteq GivenUp'
<1> DEFINE q == QuicStream
           ph == phase[s]
           n == told[s]
           o == states[s]
<1>1. /\ q \in Seq(EventType) /\ s \in Sessions /\ o \in StateType
      /\ ph \in {"unknown", "open", "over"} /\ n \in Nat /\ \A p \in 1..Len(q) : q[p].frame \in Nat
  BY Streams DEF QuicPart
<1>2. QuicReported(q, s, ph, n, o)
  BY DEF QuicPart
<1>3. CASE Len(events) < EventCapacity
  <2> HIDE DEF q, ph, n, o
  <2>1. st.ended <=> e.kind = "Closed"
    OBVIOUS
  <2>2. QuicReported(Append(q, e), s, ph, n, st)
    BY <1>1, <1>2, <2>1, QuicMore DEF o
  <2>3. events' = Append(events, e) /\ states' = [states EXCEPT ![s] = st]
    BY <1>3 DEF Report
  <2> QED BY <2>2, <2>3, QuicStep DEF q, ph, n
<1>4. CASE ~(Len(events) < EventCapacity)
  <2> DEFINE r == Rejected(st)
  <2>1. /\ r \in StateType /\ QuicSane(s, r) /\ Given(r) /\ r.connected = st.connected
        /\ r.ended = st.ended /\ r.decoded = st.decoded
    BY RejectedSane
  <2>2. events' = events /\ states' = [states EXCEPT ![s] = r]
    BY <1>4 DEF Report
  <2> HIDE DEF r
  <2>3. o.decoded <= r.decoded
    <3>1. o.decoded \in Nat /\ st.decoded \in Nat
      BY <1>1 DEF StateType
    <3>2. st.decoded = o.decoded \/ st.decoded = o.decoded + 1
      BY <1>1
    <3> HIDE DEF o
    <3> QED BY <2>1, <3>1, <3>2
  <2> HIDE DEF q, ph, n
  <2>4. (o.connected => r.connected) /\ r.ended = o.ended
    BY <2>1
  <2> HIDE DEF o
  <2>5. QuicReported(q, s, ph, n, r)
    BY <1>1, <1>2, <2>1, <2>3, <2>4, QuicDropped
  <2> QED BY <2>1, <2>2, <2>5, QuicStep DEF q, ph, n
<1> QED BY <1>3, <1>4

(* MsQuic calls back, or the thread sends or closes. *)
LEMMA QuicActs ==
    ASSUME ServiceTypes, QuicPart, UNCHANGED <<inbox, phase, told>>, NEW s \in QuicPeers,
           \/ on_new_connection(s) \/ Connected(s) \/ PeerSends(s) \/ Receive(s) \/ Decode(s)
           \/ \E u \in BOOLEAN : StreamStarted(s, u)
           \/ PeerAddressChanged(s) \/ StreamAborted(s) \/ StreamShutdownComplete(s)
           \/ SendComplete(s) \/ ShutdownComplete(s) \/ Erase(s)
           \/ \E by \in {"transport_error", "peer_requested"} : ShutdownInitiated(s, by)
           \/ states' = [states EXCEPT ![s].pending = @ + 1] /\ UNCHANGED events
           \/ QuicClose(s)
    PROVE  QuicPart' /\ GivenUp \subseteq GivenUp'
<1> DEFINE o == states[s]
<1>1. /\ o \in StateType /\ QuicSane(s, o) /\ s \in Sessions /\ QuicFrames[s] \in Nat
      /\ QuicReported(QuicStream, s, phase[s], told[s], o)
  BY Streams, QuicAssumption DEF QuicPart
<1>2. CASE on_new_connection(s)
  <2>1. PICK stage \in {"refused", "known", "unconfigured"} :
          states' = [states EXCEPT ![s] = [o EXCEPT !.stage = stage]] /\ events' = events
    BY <1>2 DEF on_new_connection
  <2> DEFINE st == [o EXCEPT !.stage = stage]
  <2>2. st \in StateType /\ QuicSane(s, st) /\ Given(o) = Given(st)
        /\ st.connected = o.connected /\ st.ended = o.ended /\ st.decoded = o.decoded
    BY <1>1 DEF StateType, QuicSane, Given
  <2> HIDE DEF st
  <2>3. states' = [states EXCEPT ![s] = st]
    BY <2>1 DEF st
  <2> QED BY <2>1, <2>2, <2>3, QuicSilent
<1>3. CASE Connected(s)
  <2> DEFINE st == [o EXCEPT !.connected = TRUE]
             e == QuicEvent("Opened", s, 0)
  <2>1. /\ st \in StateType /\ QuicSane(s, st) /\ Given(o) = Given(st)
        /\ st.connected /\ st.ended = o.ended /\ st.decoded = o.decoded
    BY <1>1 DEF StateType, QuicSane, Given
  <2>2. e \in EventType /\ e.session = s /\ e.kind = "Opened"
    BY <1>1 DEF QuicEvent, EventType
  <2>3. Report(s, st, e) /\ ~o.connected /\ ~o.ended
    BY <1>3 DEF Connected, Callback
  <2> HIDE DEF st, e
  <2> QED BY <2>1, <2>2, <2>3, QuicReports
<1>4. CASE PeerSends(s)
  <2> DEFINE st == [o EXCEPT !.sent = @ + 1]
  <2>1. states' = [states EXCEPT ![s] = st] /\ events' = events /\ o.sent < QuicFrames[s]
    BY <1>4 DEF PeerSends
  <2>2. st \in StateType /\ QuicSane(s, st) /\ Given(o) = Given(st)
        /\ st.connected = o.connected /\ st.ended = o.ended /\ st.decoded = o.decoded
    BY <1>1, <2>1 DEF StateType, QuicSane, Given
  <2> HIDE DEF st
  <2> QED BY <2>1, <2>2, QuicSilent
<1>5. CASE Receive(s)
  <2> DEFINE st == [o EXCEPT !.input = o.sent, !.receiving = TRUE]
  <2>1. /\ states' = [states EXCEPT ![s] = st] /\ events' = events
        /\ ~o.ended /\ o.stream /\ o.input < o.sent
    BY <1>5 DEF Receive, Callback
  <2>2. st \in StateType /\ QuicSane(s, st) /\ Given(o) = Given(st)
        /\ st.connected = o.connected /\ st.ended = o.ended /\ st.decoded = o.decoded
    <3>1. st \in StateType
      BY <1>1 DEF StateType
    <3>2. /\ st.connected = o.connected /\ st.ended = o.ended /\ st.decoded = o.decoded
          /\ st.input = o.sent /\ st.sent = o.sent /\ st.stream = o.stream
          /\ st.closing = o.closing /\ st.reason = o.reason /\ st.shut = o.shut
      BY <1>1 DEF StateType
    <3>3. o.decoded \in Nat /\ o.input \in Nat /\ o.sent \in Nat
      BY <1>1 DEF StateType
    <3> HIDE DEF st, o
    <3> QED BY <1>1, <2>1, <3>1, <3>2, <3>3 DEF QuicSane, Given
  <2> HIDE DEF st
  <2> QED BY <2>1, <2>2, QuicSilent
<1>6. CASE Decode(s)
  <2> DEFINE out == [o EXCEPT !.receiving = FALSE]
             next == [o EXCEPT !.decoded = @ + 1]
             st == IF Len(events) < EventCapacity THEN next ELSE [next EXCEPT !.receiving = FALSE]
             e == QuicEvent("Message", s, o.decoded + 1)
  <2>1. o.receiving /\ o.connected /\ ~o.ended /\ o.decoded \in Nat
    BY <1>1, <1>6 DEF Decode, QuicSane, StateType
  <2>2. /\ out \in StateType /\ QuicSane(s, out) /\ (Given(o) => Given(out)) /\ ~out.ended
        /\ out.connected = o.connected /\ out.ended = o.ended /\ out.decoded = o.decoded
    <3>1. out \in StateType
      BY <1>1 DEF StateType
    <3>2. /\ out.connected = o.connected /\ out.ended = o.ended /\ out.decoded = o.decoded
          /\ out.input = o.input /\ out.sent = o.sent /\ out.stream = o.stream /\ ~out.receiving
          /\ out.closing = o.closing /\ out.reason = o.reason /\ out.shut = o.shut
      BY <1>1 DEF StateType
    <3> HIDE DEF out, o
    <3> QED BY <1>1, <2>1, <3>1, <3>2 DEF QuicSane, Given
  <2>3. CASE states' = [states EXCEPT ![s] = out] /\ events' = events
    <3> HIDE DEF out
    <3> QED BY <2>2, <2>3, QuicSilent
  <2>4. CASE states' = [states EXCEPT ![s] = Rejected(out)] /\ events' = events
    <3> HIDE DEF out
    <3> DEFINE r == Rejected(out)
    <3>1. /\ r \in StateType /\ QuicSane(s, r) /\ Given(r) /\ r.connected = o.connected
          /\ r.ended = o.ended /\ r.decoded = o.decoded
      BY <2>2, RejectedSane
    <3> HIDE DEF r
    <3>2. states' = [states EXCEPT ![s] = r]
      BY <2>4 DEF r
    <3> QED BY <2>4, <3>1, <3>2, QuicSilent
  <2>5. CASE o.decoded < o.input /\ Report(s, st, e)
    <3>3. /\ next \in StateType /\ QuicSane(s, next) /\ (Given(o) <=> Given(next))
          /\ next.connected = o.connected /\ next.ended = o.ended /\ next.decoded = o.decoded + 1
      <4>1. next \in StateType
        BY <1>1 DEF StateType
      <4>2. /\ next.connected = o.connected /\ next.ended = o.ended /\ next.decoded = o.decoded + 1
            /\ next.input = o.input /\ next.sent = o.sent /\ next.stream = o.stream
            /\ next.closing = o.closing /\ next.reason = o.reason /\ next.shut = o.shut
            /\ next.receiving = o.receiving
        BY <1>1 DEF StateType
      <4>3. o.decoded \in Nat /\ o.input \in Nat /\ o.sent \in Nat
        BY <1>1 DEF StateType
      <4> HIDE DEF next, o
      <4> QED BY <1>1, <2>1, <2>5, <4>1, <4>2, <4>3 DEF QuicSane, Given
    <3> DEFINE left == [next EXCEPT !.receiving = FALSE]
    <3>4. /\ left \in StateType /\ QuicSane(s, left) /\ (Given(o) <=> Given(left))
          /\ left.connected = o.connected /\ left.ended = o.ended /\ left.decoded = o.decoded + 1
      <4> HIDE DEF next
      <4> QED BY <3>3 DEF StateType, QuicSane, Given
    <3>5. st = next \/ st = left
      OBVIOUS
    <3> HIDE DEF st, next, left
    <3>1. /\ st \in StateType /\ QuicSane(s, st) /\ (Given(o) <=> Given(st)) /\ ~st.ended
          /\ st.connected = o.connected /\ st.ended = o.ended /\ st.decoded = o.decoded + 1
      BY <2>1, <3>3, <3>4, <3>5
    <3>2. e \in EventType /\ e.session = s /\ e.kind = "Message" /\ e.frame = o.decoded + 1
      BY <1>1, <2>1 DEF QuicEvent, EventType
    <3> HIDE DEF st, e
    <3> QED BY <2>1, <2>5, <3>1, <3>2, QuicReports
  <2> QED BY <1>6, <2>3, <2>4, <2>5 DEF Decode
<1>7. ASSUME NEW u \in BOOLEAN, StreamStarted(s, u) PROVE QuicPart' /\ GivenUp \subseteq GivenUp'
  <2>1. ~o.ended /\ o.connected /\ events' = events
    BY <1>7 DEF StreamStarted, Callback
  <2>2. CASE states' = [states EXCEPT ![s] = Rejected(o)]
    <3> DEFINE r == Rejected(o)
    <3>1. /\ r \in StateType /\ QuicSane(s, r) /\ Given(r) /\ r.connected = o.connected
          /\ r.ended = o.ended /\ r.decoded = o.decoded
      BY <1>1, <2>1, RejectedSane
    <3> HIDE DEF r
    <3>2. states' = [states EXCEPT ![s] = r]
      BY <2>2 DEF r
    <3> QED BY <2>1, <3>1, <3>2, QuicSilent
  <2>3. CASE states' = [states EXCEPT ![s] = [o EXCEPT !.stream = TRUE]]
    <3> DEFINE st == [o EXCEPT !.stream = TRUE]
    <3>1. st \in StateType /\ QuicSane(s, st) /\ Given(o) = Given(st)
          /\ st.connected = o.connected /\ st.ended = o.ended /\ st.decoded = o.decoded
      BY <1>1, <2>1 DEF StateType, QuicSane, Given
    <3>2. states' = [states EXCEPT ![s] = st]
      BY <2>3
    <3> HIDE DEF st
    <3> QED BY <2>1, <3>1, <3>2, QuicSilent
  <2> QED BY <1>7, <2>2, <2>3 DEF StreamStarted
<1>8. CASE PeerAddressChanged(s)
  <2> DEFINE st == [o EXCEPT !.moved = TRUE]
             e == QuicEvent("Moved", s, 0)
  <2>1. /\ st \in StateType /\ QuicSane(s, st) /\ (Given(o) <=> Given(st))
        /\ st.connected = o.connected /\ st.ended = o.ended /\ st.decoded = o.decoded
    BY <1>1 DEF StateType, QuicSane, Given
  <2>2. e \in EventType /\ e.session = s /\ e.kind = "Moved"
    BY <1>1 DEF QuicEvent, EventType
  <2>3. Report(s, st, e) /\ o.connected /\ ~o.ended
    BY <1>8 DEF PeerAddressChanged, Callback
  <2> HIDE DEF st, e
  <2> QED BY <2>1, <2>2, <2>3, QuicReports
<1>9. CASE StreamAborted(s)
  <2> DEFINE r == Rejected(o)
  <2>1. ~o.ended /\ events' = events /\ states' = [states EXCEPT ![s] = r]
    BY <1>9 DEF StreamAborted, Callback
  <2>2. /\ r \in StateType /\ QuicSane(s, r) /\ Given(r) /\ r.connected = o.connected
        /\ r.ended = o.ended /\ r.decoded = o.decoded
    BY <1>1, <2>1, RejectedSane
  <2> HIDE DEF r
  <2> QED BY <2>1, <2>2, QuicSilent
<1>10. CASE StreamShutdownComplete(s)
  <2> DEFINE st == [o EXCEPT !.stream = FALSE]
  <2>1. states' = [states EXCEPT ![s] = st] /\ events' = events
    BY <1>10 DEF StreamShutdownComplete
  <2>2. st \in StateType /\ QuicSane(s, st) /\ Given(o) = Given(st)
        /\ st.connected = o.connected /\ st.ended = o.ended /\ st.decoded = o.decoded
    BY <1>1 DEF StateType, QuicSane, Given
  <2> HIDE DEF st
  <2> QED BY <2>1, <2>2, QuicSilent
<1>11. ASSUME NEW d \in {1, -1}, states' = [states EXCEPT ![s].pending = @ + d], events' = events
       PROVE  QuicPart' /\ GivenUp \subseteq GivenUp'
  <2> DEFINE st == [o EXCEPT !.pending = @ + d]
  <2>1. states' = [states EXCEPT ![s] = st]
    BY <1>11
  <2>2. st \in StateType /\ QuicSane(s, st) /\ Given(o) = Given(st)
        /\ st.connected = o.connected /\ st.ended = o.ended /\ st.decoded = o.decoded
    BY <1>1 DEF StateType, QuicSane, Given
  <2> HIDE DEF st
  <2> QED BY <1>11, <2>1, <2>2, QuicSilent
<1>12. CASE SendComplete(s)
  <2>1. states' = [states EXCEPT ![s].pending = @ + (-1)] /\ events' = events
    BY <1>1, <1>12 DEF SendComplete, StateType
  <2> QED BY <1>11, <2>1
<1>13. CASE ShutdownComplete(s)
  <2> DEFINE st == [o EXCEPT !.closing = TRUE, !.ended = TRUE]
             e == QuicEvent("Closed", s, 0)
  <2>1. states' = [states EXCEPT ![s] = st] /\ ~o.ended /\ ~o.receiving /\ o.shut
    BY <1>13 DEF ShutdownComplete, Callback
  <2>2. st \in StateType /\ QuicSane(s, st) /\ (Given(o) <=> Given(st))
        /\ st.connected = o.connected /\ st.ended /\ st.decoded = o.decoded
    BY <1>1, <2>1 DEF StateType, QuicSane, Given
  <2>3. e \in EventType /\ e.session = s /\ e.kind = "Closed"
    BY <1>1 DEF QuicEvent, EventType
  <2>4. \/ o.connected /\ events' = Append(events, e)
        \/ events' = events
    BY <1>13, <2>2 DEF ShutdownComplete
  <2> HIDE DEF st, e
  <2>5. CASE o.connected /\ events' = Append(events, e)
    <3>1. QuicReported(Append(QuicStream, e), s, phase[s], told[s], st)
      BY <1>1, <2>1, <2>2, <2>3, <2>5, QuicMore, Streams DEF QuicPart
    <3> QED BY <2>1, <2>2, <2>3, <2>5, <3>1, QuicStep
  <2>6. CASE events' = events
    <3>1. Given(o) \in BOOLEAN /\ Given(st) = Given(o)
      BY <2>2 DEF Given
    <3>2. QuicReported(QuicStream, s, phase[s], told[s], st)
      BY <1>1, <2>2, <3>1 DEF QuicReported
    <3> QED BY <2>1, <2>2, <2>6, <3>2, QuicStep
  <2> QED BY <2>4, <2>5, <2>6
<1>14. CASE Erase(s)
  <2> DEFINE st == [o EXCEPT !.stage = "gone"]
  <2>1. states' = [states EXCEPT ![s] = st] /\ events' = events
    BY <1>14 DEF Erase
  <2>2. st \in StateType /\ QuicSane(s, st) /\ Given(o) = Given(st)
        /\ st.connected = o.connected /\ st.ended = o.ended /\ st.decoded = o.decoded
    BY <1>1 DEF StateType, QuicSane, Given
  <2> HIDE DEF st
  <2> QED BY <2>1, <2>2, QuicSilent
<1>15. ASSUME NEW by \in {"transport_error", "peer_requested"}, ShutdownInitiated(s, by)
       PROVE  QuicPart' /\ GivenUp \subseteq GivenUp'
  <2> DEFINE st == [o EXCEPT !.shut = TRUE, !.reason = by]
  <2>1. states' = [states EXCEPT ![s] = st] /\ events' = events /\ ~o.shut /\ ~o.ended
    BY <1>15 DEF ShutdownInitiated, Callback
  <2>2. ~Given(o) /\ ~o.closing
    BY <1>1, <2>1 DEF QuicSane
  <2>3. st \in StateType /\ QuicSane(s, st)
        /\ st.connected = o.connected /\ st.ended = o.ended /\ st.decoded = o.decoded
    BY <1>1, <2>1, <2>2 DEF StateType, QuicSane, Given
  <2> HIDE DEF st
  <2> QED BY <2>1, <2>2, <2>3, QuicSilent
<1>16. CASE QuicClose(s)
  <2> DEFINE st == [o EXCEPT !.closing = TRUE, !.shut = TRUE, !.reason = "application_requested"]
  <2>1. states' = [states EXCEPT ![s] = st] /\ events' = events
    BY <1>16 DEF QuicClose
  <2>2. st \in StateType /\ QuicSane(s, st) /\ Given(st)
        /\ st.connected = o.connected /\ st.ended = o.ended /\ st.decoded = o.decoded
    BY <1>1 DEF StateType, QuicSane, Given
  <2> HIDE DEF st
  <2> QED BY <2>1, <2>2, QuicSilent
<1>17. CASE states' = [states EXCEPT ![s].pending = @ + 1] /\ events' = events
  BY <1>11, <1>17
<1> QED BY <1>2, <1>3, <1>4, <1>5, <1>6, <1>7, <1>8, <1>9, <1>10, <1>12, <1>13, <1>14, <1>15,
           <1>16, <1>17

-----------------------------------------------------------------------------
(* What is reported of a TLS connection.                                   *)

TlsTold(q, s, ph, n, e, closing) ==
    TlsReported(q, s, ph, n, e) /\ TlsEnd(q, s, ph, n, e, closing)

(* Nothing is reported, and nothing that matters of the connection changes. *)
LEMMA TlsSame ==
    ASSUME NEW q, NEW s, NEW ph, NEW n, NEW e, NEW e2, NEW closing, TlsTold(q, s, ph, n, e, closing),
           e2.stage = e.stage, e2.reason = e.reason, e2.c.read = e.c.read,
           e.reason = "peer_closed" /\ e.stage \in {"open", "closed"} =>
             e2.c.fin = e.c.fin /\ e2.c.sent = e.c.sent
    PROVE  TlsTold(q, s, ph, n, e2, closing)
BY DEF TlsTold, TlsReported, TlsEnd

(* The service closes a connection, or fails to write to it. *)
LEMMA TlsCut ==
    ASSUME NEW q, NEW s, NEW ph, NEW n, NEW e, NEW e2, NEW closing, TlsTold(q, s, ph, n, e, closing),
           e2.stage = "closed", e2.reason # "peer_closed"
    PROVE  TlsTold(q, s, ph, n, e2, closing)
BY DEF TlsTold, TlsReported, TlsEnd

(* Events of other sessions are behind or ahead. *)
LEMMA TlsOther ==
    ASSUME NEW q \in Seq(EventType), NEW r \in Seq(EventType), NEW s, NEW ph, NEW n, NEW e, NEW closing,
           TlsTold(q, s, ph, n, e, closing), \A p \in 1..Len(r) : r[p].session # s
    PROVE  TlsTold(q \o r, s, ph, n, e, closing) /\ TlsTold(r \o q, s, ph, n, e, closing)
<1>1. Flow(q \o r, s, ph, n, FALSE) /\ Flow(r \o q, s, ph, n, FALSE)
  BY FlowOther, FlowAhead DEF TlsTold, TlsReported
<1>2. /\ \A k : ~Has(r, s, k)
      /\ \A m : ~HasFrame(r, s, m) /\ UpTo(r, s, m)
  BY SilentSays
<1>3. /\ \A k : Has(q \o r, s, k) <=> Has(q, s, k)
      /\ \A m : HasFrame(q \o r, s, m) <=> HasFrame(q, s, m)
      /\ \A m : UpTo(q \o r, s, m) <=> UpTo(q, s, m)
  BY <1>2, CatSays
<1>4. /\ \A k : Has(r \o q, s, k) <=> Has(q, s, k)
      /\ \A m : HasFrame(r \o q, s, m) <=> HasFrame(q, s, m)
      /\ \A m : UpTo(r \o q, s, m) <=> UpTo(q, s, m)
  BY <1>2, CatSays
<1>5. TlsReported(q \o r, s, ph, n, e) /\ TlsReported(r \o q, s, ph, n, e)
  BY <1>1, <1>3, <1>4 DEF TlsTold, TlsReported
<1>6. \A m : (Heard(q \o r, s, n, m) <=> Heard(q, s, n, m)) /\ (Heard(r \o q, s, n, m) <=> Heard(q, s, n, m))
  BY <1>3, <1>4 DEF Heard
<1>7. TlsEnd(q \o r, s, ph, n, e, closing) /\ TlsEnd(r \o q, s, ph, n, e, closing)
  BY <1>3, <1>4, <1>6 DEF TlsTold, TlsEnd
<1> QED BY <1>5, <1>7 DEF TlsTold

(* The service handles the first event. *)
LEMMA TlsVisit ==
    ASSUME NEW q \in Seq(EventType), q # <<>>, NEW s, NEW ph \in {"unknown", "open", "over"},
           NEW n \in Nat, NEW e, NEW closing, e.c.read \div FrameSize \in Nat,
           TlsTold(q, s, ph, n, e, closing)
    PROVE  TlsTold(Tail(q), s, PhaseAfter(Head(q), s, ph), ToldAfter(Head(q), s, n), e, closing)
<1> DEFINE v == Head(q)
           t == Tail(q)
           ph2 == PhaseAfter(v, s, ph)
           n2 == ToldAfter(v, s, n)
<1>1. Flow(q, s, ph, n, FALSE)
  BY DEF TlsTold, TlsReported
<1>2. Flow(t, s, ph2, n2, FALSE)
  BY <1>1, FlowVisit
<1>3. /\ \A k : Has(q, s, k) <=> (v.session = s /\ v.kind = k) \/ Has(t, s, k)
      /\ \A m : HasFrame(q, s, m) <=>
           (v.session = s /\ v.kind = "Message" /\ v.frame = m) \/ HasFrame(t, s, m)
      /\ \A m : UpTo(q, s, m) <=>
           (v.session = s /\ v.kind = "Message" => v.frame <= m) /\ UpTo(t, s, m)
  BY TailSays
<1>4. v.frame \in Nat
  <2>1. v \in EventType
    OBVIOUS
  <2> QED BY <2>1 DEF EventType
<1>5. v.session = s => /\ v.kind \in {"Message", "Closed"} => ph = "open"
                       /\ v.kind = "Message" => v.frame > n
  BY <1>1, FlowHead
<1> HIDE DEF v, t
<1>6. ASSUME NEW m \in Nat, Heard(q, s, n, m) PROVE Heard(t, s, n2, m)
  <2>1. n2 <= m /\ UpTo(t, s, m)
    BY <1>3, <1>4, <1>6 DEF ToldAfter, Heard
  <2>2. CASE HasFrame(q, s, m)
    BY <1>3, <2>1, <2>2 DEF ToldAfter, Heard
  <2>3. CASE n = m
    <3>1. v.session = s /\ v.kind = "Message" => v.frame <= m
      BY <1>3, <1>6 DEF Heard
    <3>2. ~(v.session = s /\ v.kind = "Message")
      BY <1>4, <1>5, <2>3, <3>1
    <3> QED BY <2>1, <2>3, <3>2 DEF ToldAfter, Heard
  <2> QED BY <1>6, <2>2, <2>3 DEF Heard
<1>7. TlsReported(t, s, ph2, n2, e)
  <2>1. /\ ph # "unknown" \/ Has(q, s, "Opened") => e.stage \in {"open", "closed"}
        /\ ph = "over" \/ Has(q, s, "Closed") => e.stage = "closed"
        /\ e.stage = "open" => ph = "open" \/ Has(q, s, "Opened")
        /\ UpTo(q, s, Frames[s])
    BY DEF TlsTold, TlsReported
  <2>2. /\ ph2 # "unknown" \/ Has(t, s, "Opened") => e.stage \in {"open", "closed"}
        /\ ph2 = "over" \/ Has(t, s, "Closed") => e.stage = "closed"
        /\ e.stage = "open" => ph2 = "open" \/ Has(t, s, "Opened")
        /\ UpTo(t, s, Frames[s])
    BY <1>3, <1>5, <2>1 DEF PhaseAfter
  <2> HIDE DEF ph2, n2
  <2> QED BY <1>2, <2>2 DEF TlsReported
<1>8. TlsEnd(t, s, ph2, n2, e, closing)
  <2>1. /\ e.stage # "closed" /\ (s \in closing => e.reason = "peer_closed") =>
             Heard(q, s, n, e.c.read \div FrameSize)
        /\ e.stage = "handshake" /\ e.reason = "peer_closed" => s \in closing
        /\ e.stage = "open" /\ e.reason = "peer_closed" => e.c.fin /\ e.c.read = e.c.sent
        /\ e.stage = "closed" /\ e.reason = "peer_closed" =>
             /\ ~Has(q, s, "Message")
             /\ ph # "unknown" \/ Has(q, s, "Opened") => n = e.c.sent \div FrameSize
    BY DEF TlsTold, TlsEnd
  <2>2. e.stage # "closed" /\ (s \in closing => e.reason = "peer_closed") =>
          Heard(t, s, n2, e.c.read \div FrameSize)
    <3> DEFINE m == e.c.read \div FrameSize
    <3>1. m \in Nat
      OBVIOUS
    <3> HIDE DEF m
    <3>2. Heard(q, s, n, m) => Heard(t, s, n2, m)
      BY <1>6, <3>1
    <3> HIDE DEF n2
    <3> QED BY <2>1, <3>2 DEF m
  <2>3. e.stage = "closed" /\ e.reason = "peer_closed" =>
          /\ ~Has(t, s, "Message")
          /\ ph2 # "unknown" \/ Has(t, s, "Opened") => n2 = e.c.sent \div FrameSize
    BY <1>3, <1>5, <2>1 DEF PhaseAfter, ToldAfter
  <2> HIDE DEF ph2, n2
  <2> QED BY <2>1, <2>2, <2>3 DEF TlsEnd
<1> QED BY <1>7, <1>8 DEF TlsTold, v, t

-----------------------------------------------------------------------------
(* Numbers and sets.                                                       *)

(* What a whole number of frames leaves over. *)
LEMMA DivStep == ASSUME NEW a \in Nat
                 PROVE  LET d == a \div FrameSize IN
                        d \in Nat /\ FrameSize * d <= a /\ a < FrameSize * d + FrameSize
BY TlsConnectionAssumption

(* One more frame is FrameSize units more. *)
LEMMA TimesMore == ASSUME NEW p \in Nat, NEW q \in Nat, p < q
                   PROVE  FrameSize * p + FrameSize <= FrameSize * q
<1>1. PICK d \in Nat : q = p + 1 + d
  <2>1. q - p - 1 \in Nat
    OBVIOUS
  <2> QED BY <2>1
<1>2. FrameSize \in Nat /\ FrameSize * d \in Nat /\ FrameSize * p \in Nat
  BY TlsConnectionAssumption
<1>3. FrameSize * q = FrameSize * p + FrameSize + FrameSize * d
  BY <1>1, <1>2
<1> QED BY <1>2, <1>3

(* More units are no fewer frames. *)
LEMMA DivGrows == ASSUME NEW a \in Nat, NEW b \in Nat, a <= b
                  PROVE  a \div FrameSize <= b \div FrameSize
<1> DEFINE p == a \div FrameSize
           q == b \div FrameSize
<1>1. p \in Nat /\ q \in Nat /\ FrameSize * p <= a /\ b < FrameSize * q + FrameSize
  BY DivStep
<1> HIDE DEF p, q
<1>2. q < p => FrameSize * q + FrameSize <= FrameSize * p
  BY <1>1, TimesMore
<1>3. FrameSize * p \in Nat /\ FrameSize * q \in Nat /\ FrameSize \in Nat
  BY <1>1, TlsConnectionAssumption
<1>4. ~(q < p)
  BY <1>1, <1>2, <1>3
<1> QED BY <1>1, <1>4 DEF p, q

(* What fits n frames holds no more than n. *)
LEMMA DivBound == ASSUME NEW a \in Nat, NEW n \in Nat, a <= n * FrameSize
                  PROVE  a \div FrameSize <= n
<1> DEFINE p == a \div FrameSize
<1>1. p \in Nat /\ FrameSize * p <= a
  BY DivStep
<1> HIDE DEF p
<1>2. n < p => FrameSize * n + FrameSize <= FrameSize * p
  BY <1>1, TimesMore
<1>3. /\ FrameSize * p \in Nat /\ FrameSize * n \in Nat /\ FrameSize \in Nat \ {0}
      /\ n * FrameSize = FrameSize * n
  BY <1>1, TlsConnectionAssumption
<1>4. ~(n < p)
  BY <1>1, <1>2, <1>3
<1> QED BY <1>1, <1>4 DEF p

(* A set of numbers has a least one. *)
LEMMA LeastOf == ASSUME NEW T, T \subseteq Nat, T # {}
                 PROVE  Min(T) \in T
<1> DEFINE R == {p \in Nat \X Nat : p[1] < p[2]}
<1>1. IsWellFoundedOn(R, Nat)
  BY NatLessThanWellFounded, Zenon DEF OpToRel
<1> HIDE DEF R
<1>2. PICK x \in T : \A y \in T : ~(<<y, x>> \in R)
  BY <1>1, WFMin
<1>3. \A y \in T : ~(y < x)
  BY <1>2 DEF R
<1>4. \A y \in T : x <= y
  BY <1>3
<1> QED BY <1>4 DEF Min

(* The frames completed by reading on, first to last. *)
LEMMA FramesCount ==
    ASSUME NEW from \in Nat, NEW to \in Nat, from <= to
    PROVE  LET a == from \div FrameSize
               b == to \div FrameSize
               S == FramesIn(from, to)
           IN  /\ a \in Nat /\ b \in Nat /\ a <= b
               /\ S = (a + 1)..b /\ Cardinality(S) = b - a /\ (S # {} => Min(S) = a + 1)
<1> DEFINE a == from \div FrameSize
           b == to \div FrameSize
           S == FramesIn(from, to)
<1>1. a \in Nat /\ b \in Nat /\ a <= b
  BY DivStep, DivGrows
<1>2. S = (a + 1)..b
  BY DEF FramesIn
<1> HIDE DEF a, b, S
<1>3. Cardinality(S) = b - a
  <2>1. a + 1 \in Int /\ b \in Int
    BY <1>1
  <2>2. Cardinality((a + 1)..b) = IF a + 1 > b THEN 0 ELSE b - (a + 1) + 1
    BY <2>1, FS_Interval
  <2> QED BY <1>1, <1>2, <2>2
<1>4. S # {} => Min(S) = a + 1
  <2>1. SUFFICES ASSUME S # {} PROVE Min(S) = a + 1
    OBVIOUS
  <2>2. a + 1 \in S /\ \A y \in S : a + 1 <= y /\ y \in Nat
    BY <1>1, <1>2, <2>1
  <2>3. Min(S) \in S
    BY <2>2, LeastOf
  <2>4. \A y \in S : Min(S) <= y
    BY <2>2 DEF Min
  <2> QED BY <2>2, <2>3, <2>4
<1> QED BY <1>1, <1>2, <1>3, <1>4 DEF a, b, S

(* close_descriptor for several sessions reports each at most once. *)
LEMMA EndsOnce ==
    ASSUME NEW S, S \subseteq TlsPeers
    PROVE  LET r == ClosedEvents(S) IN
           /\ r \in Seq(EventType)
           /\ \A i \in 1..Len(r) : /\ r[i].kind = "Closed" /\ r[i].session \in S
                                   /\ conns[r[i].session].stage = "open"
           /\ \A i, j \in 1..Len(r) : r[i].session = r[j].session => i = j
<1> DEFINE T == {s \in S : conns[s].stage = "open"}
           f == SetToSeq(T)
           r == ClosedEvents(S)
<1>1. IsFiniteSet(T)
  BY TlsTransportAssumption, FS_Subset
<1>2. PICK n \in Nat : ExistsBijection(1..n, T)
  BY <1>1, FS_NatBijection
<1>3. Cardinality(T) = n
  BY <1>2, FS_CountingElements
<1>4. \E g \in [1..n -> T] : IsInjective(g)
  BY <1>2 DEF ExistsBijection, Bijection, Injection
<1>5. f \in [1..n -> T] /\ IsInjective(f)
  <2> HIDE DEF T
  <2> QED BY <1>3, <1>4 DEF SetToSeq
<1>6. r = [i \in 1..n |-> Event("Closed", f[i], 0)]
  BY <1>5 DEF ClosedEvents
<1> HIDE DEF f, r
<1>7. \A i \in 1..n : /\ r[i] = Event("Closed", f[i], 0) /\ f[i] \in T
                      /\ r[i].kind = "Closed" /\ r[i].session = f[i] /\ r[i] \in EventType
  BY <1>5, <1>6 DEF Event, EventType, Sessions
<1>8. r \in Seq(EventType) /\ Len(r) = n
  <2> DEFINE E == EventType
  <2>1. r \in [1..n -> E]
    BY <1>6, <1>7
  <2> HIDE DEF E
  <2>2. r \in Seq(E)
    BY <2>1, SeqDef
  <2>3. Len(r) = n
    BY <2>1, <2>2, LenProperties
  <2> QED BY <2>2, <2>3 DEF E
<1>9. \A i, j \in 1..n : f[i] = f[j] => i = j
  BY <1>5 DEF IsInjective
<1> QED BY <1>7, <1>8, <1>9 DEF r

-----------------------------------------------------------------------------
(* One connection is serviced.                                             *)

(* receive_frames hands out what it read, and PeerClosed is the end.       *)
LEMMA ReadsOn ==
    ASSUME NEW c \in ConnType, NEW budget \in Nat, NEW oversized,
           c.read <= c.sent, c.sent \in c.cuts \cup {0}
    PROVE  LET r == receive_frames(c, budget, oversized) IN
           /\ r.conn \in ConnType /\ r.conn.sent = c.sent /\ r.conn.cuts = c.cuts
           /\ r.conn.fin = c.fin /\ r.conn.out = c.out
           /\ c.read <= r.conn.read /\ r.conn.read <= c.sent
           /\ r.frames = FramesIn(c.read, r.conn.read)
           /\ r.status = "PeerClosed" => c.fin /\ r.conn.read = c.sent
<1> DEFINE to == ReadUpTo(c, budget)
           d == PullRecord(c, to)
           pulled == IF to <= c.pulled THEN c.pulled ELSE Min({k \in c.cuts : k >= to})
<1>1. /\ c.read \in Nat /\ c.sent \in Nat /\ c.pulled \in Nat /\ c.cuts \subseteq Nat
  BY DEF ConnType
<1>2. to \in Nat /\ c.read <= to /\ to <= c.sent
  BY <1>1 DEF ReadUpTo, Smaller
<1>3. FoundEnd(c, budget) => c.fin /\ to = c.sent
  BY <1>1 DEF FoundEnd, ReadUpTo, Smaller
<1> HIDE DEF to
<1>4. pulled \in Nat
  <2>1. CASE ~(to <= c.pulled)
    <3> DEFINE T == {k \in c.cuts : k >= to}
    <3>1. c.sent \in T /\ T \subseteq Nat
      BY <1>1, <1>2, <2>1
    <3> HIDE DEF T
    <3>2. Min(T) \in T
      BY <3>1, LeastOf
    <3> QED BY <2>1, <3>1, <3>2 DEF T
  <2> QED BY <1>1, <2>1
<1>5. d = [c EXCEPT !.read = to, !.pulled = pulled]
  BY DEF PullRecord, ConnType
<1> HIDE DEF pulled, d
<1>6. /\ d \in ConnType /\ d.sent = c.sent /\ d.cuts = c.cuts /\ d.fin = c.fin /\ d.out = c.out
      /\ d.read = to
  BY <1>2, <1>4, <1>5 DEF ConnType
<1> DEFINE r == receive_frames(c, budget, oversized)
<1>7. r.conn = d /\ r.frames = FramesIn(c.read, to)
  BY DEF receive_frames, to, d
<1>8. r.status = "PeerClosed" => FoundEnd(c, budget)
  BY DEF receive_frames
<1> HIDE DEF r
<1> QED BY <1>2, <1>3, <1>6, <1>7, <1>8 DEF r

(* The reading half. *)
LEMMA Receives ==
    ASSUME NEW s \in TlsPeers, NEW e \in EntryType, NEW flags, TlsSane(s, e),
           "peer_closed" \in flags => "readable" \in flags, e.stage \in {"handshake", "open"},
           e.reason = "peer_closed" => e.stage = "open" /\ e.c.fin /\ e.c.read = e.c.sent
    PROVE  LET x == Received(s, e, flags) IN
           /\ x = [e |-> x.e, frames |-> x.frames, now |-> x.now] /\ x.now \in BOOLEAN
           /\ x.e \in EntryType /\ x.e.stage = e.stage /\ x.e.c.sent = e.c.sent
           /\ x.e.c.cuts = e.c.cuts /\ x.e.c.out = e.c.out
           /\ e.c.read <= x.e.c.read /\ x.e.c.read <= e.c.sent
           /\ e.stage # "open" => x.e.c.read = e.c.read
           /\ x.frames = {} \/ (e.stage = "open" /\ x.frames = FramesIn(e.c.read, x.e.c.read))
           /\ x.frames = FramesIn(e.c.read, x.e.c.read) \/ x.now
           /\ x.now => x.e.reason # "peer_closed"
           /\ x.e.reason = "peer_closed" =>
                /\ e.stage = "handshake" => x.e.closing /\ x.frames = {}
                /\ e.stage = "open" => x.e.c.fin /\ x.e.c.read = x.e.c.sent
<1> DEFINE c == e.c
           x == Received(s, e, flags)
           r == receive_frames(c, Budget[s], Oversized[s])
           d == r.conn
           read == [e EXCEPT !.c = d]
<1>1. /\ c \in ConnType /\ Budget[s] \in Nat /\ c.read <= c.sent /\ c.sent \in c.cuts \cup {0}
      /\ c.read \in Nat /\ c.sent \in Nat
  BY TlsTransportAssumption DEF EntryType, TlsSane, ConnType
<1>2. FramesIn(c.read, c.read) = {}
  <2> DEFINE k == c.read
  <2>1. k \in Nat
    BY <1>1
  <2> HIDE DEF k
  <2>2. k \div FrameSize \in Nat /\ FramesIn(k, k) = (k \div FrameSize + 1)..(k \div FrameSize)
    BY <2>1, FramesCount
  <2> QED BY <2>2 DEF k
<1>3. /\ d \in ConnType /\ d.sent = c.sent /\ d.cuts = c.cuts /\ d.fin = c.fin /\ d.out = c.out
      /\ c.read <= d.read /\ d.read <= c.sent /\ r.frames = FramesIn(c.read, d.read)
      /\ r.status = "PeerClosed" => c.fin /\ d.read = c.sent
  BY <1>1, ReadsOn
<1>4. d.read \in Nat
  BY <1>3 DEF ConnType
<1>5. /\ read \in EntryType /\ read.c = d /\ read.stage = e.stage /\ read.reason = e.reason
  BY <1>3 DEF EntryType
<1>6. /\ e.stage \in {"handshake", "open"} /\ e.c = c
  OBVIOUS
<1> HIDE DEF r, d, c, read
<1>12. r.status \in {"FrameTooLarge", "Failed", "PeerClosed", "Open"}
  BY DEF r, receive_frames
<1>7. CASE e.reason = "tls_handshake_failed"
  <2>1. x = [e |-> e, frames |-> {}, now |-> TRUE]
    BY <1>7 DEF Received
  <2> HIDE DEF x
  <2> QED BY <1>1, <1>2, <1>6, <1>7, <2>1 DEF x
<1>8. CASE e.reason # "tls_handshake_failed" /\ (e.stage # "open" \/ "readable" \notin flags)
  <2> DEFINE e2 == [e EXCEPT !.closing = TRUE, !.reason = "peer_closed"]
             y == IF "peer_closed" \in flags THEN e2 ELSE e
  <2>1. x = [e |-> y, frames |-> {}, now |-> FALSE]
    BY <1>8 DEF Received
  <2>2. /\ e2 \in EntryType /\ e2.c = c /\ e2.stage = e.stage /\ e2.closing /\ e2.reason = "peer_closed"
    BY <1>6 DEF EntryType, TlsReasons
  <2>3. /\ y \in EntryType /\ y.c = c /\ y.stage = e.stage
        /\ y.reason = "peer_closed" =>
             /\ e.stage = "handshake" => y.closing
             /\ e.stage = "open" => y.c.fin /\ y.c.read = y.c.sent
    <3> HIDE DEF e2
    <3> QED BY <1>6, <1>8, <2>2
  <2> HIDE DEF x, y
  <2> QED BY <1>1, <1>2, <1>6, <2>1, <2>3 DEF x
<1>9. CASE /\ e.reason # "tls_handshake_failed" /\ e.stage = "open" /\ "readable" \in flags
           /\ r.status \in {"FrameTooLarge", "Failed"}
  <2>1. \E why \in {"frame_too_large", "receive_failed"} :
          x = [e |-> [read EXCEPT !.reason = why], frames |-> {}, now |-> TRUE]
    BY <1>9 DEF Received, r, d, read, c
  <2>2. PICK why \in {"frame_too_large", "receive_failed"} :
          x = [e |-> [read EXCEPT !.reason = why], frames |-> {}, now |-> TRUE]
    BY <2>1
  <2> DEFINE y == [read EXCEPT !.reason = why]
  <2>3. y \in EntryType /\ y.c = d /\ y.stage = e.stage /\ y.reason # "peer_closed"
    BY <1>5 DEF EntryType, TlsReasons
  <2> HIDE DEF x, y
  <2>4. x = [e |-> y, frames |-> {}, now |-> TRUE]
    BY <2>2 DEF y
  <2> QED BY <1>1, <1>3, <1>6, <1>9, <2>3, <2>4 DEF x
<1>10. CASE /\ e.reason # "tls_handshake_failed" /\ e.stage = "open" /\ "readable" \in flags
            /\ r.status = "PeerClosed"
  <2> DEFINE y == [read EXCEPT !.closing = TRUE, !.reason = "peer_closed"]
  <2>1. x = [e |-> y, frames |-> r.frames, now |-> FALSE]
    BY <1>10 DEF Received, r, d, read, c
  <2>2. y \in EntryType /\ y.c = d /\ y.stage = e.stage
    BY <1>5 DEF EntryType, TlsReasons
  <2> HIDE DEF x, y
  <2> QED BY <1>1, <1>3, <1>6, <1>10, <2>1, <2>2 DEF x
<1>11. CASE /\ e.reason # "tls_handshake_failed" /\ e.stage = "open" /\ "readable" \in flags
            /\ r.status = "Open"
  <2>1. x = [e |-> read, frames |-> r.frames, now |-> FALSE]
    BY <1>11 DEF Received, r, d, read, c
  <2>2. e.reason = "peer_closed" => c.fin /\ d.read = c.sent
    BY <1>1, <1>3, <1>4, <1>6
  <2> HIDE DEF x
  <2> QED BY <1>1, <1>3, <1>5, <1>6, <1>11, <2>1, <2>2 DEF x
<1> QED BY <1>7, <1>8, <1>9, <1>10, <1>11, <1>12

(* Both halves, and whether the connection is closed at once. *)
LEMMA Serves ==
    ASSUME NEW s \in TlsPeers, NEW e \in EntryType, NEW flags, TlsSane(s, e),
           "peer_closed" \in flags => "readable" \in flags, e.stage \in {"handshake", "open"},
           e.reason = "peer_closed" => e.stage = "open" /\ e.c.fin /\ e.c.read = e.c.sent
    PROVE  LET x == Flushed(Received(s, e, flags)) IN
           /\ x.e \in EntryType /\ x.e.stage = e.stage /\ x.e.c.sent = e.c.sent
           /\ e.c.read <= x.e.c.read /\ x.e.c.read <= e.c.sent
           /\ x.frames = {} \/ (e.stage = "open" /\ x.frames = FramesIn(e.c.read, x.e.c.read))
           /\ \/ x.frames = FramesIn(e.c.read, x.e.c.read)
              \/ CloseNow(x) /\ x.e.reason # "peer_closed"
           /\ x.e.reason = "peer_closed" =>
                /\ e.stage = "handshake" => CloseNow(x)
                /\ e.stage = "open" => x.e.c.fin /\ x.e.c.read = x.e.c.sent
                /\ CloseNow(x) => x.frames = {}
           /\ TlsSane(s, x.e)
<1> DEFINE y == Received(s, e, flags)
           x == Flushed(y)
<1>1. /\ y = [e |-> y.e, frames |-> y.frames, now |-> y.now] /\ y.now \in BOOLEAN
      /\ y.e \in EntryType /\ y.e.stage = e.stage /\ y.e.c.sent = e.c.sent
      /\ y.e.c.cuts = e.c.cuts /\ y.e.c.out = e.c.out
      /\ e.c.read <= y.e.c.read /\ y.e.c.read <= e.c.sent
      /\ e.stage # "open" => y.e.c.read = e.c.read
      /\ y.frames = {} \/ (e.stage = "open" /\ y.frames = FramesIn(e.c.read, y.e.c.read))
      /\ y.frames = FramesIn(e.c.read, y.e.c.read) \/ y.now
      /\ y.now => y.e.reason # "peer_closed"
      /\ y.e.reason = "peer_closed" =>
           /\ e.stage = "handshake" => y.e.closing /\ y.frames = {}
           /\ e.stage = "open" => y.e.c.fin /\ y.e.c.read = y.e.c.sent
  BY Receives
<1>2. /\ e.c.sent <= Frames[s] * FrameSize /\ e.c.sent \in e.c.cuts \cup {0}
      /\ e.stage # "open" => e.c.read = 0 /\ e.c.out = 0
  BY DEF TlsSane
<1> HIDE DEF y
<1>3. CASE y.now \/ y.e.stage # "open"
  <2>1. x = y
    BY <1>3 DEF Flushed
  <2>2. y.e.reason = "peer_closed" /\ e.stage = "handshake" => CloseNow(y)
    <3>1. e.stage = "handshake" => ~has_pending_output(y.e.c)
      BY <1>1, <1>2 DEF has_pending_output
    <3> QED BY <1>1, <3>1 DEF CloseNow
  <2>3. y.e.reason = "peer_closed" /\ CloseNow(y) => y.frames = {}
    BY <1>1 DEF CloseNow
  <2>4. y.now => CloseNow(y)
    BY DEF CloseNow
  <2>5. TlsSane(s, y.e)
    BY <1>1, <1>2 DEF TlsSane
  <2> HIDE DEF x
  <2> QED BY <1>1, <2>1, <2>2, <2>3, <2>4, <2>5 DEF x, y
<1>4. CASE ~y.now /\ y.e.stage = "open" /\ FlushFails(y.e.c)
  <2> DEFINE f == [y.e EXCEPT !.reason = "flush_failed"]
  <2>1. x = [e |-> f, frames |-> y.frames, now |-> TRUE]
    BY <1>1, <1>4 DEF Flushed
  <2>2. f \in EntryType /\ f.c = y.e.c /\ f.stage = y.e.stage /\ f.reason = "flush_failed"
    BY <1>1 DEF EntryType, TlsReasons
  <2> HIDE DEF x, f
  <2>3. TlsSane(s, f)
    BY <1>1, <1>2, <1>4, <2>2 DEF TlsSane
  <2>4. CloseNow(x)
    BY <2>1 DEF CloseNow
  <2> QED BY <1>1, <2>1, <2>2, <2>3, <2>4 DEF x, y
<1>5. CASE ~y.now /\ y.e.stage = "open" /\ ~FlushFails(y.e.c)
  <2> DEFINE o == flush_output(y.e.c)
             f == [y.e EXCEPT !.c = o]
  <2>1. x = [e |-> f, frames |-> y.frames, now |-> y.now]
    BY <1>1, <1>5 DEF Flushed
  <2>2. /\ o \in ConnType /\ o.sent = y.e.c.sent /\ o.read = y.e.c.read /\ o.fin = y.e.c.fin
        /\ o.cuts = y.e.c.cuts
    <3> DEFINE c == y.e.c
               n == Smaller(c.out, SockRoom - c.sock)
    <3>1. c \in ConnType
      BY <1>1 DEF EntryType
    <3> HIDE DEF c
    <3>2. c.out \in Int /\ c.sock \in Int
      BY <3>1 DEF ConnType
    <3>3. n \in Int
      BY <3>2, TlsConnectionAssumption DEF Smaller
    <3> DEFINE left == c.out - n
               taken == c.sock + n
    <3>4. o = [c EXCEPT !.out = left, !.sock = taken]
      BY DEF flush_output, c
    <3>6. left \in Int /\ taken \in Int
      BY <3>2, <3>3
    <3> HIDE DEF n, o, left, taken
    <3>5. o \in ConnType /\ o.sent = c.sent /\ o.read = c.read /\ o.fin = c.fin /\ o.cuts = c.cuts
      BY <3>1, <3>4, <3>6 DEF ConnType
    <3> QED BY <3>5 DEF c
  <2> HIDE DEF o
  <2>3. f \in EntryType /\ f.c = o /\ f.stage = y.e.stage /\ f.reason = y.e.reason
    BY <1>1, <2>2 DEF EntryType
  <2> HIDE DEF x, f
  <2>4. TlsSane(s, f)
    BY <1>1, <1>2, <1>5, <2>2, <2>3 DEF TlsSane
  <2>5. CloseNow(x) => x.frames = {}
    BY <1>5, <2>1 DEF CloseNow
  <2> QED BY <1>1, <1>5, <2>1, <2>2, <2>3, <2>4, <2>5 DEF x, y
<1> QED BY <1>1, <1>3, <1>4, <1>5

-----------------------------------------------------------------------------
(* The steps of a TLS connection outside the poll.                         *)

(* The types of what is looked at for a TLS connection. *)
LEMMA TlsStreams ==
    ASSUME ServiceTypes, TlsTypes
    PROVE  /\ TlsStream \in Seq(EventType) /\ inbox \in Seq(EventType) /\ poll.batch \in Seq(EventType)
           /\ \A s \in TlsPeers : /\ s \in Sessions /\ conns[s] \in EntryType
                                  /\ conns[s].c \in ConnType
                                  /\ phase[s] \in {"unknown", "open", "over"} /\ told[s] \in Nat
<1>1. TlsStream \in Seq(EventType)
  BY CatType DEF ServiceTypes, TlsTypes, TlsStream
<1> QED BY <1>1 DEF ServiceTypes, TlsTypes, Sessions, EntryType

(* What the invariant says of one connection. *)
LEMMA TlsOf ==
    ASSUME TlsPart, NEW s \in TlsPeers
    PROVE  /\ TlsTold(TlsStream, s, phase[s], told[s], conns[s], Closing)
           /\ TlsSane(s, conns[s])
BY DEF TlsPart, TlsTold

(* Between two polls nothing is gathered. *)
LEMMA AtRest ==
    ASSUME TlsPart, poll.at = "rest"
    PROVE  /\ poll.served = {} /\ DOMAIN poll.ready = {} /\ poll.closes = {} /\ poll.batch = <<>>
           /\ Closing = {} /\ poll = Resting
<1>1. poll = Resting
  BY DEF TlsPart, PollOk
<1>2. poll.ready = <<>> /\ poll.served = {} /\ poll.closes = {} /\ poll.batch = <<>>
  BY <1>1 DEF Resting
<1>3. DOMAIN poll.ready = {}
  BY <1>2
<1> QED BY <1>1, <1>2, <1>3 DEF Closing

(* Events are handled or come in, and the connections stay. *)
LEMMA TlsKeeps ==
    ASSUME TlsPart, UNCHANGED tls, poll.at = "serve" => inbox' = <<>>,
           \A t \in TlsPeers : TlsTold(TlsStream', t, phase'[t], told'[t], conns[t], Closing)
    PROVE  TlsPart'
<1>1. TlsTypes' /\ Closing' = Closing
  BY DEF TlsPart, TlsTypes, tls, Held, Closing
<1>2. PollOk'
  BY DEF TlsPart, PollOk, tls, Resting
<1> QED BY <1>1, <1>2 DEF TlsPart, TlsTold, tls

(* One connection changes while the poll stands still. *)
LEMMA TlsMove ==
    ASSUME TlsPart, UNCHANGED poll, poll.at = "serve" => inbox' = <<>>,
           NEW s \in TlsPeers, NEW e \in EntryType, conns' = [conns EXCEPT ![s] = e], TlsSane(s, e),
           poll.at = "rest" \/ (e.stage = conns[s].stage /\ e.reason = conns[s].reason),
           TlsTold(TlsStream', s, phase'[s], told'[s], e, Closing),
           \A t \in TlsPeers \ {s} :
             TlsTold(TlsStream', t, phase'[t], told'[t], conns[t], Closing)
    PROVE  TlsPart'
<1>1. /\ conns' \in [TlsPeers -> EntryType] /\ conns'[s] = e /\ conns[s] \in EntryType
      /\ \A t \in TlsPeers \ {s} : conns'[t] = conns[t]
  BY DEF TlsPart, TlsTypes
<1>2. CASE poll.at = "rest"
  <2>1. /\ poll.served = {} /\ DOMAIN poll.ready = {} /\ poll.closes = {} /\ poll.batch = <<>>
        /\ Closing = {} /\ poll = Resting
    BY <1>2, AtRest
  <2>2. TlsTypes'
    BY <1>1, <2>1 DEF TlsPart, TlsTypes
  <2>3. PollOk'
    BY <1>2, <2>1 DEF PollOk, Resting
  <2>4. Closing' = Closing
    BY DEF Closing
  <2> QED BY <1>1, <2>2, <2>3, <2>4 DEF TlsPart, TlsTold
<1>3. CASE e.stage = conns[s].stage /\ e.reason = conns[s].reason
  <2>1. Held' = Held
    BY <1>1, <1>3 DEF Held
  <2>2. TlsTypes'
    BY <1>1, <2>1 DEF TlsPart, TlsTypes
  <2>3. \A p \in poll.closes : conns'[p[1]].reason = conns[p[1]].reason
    <3>1. \A p \in poll.closes : p[1] \in TlsPeers
      BY DEF TlsPart, TlsTypes, Held
    <3> QED BY <1>1, <1>3, <3>1
  <2>4. PollOk'
    BY <2>3 DEF TlsPart, PollOk, Resting
  <2>5. Closing' = Closing
    BY DEF Closing
  <2> QED BY <1>1, <2>2, <2>4, <2>5 DEF TlsPart, TlsTold
<1> QED BY <1>2, <1>3

(* What the peer does. *)
LEMMA TlsPeerActs ==
    ASSUME ServiceTypes, TlsPart, UNCHANGED <<inbox, phase, told>>, NEW s \in TlsPeers,
           \/ Dial(s) \/ ShutWrite(s) \/ Break(s) \/ ReadReply(s)
           \/ \E n \in 1..(Frames[s] * FrameSize) : Write(s, n)
    PROVE  TlsPart'
<1> DEFINE o == conns[s]
<1>1. /\ o \in EntryType /\ o.c \in ConnType /\ TlsSane(s, o) /\ UNCHANGED poll
      /\ TlsTold(TlsStream, s, phase[s], told[s], o, Closing)
      /\ Frames[s] \in Nat /\ FrameSize \in Nat
  BY TlsStreams, TlsOf, TlsTransportAssumption, TlsConnectionAssumption
     DEF TlsPart, Dial, ShutWrite, Break, ReadReply, Write
<1>2. ASSUME NEW e \in EntryType, conns' = [conns EXCEPT ![s] = e], TlsSane(s, e),
             poll.at = "rest" \/ (e.stage = o.stage /\ e.reason = o.reason),
             TlsTold(TlsStream, s, phase[s], told[s], e, Closing)
      PROVE  TlsPart'
  <2>1. TlsStream' = TlsStream
    BY <1>1 DEF TlsStream
  <2>2. poll.at = "serve" => inbox' = <<>>
    BY DEF TlsPart, PollOk
  <2>3. \A t \in TlsPeers : TlsTold(TlsStream, t, phase[t], told[t], conns[t], Closing)
    BY TlsOf
  <2> QED BY <1>1, <1>2, <2>1, <2>2, <2>3, TlsMove
<1>3. ASSUME NEW d \in ConnType, conns' = [conns EXCEPT ![s].c = d], d.read = o.c.read, d.out = o.c.out,
             d.sent <= Frames[s] * FrameSize, d.sent \in d.cuts \cup {0}, d.read <= d.sent,
             o.reason = "peer_closed" /\ o.stage \in {"open", "closed"} =>
               d.fin = o.c.fin /\ d.sent = o.c.sent
      PROVE  TlsPart'
  <2> DEFINE e == [o EXCEPT !.c = d]
  <2>1. e \in EntryType /\ e.stage = o.stage /\ e.reason = o.reason /\ e.c = d
    BY <1>1 DEF EntryType
  <2>2. conns' = [conns EXCEPT ![s] = e]
    BY <1>3
  <2> HIDE DEF e
  <2>3. TlsTold(TlsStream, s, phase[s], told[s], e, Closing)
    BY <1>1, <1>3, <2>1, TlsSame
  <2>4. TlsSane(s, e)
    BY <1>1, <1>3, <2>1 DEF TlsSane
  <2> QED BY <1>2, <2>1, <2>2, <2>3, <2>4
<1>4. /\ o.c.sent \in Nat /\ o.c.read \in Nat /\ o.c.cuts \subseteq Nat
      /\ o.c.read <= o.c.sent /\ o.c.sent <= Frames[s] * FrameSize /\ o.c.sent \in o.c.cuts \cup {0}
  BY <1>1 DEF ConnType, TlsSane
<1>10. s \in Held /\ ~o.c.fin => ~(o.reason = "peer_closed" /\ o.stage \in {"open", "closed"})
  BY <1>1 DEF Held, TlsTold, TlsEnd
<1>5. CASE Dial(s)
  <2> DEFINE e == [o EXCEPT !.stage = "dialing"]
  <2>1. conns' = [conns EXCEPT ![s] = e] /\ o.stage = "away"
    BY <1>5 DEF Dial
  <2>2. e \in EntryType /\ e.stage = "dialing" /\ e.reason = o.reason /\ e.c = o.c
    BY <1>1 DEF EntryType
  <2> HIDE DEF e
  <2>3. TlsSane(s, e) /\ o.reason = "unknown"
    BY <1>1, <2>1, <2>2 DEF TlsSane
  <2>4. TlsTold(TlsStream, s, phase[s], told[s], e, Closing)
    BY <1>1, <2>1, <2>2, <2>3 DEF TlsTold, TlsReported, TlsEnd
  <2>5. s \notin Held
    BY <2>1 DEF Held
  <2>6. s \notin Closing /\ s \notin DOMAIN poll.ready /\ s \notin poll.served
    BY <2>5 DEF TlsPart, TlsTypes, Closing
  <2>7. TlsPart'
    <3>1. /\ conns' \in [TlsPeers -> EntryType] /\ conns'[s] = e
          /\ \A t \in TlsPeers \ {s} : conns'[t] = conns[t]
      BY <2>1, <2>2 DEF TlsPart, TlsTypes
    <3>2. Held' = Held
      BY <2>2, <2>5, <3>1 DEF Held
    <3>3. TlsTypes'
      BY <1>1, <3>1, <3>2 DEF TlsPart, TlsTypes
    <3>4. \A p \in poll.closes : conns'[p[1]].reason = conns[p[1]].reason
      <4>1. \A p \in poll.closes : p[1] \in TlsPeers
        BY DEF TlsPart, TlsTypes, Held
      <4> QED BY <2>2, <3>1, <4>1
    <3>5. PollOk'
      BY <1>1, <3>4 DEF TlsPart, PollOk, Resting
    <3>6. Closing' = Closing /\ TlsStream' = TlsStream
      BY <1>1 DEF Closing, TlsStream
    <3> QED BY <2>3, <2>4, <3>1, <3>3, <3>5, <3>6 DEF TlsPart, TlsTold
  <2> QED BY <2>7
<1>6. CASE ShutWrite(s)
  <2> DEFINE d == [o.c EXCEPT !.fin = TRUE]
  <2>1. conns' = [conns EXCEPT ![s].c = d] /\ ~o.c.fin /\ s \in Held
    BY <1>6 DEF ShutWrite
  <2>2. /\ d \in ConnType /\ d.read = o.c.read /\ d.out = o.c.out /\ d.sent = o.c.sent
        /\ d.cuts = o.c.cuts
    BY <1>1 DEF ConnType
  <2> HIDE DEF d
  <2>3. ~(o.reason = "peer_closed" /\ o.stage \in {"open", "closed"})
    BY <1>10, <2>1
  <2> QED BY <1>3, <1>4, <2>1, <2>2, <2>3
<1>7. CASE Break(s)
  <2> DEFINE d == [o.c EXCEPT !.rst = TRUE]
  <2>1. conns' = [conns EXCEPT ![s].c = d]
    BY <1>7 DEF Break
  <2>2. /\ d \in ConnType /\ d.read = o.c.read /\ d.out = o.c.out /\ d.sent = o.c.sent
        /\ d.cuts = o.c.cuts /\ d.fin = o.c.fin
    BY <1>1 DEF ConnType
  <2> HIDE DEF d
  <2> QED BY <1>3, <1>4, <2>1, <2>2
<1>8. CASE ReadReply(s)
  <2> DEFINE d == PeerReads(o.c)
  <2>1. conns' = [conns EXCEPT ![s].c = d]
    BY <1>8 DEF ReadReply
  <2>2. /\ d \in ConnType /\ d.read = o.c.read /\ d.out = o.c.out /\ d.sent = o.c.sent
        /\ d.cuts = o.c.cuts /\ d.fin = o.c.fin
    <3> DEFINE c == o.c
               sock == c.sock - 1
               got == c.got + 1
    <3>1. c \in ConnType
      BY <1>1
    <3> HIDE DEF c
    <3>2. sock \in Int /\ got \in Int
      BY <3>1 DEF ConnType
    <3>3. d = [c EXCEPT !.sock = sock, !.got = got]
      BY DEF PeerReads, c
    <3> HIDE DEF d, sock, got
    <3>4. /\ d \in ConnType /\ d.read = c.read /\ d.out = c.out /\ d.sent = c.sent
          /\ d.cuts = c.cuts /\ d.fin = c.fin
      BY <3>1, <3>2, <3>3 DEF ConnType
    <3> QED BY <3>4 DEF c
  <2> HIDE DEF d
  <2> QED BY <1>3, <1>4, <2>1, <2>2
<1>9. ASSUME NEW n \in 1..(Frames[s] * FrameSize), Write(s, n) PROVE TlsPart'
  <2> DEFINE c == o.c
             d == PeerWrites(c, n)
             m == c.sent + n
             cuts == c.cuts \cup {m}
  <2>1. conns' = [conns EXCEPT ![s].c = d] /\ ~c.fin /\ s \in Held /\ m <= Frames[s] * FrameSize
    BY <1>9 DEF Write
  <2>2. n \in Nat /\ c \in ConnType /\ c.sent \in Nat /\ c.read \in Nat /\ c.read <= c.sent
    BY <1>1, <1>4
  <2>3. m \in Nat /\ cuts \subseteq Nat /\ c.read <= m
    BY <1>4, <2>2
  <2>4. d = [c EXCEPT !.sent = m, !.cuts = cuts]
    BY DEF PeerWrites
  <2>5. m \in cuts
    OBVIOUS
  <2>6. ~(o.reason = "peer_closed" /\ o.stage \in {"open", "closed"})
    BY <1>10, <2>1
  <2> HIDE DEF m, cuts, d
  <2>7. d \in ConnType /\ d.read = c.read /\ d.out = c.out /\ d.sent = m /\ d.cuts = cuts
    BY <2>2, <2>3, <2>4 DEF ConnType
  <2> QED BY <1>3, <2>1, <2>3, <2>5, <2>6, <2>7
<1> QED BY <1>5, <1>6, <1>7, <1>8, <1>9

-----------------------------------------------------------------------------
(* The poll.                                                               *)

(* The poll begins. *)
LEMMA TlsWaits ==
    ASSUME ServiceTypes, TlsPart, UNCHANGED <<inbox, phase, told>>, inbox = <<>>, Wait
    PROVE  TlsPart'
<1>1. /\ poll.served = {} /\ DOMAIN poll.ready = {} /\ poll.closes = {} /\ poll.batch = <<>>
      /\ Closing = {}
  BY AtRest DEF Wait
<1>2. PICK S \in Accepted(MaxSessions - Cardinality(Held)) :
        conns' = [s \in TlsPeers |->
                     IF conns[s].stage # "dialing" THEN conns[s]
                     ELSE [conns[s] EXCEPT !.stage = IF s \in S THEN "handshake" ELSE "refused"]]
  BY DEF Wait
<1>3. ASSUME NEW s \in TlsPeers
      PROVE  /\ conns'[s] \in EntryType /\ TlsSane(s, conns'[s])
             /\ s \in Held => conns'[s] = conns[s]
             /\ TlsTold(TlsStream, s, phase[s], told[s], conns'[s], {})
  <2> DEFINE o == conns[s]
  <2>1. /\ o \in EntryType /\ TlsSane(s, o)
        /\ TlsTold(TlsStream, s, phase[s], told[s], o, {})
    BY <1>1, TlsOf, TlsStreams DEF TlsPart
  <2>2. CASE o.stage # "dialing"
    BY <1>2, <2>1, <2>2
  <2>3. CASE o.stage = "dialing"
    <3> DEFINE stage == IF s \in S THEN "handshake" ELSE "refused"
               e == [o EXCEPT !.stage = stage]
    <3>1. stage \in {"handshake", "refused"} /\ conns'[s] = e
      BY <1>2, <2>3
    <3> HIDE DEF stage
    <3>2. e \in EntryType /\ e.stage = stage /\ e.reason = o.reason /\ e.c = o.c
      BY <2>1, <3>1 DEF EntryType
    <3> HIDE DEF e
    <3>3. TlsSane(s, e) /\ e.reason = "unknown"
      BY <2>1, <2>3, <3>1, <3>2 DEF TlsSane
    <3>4. TlsTold(TlsStream, s, phase[s], told[s], e, {})
      BY <2>1, <2>3, <3>1, <3>2, <3>3 DEF TlsTold, TlsReported, TlsEnd
    <3> QED BY <2>3, <3>1, <3>2, <3>3, <3>4 DEF Held
  <2> QED BY <2>2, <2>3
<1> DEFINE ready == [s \in ReadySet |-> Flags(conns[s])]
<1>4. poll' = [at |-> "serve", ready |-> ready, served |-> {}, active |-> {}, closes |-> {}, batch |-> <<>>]
  BY DEF Wait, Resting
<1>5. /\ DOMAIN ready \subseteq Held
      /\ \A s \in DOMAIN ready : "peer_closed" \in ready[s] => "readable" \in ready[s]
  BY DEF ReadySet, Flags, Readable
<1> HIDE DEF ready
<1>6. Held \subseteq Held'
  BY <1>3 DEF Held
<1>7. conns' \in [TlsPeers -> EntryType]
  BY <1>2, <1>3
<1>8. <<>> \in Seq(EventType)
  OBVIOUS
<1>9. TlsTypes'
  BY <1>4, <1>5, <1>6, <1>7, <1>8 DEF TlsTypes, PollFields
<1>10. PollOk'
  BY <1>4, <1>5 DEF PollOk
<1>11. TlsStream' = TlsStream /\ Closing' = {}
  BY <1>1, <1>4 DEF TlsStream, Closing
<1> QED BY <1>3, <1>9, <1>10, <1>11 DEF TlsPart, TlsTold

(* Those that SSL holds input of are ready, too. *)
LEMMA TlsAgain ==
    ASSUME ServiceTypes, TlsPart, UNCHANGED <<inbox, phase, told>>, SecondPass
    PROVE  TlsPart'
<1> DEFINE ready == [s \in Buffered |-> {"readable"}]
<1>1. poll' = [poll EXCEPT !.ready = ready] /\ UNCHANGED conns /\ poll.at = "serve"
  BY DEF SecondPass
<1>2. /\ DOMAIN ready \subseteq Held \ poll.served
      /\ \A s \in DOMAIN ready : "peer_closed" \in ready[s] => "readable" \in ready[s]
  BY DEF Buffered
<1> HIDE DEF ready
<1>3. poll' = [at |-> poll.at, ready |-> ready, served |-> poll.served,
               active |-> poll.active, closes |-> poll.closes, batch |-> poll.batch]
  BY <1>1 DEF TlsPart, TlsTypes, PollFields
<1>4. TlsTypes'
  BY <1>1, <1>2, <1>3 DEF TlsPart, TlsTypes, PollFields, Held
<1>5. PollOk'
  BY <1>1, <1>2, <1>3 DEF TlsPart, PollOk
<1>6. TlsStream' = TlsStream /\ Closing' = Closing
  BY <1>3 DEF TlsStream, Closing
<1> QED BY <1>1, <1>4, <1>5, <1>6 DEF TlsPart

(* The poll ends, and gives the service what it has gathered. *)
LEMMA TlsFinishes ==
    ASSUME ServiceTypes, TlsPart, UNCHANGED <<phase, told>>, inbox = <<>>,
           NEW late \in SUBSET Held, Finish(late, Give)
    PROVE  /\ TlsPart' /\ ServiceTypes'
           /\ \A i \in 1..Len(inbox') : inbox'[i].session \in TlsPeers
<1> DEFINE served == Closing
           gone == served \cup late
           r == ClosedEvents(gone)
           q == TlsStream
<1>1. /\ conns' = [s \in TlsPeers |->
             IF s \in gone
             THEN [conns[s] EXCEPT !.stage = "closed",
                                   !.reason = IF s \in served THEN FirstReason(s) ELSE TimedOut(s)]
             ELSE conns[s]]
      /\ poll' = Resting /\ inbox' = poll.batch \o r /\ poll.at = "serve"
  BY DEF Finish, Give, Closing
<1>2. /\ q = poll.batch /\ q \in Seq(EventType)
      /\ \A i \in 1..Len(q) : q[i].session \in poll.served
  <2>1. q = poll.batch
    BY CatNothing, TlsStreams DEF TlsStream, TlsPart
  <2> QED BY <2>1, TlsStreams DEF TlsPart, PollOk
<1>3. served \subseteq Held /\ gone \subseteq Held /\ Held \subseteq TlsPeers
  BY DEF TlsPart, TlsTypes, Held, Closing
<1>4. /\ r \in Seq(EventType)
      /\ \A i \in 1..Len(r) : /\ r[i].kind = "Closed" /\ r[i].session \in gone
                              /\ conns[r[i].session].stage = "open"
      /\ \A i, j \in 1..Len(r) : r[i].session = r[j].session => i = j
  BY <1>3, EndsOnce
<1> HIDE DEF r, q, gone, served
<1>5. q \o r \in Seq(EventType) /\ TlsStream' = q \o r /\ inbox' = q \o r
  <2>1. q \o r \in Seq(EventType) /\ inbox' = q \o r
    BY <1>1, <1>2, <1>4, CatType
  <2>2. poll'.batch = <<>>
    BY <1>1 DEF Resting
  <2>3. TlsStream' = (q \o r) \o <<>>
    BY <2>1, <2>2 DEF TlsStream
  <2> QED BY <2>1, <2>3, CatNothing
<1>6. \A i \in 1..Len(inbox') : inbox'[i].session \in TlsPeers
  <2>1. \A i \in 1..Len(q) : q[i].session \in TlsPeers
    BY <1>2 DEF TlsPart, TlsTypes, Held
  <2>2. \A i \in 1..Len(r) : r[i].session \in TlsPeers
    BY <1>3, <1>4
  <2>3. \A i \in 1..Len(q \o r) : \/ i \in 1..Len(q) /\ (q \o r)[i] = q[i]
                                  \/ \E j \in 1..Len(r) : (q \o r)[i] = r[j]
    BY <1>2, <1>4, CatPlace
  <2> QED BY <1>5, <2>1, <2>2, <2>3
<1>7. ASSUME NEW s \in TlsPeers
      PROVE  /\ conns'[s] \in EntryType /\ TlsSane(s, conns'[s])
             /\ TlsTold(q \o r, s, phase[s], told[s], conns'[s], {})
  <2> DEFINE o == conns[s]
             ph == phase[s]
             n == told[s]
  <2>1. /\ o \in EntryType /\ TlsSane(s, o) /\ TlsTold(q, s, ph, n, o, served) /\ n \in Nat
    BY TlsOf, TlsStreams DEF TlsPart, q, served
  <2>2. CASE s \notin gone
    <3>1. \A p \in 1..Len(r) : r[p].session # s
      BY <1>4, <2>2
    <3>2. s \notin served
      BY <2>2 DEF gone
    <3>3. TlsTold(q, s, ph, n, o, {})
      BY <2>1, <3>2 DEF TlsTold, TlsEnd
    <3> HIDE DEF o, ph, n
    <3>4. TlsTold(q \o r, s, ph, n, o, {})
      BY <1>2, <1>4, <3>1, <3>3, TlsOther
    <3> QED BY <1>1, <2>1, <2>2, <3>4 DEF o, ph, n
  <2>3. CASE s \in gone
    <3> DEFINE why == IF s \in served THEN FirstReason(s) ELSE TimedOut(s)
               e == [o EXCEPT !.stage = "closed", !.reason = why]
    <3>1. o.stage \in {"handshake", "open"}
      BY <1>3, <2>3 DEF Held
    <3>2. s \in served => why = o.reason
      <4>1. SUFFICES ASSUME s \in served PROVE FirstReason(s) = o.reason
        OBVIOUS
      <4> DEFINE T == {p[2] : p \in {w \in poll.closes : w[1] = s}}
      <4>2. \A p \in poll.closes : conns[p[1]].reason = p[2]
        BY DEF TlsPart, PollOk
      <4>3. \E p \in poll.closes : p[1] = s
        BY <4>1 DEF served, Closing
      <4>4. T = {o.reason}
        BY <4>2, <4>3
      <4> HIDE DEF T
      <4>5. FirstReason(s) = CHOOSE w \in T : TRUE
        BY DEF FirstReason, T
      <4> QED BY <4>4, <4>5
    <3>3. s \notin served => why \in {"tls_handshake_timeout", "idle_timeout"}
      BY DEF TimedOut
    <3>4. conns'[s] = e
      BY <1>1, <2>3
    <3>5. why \in TlsReasons
      BY <2>1, <3>2, <3>3 DEF EntryType, TlsReasons
    <3> HIDE DEF why
    <3>6. e \in EntryType /\ e.stage = "closed" /\ e.reason = why /\ e.c = o.c
      BY <2>1, <3>5 DEF EntryType
    <3> HIDE DEF e
    <3>7. TlsSane(s, e)
      BY <2>1, <3>6 DEF TlsSane
    <3>8. /\ \A k : ~(k = "Closed") => ~Has(r, s, k)
          /\ \A m : ~HasFrame(r, s, m) /\ UpTo(r, s, m)
          /\ Has(r, s, "Closed") => o.stage = "open"
      BY <1>4 DEF Has, HasFrame, UpTo, Says
    <3>9. /\ \A k : Has(q \o r, s, k) <=> Has(q, s, k) \/ Has(r, s, k)
          /\ \A m : HasFrame(q \o r, s, m) <=> HasFrame(q, s, m) \/ HasFrame(r, s, m)
          /\ \A m : UpTo(q \o r, s, m) <=> UpTo(q, s, m) /\ UpTo(r, s, m)
      BY <1>2, <1>4, CatSays
    <3>10. /\ Flow(q, s, ph, n, FALSE) /\ ph # "over" /\ ~Has(q, s, "Closed")
           /\ o.stage = "open" => ph = "open" \/ Has(q, s, "Opened")
           /\ ph # "unknown" \/ Has(q, s, "Opened") => o.stage = "open"
           /\ UpTo(q, s, Frames[s])
      BY <2>1, <3>1 DEF TlsTold, TlsReported
    <3>11. Flow(q \o r, s, ph, n, FALSE)
      <4> HIDE DEF o, ph, n
      <4> QED BY <1>2, <1>4, <2>1, <3>8, <3>10, FlowEnds
    <3>12. TlsReported(q \o r, s, ph, n, e)
      BY <3>6, <3>8, <3>9, <3>10, <3>11 DEF TlsReported
    <3>13. e.reason = "peer_closed" =>
             /\ ~Has(q \o r, s, "Message")
             /\ ph # "unknown" \/ Has(q \o r, s, "Opened") => n = e.c.sent \div FrameSize
      <4>1. SUFFICES ASSUME e.reason = "peer_closed"
                     PROVE  /\ ~Has(q \o r, s, "Message")
                            /\ ph # "unknown" \/ Has(q \o r, s, "Opened") => n = e.c.sent \div FrameSize
        OBVIOUS
      <4>2. s \in served /\ o.reason = "peer_closed"
        BY <3>2, <3>3, <3>6, <4>1
      <4>3. ~Has(q, s, "Message")
        BY <1>2, <4>2 DEF served, Closing, TlsPart, PollOk
      <4>4. ~Has(q \o r, s, "Message")
        BY <3>8, <3>9, <4>3
      <4>5. ~HasFrame(q, s, o.c.read \div FrameSize)
        BY <4>3 DEF HasFrame, Has
      <4>6. Heard(q, s, n, o.c.read \div FrameSize)
        BY <2>1, <3>1, <4>2 DEF TlsTold, TlsEnd
      <4>7. n = o.c.read \div FrameSize
        BY <4>5, <4>6 DEF Heard
      <4>8. o.stage = "open" => o.c.read = o.c.sent
        BY <2>1, <4>2 DEF TlsTold, TlsEnd
      <4>9. ph # "unknown" \/ Has(q \o r, s, "Opened") => o.stage = "open"
        BY <3>8, <3>9, <3>10
      <4>10. o.stage = "open" => n = e.c.sent \div FrameSize
        BY <3>6, <4>7, <4>8
      <4> QED BY <4>4, <4>9, <4>10
    <3>14. TlsEnd(q \o r, s, ph, n, e, {})
      BY <3>6, <3>13 DEF TlsEnd
    <3> QED BY <3>4, <3>6, <3>7, <3>12, <3>14 DEF TlsTold
  <2> QED BY <2>2, <2>3
<1>8. /\ poll'.at = "rest" /\ poll'.served = {} /\ DOMAIN poll'.ready = {} /\ poll'.closes = {}
      /\ poll'.batch = <<>> /\ Closing' = {}
  <2>1. /\ poll'.at = "rest" /\ poll'.served = {} /\ poll'.ready = <<>> /\ poll'.closes = {}
        /\ poll'.batch = <<>>
    BY <1>1 DEF Resting
  <2>2. DOMAIN poll'.ready = {}
    BY <2>1
  <2> QED BY <2>1, <2>2 DEF Closing
<1>9. TlsTypes'
  <2>1. conns' \in [TlsPeers -> EntryType]
    BY <1>1, <1>7
  <2>2. <<>> \in Seq(EventType)
    OBVIOUS
  <2> QED BY <1>1, <1>8, <2>1, <2>2 DEF TlsTypes, PollFields, Resting
<1>10. PollOk'
  <2>1. Len(poll'.batch) = 0
    BY <1>8
  <2>2. 1..Len(poll'.batch) = {} /\ poll'.at # "serve"
    BY <1>8, <2>1
  <2>3. (poll = Resting)'
    BY <1>1 DEF Resting
  <2> QED BY <1>8, <2>2, <2>3 DEF PollOk
<1>11. ServiceTypes'
  BY <1>5 DEF ServiceTypes
<1> QED BY <1>5, <1>6, <1>7, <1>8, <1>9, <1>10, <1>11 DEF TlsPart, TlsTold

(* The messages of the frames S. *)
MessagesOf(s, S) == [i \in 1..Cardinality(S) |-> Event("Message", s, Min(S) + i - 1)]

(* The frames that were completed are reported behind what came before. *)
LEMMA Hears ==
    ASSUME NEW q \in Seq(EventType), NEW s \in TlsPeers, NEW ph, NEW from \in Nat, NEW to \in Nat,
           from <= to, to <= Frames[s] * FrameSize, Flow(q, s, ph, from \div FrameSize, FALSE),
           ph # "over", ~Has(q, s, "Closed"), ~Has(q, s, "Message"),
           NEW S, S = {} \/ (S = FramesIn(from, to) /\ (ph = "open" \/ Has(q, s, "Opened")))
    PROVE  LET heard == MessagesOf(s, S)
               l == q \o heard
               n == from \div FrameSize
           IN  /\ heard \in Seq(EventType) /\ \A i \in 1..Len(heard) : heard[i].session = s
               /\ S = {} => heard = <<>>
               /\ Flow(l, s, ph, n, FALSE) /\ ~Has(l, s, "Closed")
               /\ Has(l, s, "Opened") <=> Has(q, s, "Opened")
               /\ UpTo(l, s, Frames[s])
               /\ S = FramesIn(from, to) => Heard(l, s, n, to \div FrameSize)
<1> DEFINE heard == MessagesOf(s, S)
           l == q \o heard
           a == from \div FrameSize
           b == to \div FrameSize
           F == FramesIn(from, to)
<1>1. /\ a \in Nat /\ b \in Nat /\ a <= b
      /\ F = (a + 1)..b /\ Cardinality(F) = b - a /\ (F # {} => Min(F) = a + 1)
  BY FramesCount
<1>2. Frames[s] \in Nat /\ b <= Frames[s]
  BY TlsTransportAssumption, DivBound
<1>3. s \in Sessions
  BY DEF Sessions
<1>4. /\ ~Has(q, s, "Closed") /\ ~Has(q, s, "Message") /\ \A m : ~HasFrame(q, s, m) /\ UpTo(q, s, m)
      /\ Flow(q, s, ph, a, FALSE)
  BY DEF Has, HasFrame, UpTo
<1> HIDE DEF a, b, F
<1>5. CASE S = {}
  <2>1. heard = <<>>
    BY <1>5, FS_EmptySet DEF MessagesOf
  <2>2. l = q
    BY <2>1, CatNothing
  <2>3. S = F => a = b
    BY <1>1, <1>5
  <2>4. UpTo(l, s, Frames[s]) /\ UpTo(l, s, b)
    BY <1>4, <2>2
  <2>5. heard \in Seq(EventType) /\ \A i \in 1..Len(heard) : heard[i].session = s
    <3>1. Len(<<>>) = 0 /\ <<>> \in Seq(EventType)
      OBVIOUS
    <3> HIDE DEF heard
    <3> QED BY <2>1, <3>1
  <2>6. S = F => Heard(l, s, a, b)
    BY <1>1, <2>3, <2>4 DEF Heard
  <2> HIDE DEF heard, l
  <2> QED BY <1>4, <2>1, <2>2, <2>4, <2>5, <2>6 DEF a, b, F, heard, l
<1>6. CASE S # {} /\ S = F /\ (ph = "open" \/ Has(q, s, "Opened"))
  <2> DEFINE c == b - a
  <2>1. c \in Nat \ {0} /\ Cardinality(S) = c /\ Min(S) = a + 1
    BY <1>1, <1>6
  <2> HIDE DEF c
  <2>2. \A i \in 1..c : (a + 1) + i - 1 = a + i /\ a + i \in Nat
    BY <1>1, <2>1
  <2>3. heard = [i \in 1..c |-> Event("Message", s, (a + 1) + i - 1)]
    BY <2>1 DEF MessagesOf
  <2> HIDE DEF heard
  <2>4. \A i \in 1..c : /\ heard[i] = Event("Message", s, a + i) /\ heard[i].session = s
                        /\ heard[i].kind = "Message" /\ heard[i].frame = a + i
                        /\ heard[i] \in EventType
    BY <1>3, <2>2, <2>3 DEF Event, EventType
  <2>5. heard \in Seq(EventType) /\ Len(heard) = c
    <3> DEFINE E == EventType
    <3>1. heard \in [1..c -> E]
      BY <2>3, <2>4
    <3> HIDE DEF E
    <3>2. heard \in Seq(E)
      BY <2>1, <3>1, SeqDef
    <3>3. Len(heard) = c
      BY <2>1, <3>1, <3>2, LenProperties
    <3> QED BY <3>2, <3>3 DEF E
  <2>6. \A i \in 1..Len(heard) : Says(heard, i, s, "Message") /\ heard[i].frame = a + i
    BY <2>4, <2>5 DEF Says
  <2>7. Flow(l, s, ph, a, FALSE)
    <3>1. a <= a /\ UpTo(q, s, a)
      BY <1>1, <1>4
    <3> HIDE DEF l
    <3>2. Flow(q \o heard, s, ph, a, FALSE)
      BY <1>1, <1>4, <1>6, <2>5, <2>6, <3>1, FlowRun
    <3> QED BY <3>2 DEF l
  <2>8. /\ ~Has(heard, s, "Closed") /\ ~Has(heard, s, "Opened")
        /\ \A m \in Nat : b <= m => UpTo(heard, s, m)
        /\ HasFrame(heard, s, b)
    <3>1. c \in 1..Len(heard) /\ a + c = b
      BY <1>1, <2>1, <2>5 DEF c
    <3>2. HasFrame(heard, s, b)
      BY <2>6, <3>1 DEF HasFrame
    <3>3. \A i \in 1..Len(heard) : heard[i].frame <= b
      <4>1. \A i \in 1..c : a + i <= b
        BY <1>1 DEF c
      <4> QED BY <2>5, <2>6, <4>1
    <3>4. \A i \in 1..Len(heard) : heard[i].frame \in Nat
      BY <2>2, <2>5, <2>6
    <3>5. \A m \in Nat : b <= m => UpTo(heard, s, m)
      BY <1>1, <3>3, <3>4 DEF UpTo
    <3> QED BY <2>6, <3>2, <3>5 DEF Has, Says
  <2>9. /\ \A k : Has(l, s, k) <=> Has(q, s, k) \/ Has(heard, s, k)
        /\ \A m : HasFrame(l, s, m) <=> HasFrame(q, s, m) \/ HasFrame(heard, s, m)
        /\ \A m : UpTo(l, s, m) <=> UpTo(q, s, m) /\ UpTo(heard, s, m)
    BY <2>5, CatSays
  <2> HIDE DEF l
  <2>10. UpTo(l, s, Frames[s]) /\ Heard(l, s, a, b)
    BY <1>1, <1>2, <1>4, <2>8, <2>9 DEF Heard
  <2> QED BY <1>4, <1>6, <2>4, <2>5, <2>7, <2>8, <2>9, <2>10 DEF a, b, F, heard, l
<1> QED BY <1>5, <1>6 DEF F

(* What the poll has gathered when a connection was serviced. *)
LEMMA TlsServed ==
    ASSUME ServiceTypes, TlsPart, UNCHANGED <<inbox, phase, told>>, inbox = <<>>,
           poll.at = "serve", NEW s \in DOMAIN poll.ready,
           NEW e \in EntryType, e.stage \in {"handshake", "open"}, TlsSane(s, e),
           conns' = [conns EXCEPT ![s] = e],
           NEW r \in Seq(EventType), \A i \in 1..Len(r) : r[i].session = s,
           NEW active, NEW closes,
           \/ closes = poll.closes
           \/ /\ closes = poll.closes \cup {<<s, e.reason>>}
              /\ e.reason = "peer_closed" => ~Has(r, s, "Message"),
           poll' = [at |-> poll.at, ready |-> [t \in DOMAIN poll.ready \ {s} |-> poll.ready[t]],
                    served |-> poll.served \cup {s}, active |-> active, closes |-> closes,
                    batch |-> poll.batch \o r],
           TlsTold(TlsStream \o r, s, phase[s], told[s], e, {p[1] : p \in closes})
    PROVE  TlsPart'
<1>1. /\ s \in Held /\ s \notin poll.served /\ s \in TlsPeers /\ conns \in [TlsPeers -> EntryType]
      /\ poll.closes \subseteq poll.served \X TlsReasons /\ poll.batch \in Seq(EventType)
      /\ DOMAIN poll.ready \subseteq Held \ poll.served /\ poll.served \subseteq Held
  BY DEF TlsPart, TlsTypes, Held
<1>2. /\ poll'.at = "serve" /\ poll'.served = poll.served \cup {s} /\ poll'.closes = closes
      /\ poll'.batch = poll.batch \o r /\ DOMAIN poll'.ready = DOMAIN poll.ready \ {s}
      /\ \A t \in DOMAIN poll'.ready : poll'.ready[t] = poll.ready[t]
  OBVIOUS
<1>3. /\ conns' \in [TlsPeers -> EntryType] /\ conns'[s] = e
      /\ \A t \in TlsPeers \ {s} : conns'[t] = conns[t]
  BY <1>1
<1>4. Held' = Held
  BY <1>1, <1>3 DEF Held
<1>5. poll.batch \o r \in Seq(EventType) /\ TlsStream = poll.batch /\ TlsStream' = TlsStream \o r
  BY <1>1, <1>2, CatType, CatNothing DEF TlsStream
<1>6. closes \subseteq (poll.served \cup {s}) \X TlsReasons
  BY <1>1 DEF EntryType
<1>7. TlsTypes'
  BY <1>1, <1>2, <1>3, <1>4, <1>5, <1>6 DEF TlsPart, TlsTypes, PollFields
<1>8. PollOk'
  <2>1. \A p \in 1..Len(poll'.batch) : poll'.batch[p].session \in poll'.served
    <3>1. \A p \in 1..Len(poll.batch) : poll.batch[p].session \in poll.served
      BY DEF TlsPart, PollOk
    <3> DEFINE z == poll.batch
    <3>5. z \in Seq(EventType) /\ r \in Seq(EventType)
      BY <1>1
    <3> HIDE DEF z
    <3>2. \A p \in 1..Len(z \o r) :
             \/ p \in 1..Len(z) /\ (z \o r)[p] = z[p]
             \/ \E j \in 1..Len(r) : (z \o r)[p] = r[j]
      BY <3>5, EventsPlace
    <3>3. ASSUME NEW p \in 1..Len(z \o r)
          PROVE  (z \o r)[p].session \in poll.served \cup {s}
      <4>1. CASE p \in 1..Len(z) /\ (z \o r)[p] = z[p]
        BY <3>1, <4>1 DEF z
      <4>2. CASE \E j \in 1..Len(r) : (z \o r)[p] = r[j]
        BY <4>2
      <4> QED BY <3>2, <4>1, <4>2
    <3>4. poll'.batch = z \o r /\ poll'.served = poll.served \cup {s}
      BY <1>2 DEF z
    <3> QED BY <3>3, <3>4
  <2>2. ASSUME NEW p \in closes
        PROVE  /\ conns'[p[1]].reason = p[2]
               /\ p[2] = "peer_closed" => ~Has(poll'.batch, p[1], "Message")
    <3> DEFINE t == p[1]
    <3>1. Has(poll.batch \o r, t, "Message") <=> Has(poll.batch, t, "Message") \/ Has(r, t, "Message")
      BY <1>1, CatSays
    <3>2. CASE p \in poll.closes
      <4>1. t \in TlsPeers /\ t # s
        BY <1>1, <3>2 DEF Held
      <4>2. conns[t].reason = p[2] /\ (p[2] = "peer_closed" => ~Has(poll.batch, t, "Message"))
        BY <3>2 DEF TlsPart, PollOk
      <4>3. ~Has(r, t, "Message")
        BY <4>1 DEF Has, Says
      <4> QED BY <1>2, <1>3, <3>1, <4>1, <4>2, <4>3
    <3>3. CASE p = <<s, e.reason>> /\ (e.reason = "peer_closed" => ~Has(r, s, "Message"))
      <4>1. t = s /\ p[2] = e.reason
        BY <3>3
      <4>2. ~Has(poll.batch, s, "Message")
        BY <1>1 DEF TlsPart, PollOk, Has, Says
      <4> QED BY <1>2, <1>3, <3>1, <3>3, <4>1, <4>2
    <3> QED BY <3>2, <3>3
  <2>3. \A t \in DOMAIN poll'.ready : "peer_closed" \in poll'.ready[t] => "readable" \in poll'.ready[t]
    BY <1>2 DEF TlsPart, PollOk
  <2> QED BY <1>2, <2>1, <2>2, <2>3 DEF PollOk
<1>9. Closing' = {p[1] : p \in closes}
  BY <1>2 DEF Closing
<1>10. ASSUME NEW t \in TlsPeers \ {s}
       PROVE  TlsTold(TlsStream \o r, t, phase[t], told[t], conns[t], {p[1] : p \in closes})
  <2> DEFINE q == TlsStream
  <2>1. TlsTold(q, t, phase[t], told[t], conns[t], Closing) /\ q \in Seq(EventType)
    BY TlsOf, TlsStreams DEF TlsPart
  <2>2. t \in Closing <=> t \in {p[1] : p \in closes}
    BY <1>10 DEF Closing
  <2>3. TlsTold(q, t, phase[t], told[t], conns[t], {p[1] : p \in closes})
    BY <2>1, <2>2 DEF TlsTold, TlsEnd
  <2>4. \A p \in 1..Len(r) : r[p].session # t
    BY <1>10
  <2> HIDE DEF q
  <2>5. TlsTold(q \o r, t, phase[t], told[t], conns[t], {p[1] : p \in closes})
    BY <2>1, <2>3, <2>4, TlsOther
  <2> QED BY <2>5 DEF q
<1>11. ASSUME NEW t \in TlsPeers
       PROVE  /\ TlsTold(TlsStream', t, phase[t], told[t], conns'[t], Closing')
              /\ TlsSane(t, conns'[t])
  <2>1. CASE t = s
    BY <1>3, <1>5, <1>9, <2>1
  <2>2. CASE t # s
    BY <1>3, <1>5, <1>9, <1>10, <2>2 DEF TlsPart
  <2> QED BY <2>1, <2>2
<1> QED BY <1>7, <1>8, <1>11 DEF TlsPart, TlsTold

(* A connection whose handshake is done is reported. *)
LEMMA Opens ==
    ASSUME NEW q \in Seq(EventType), NEW s \in Sessions, \A i \in 1..Len(q) : q[i].session # s,
           NEW ph, NEW n \in Nat, NEW opened,
           opened = <<>> \/ (ph = "unknown" /\ opened = <<Event("Opened", s, 0)>>)
    PROVE  /\ opened \in Seq(EventType) /\ \A i \in 1..Len(opened) : opened[i].session = s
           /\ ~Has(opened, s, "Message")
           /\ q \o opened \in Seq(EventType) /\ Flow(q \o opened, s, ph, n, FALSE)
           /\ ~Has(q \o opened, s, "Closed") /\ ~Has(q \o opened, s, "Message")
           /\ Has(q \o opened, s, "Opened") <=> opened # <<>>
<1>1. /\ \A k : ~Has(q, s, k)
      /\ \A m : ~HasFrame(q, s, m) /\ UpTo(q, s, m)
      /\ Flow(q, s, ph, n, FALSE)
  BY SilentSays
<1>2. CASE opened = <<>>
  <2>1. Len(<<>>) = 0 /\ <<>> \in Seq(EventType) /\ q \o <<>> = q
    BY CatNothing
  <2>2. ~Has(opened, s, "Message") /\ \A i \in 1..Len(opened) : opened[i].session = s
    BY <1>2, <2>1 DEF Has
  <2>3. q \o opened = q /\ opened \in Seq(EventType)
    BY <1>2, <2>1
  <2>4. ~Has(q, s, "Opened") /\ ~Has(q, s, "Closed") /\ ~Has(q, s, "Message")
    BY <1>1
  <2>5. Flow(q, s, ph, n, FALSE)
    BY <1>1
  <2> QED BY <1>2, <2>2, <2>3, <2>4, <2>5
<1>3. CASE ph = "unknown" /\ opened = <<Event("Opened", s, 0)>>
  <2> DEFINE v == Event("Opened", s, 0)
             o == <<v>>
             l == Append(q, v)
  <2>1. v \in EventType /\ v.session = s /\ v.kind = "Opened"
    BY DEF Event, EventType
  <2> HIDE DEF v
  <2>2. l = q \o o /\ o \in Seq(EventType) /\ Len(o) = 1 /\ o[1] = v /\ o # <<>>
    <3>1. o # <<>>
      OBVIOUS
    <3> QED BY <2>1, <3>1, AppendCat
  <2>3. Flow(l, s, ph, n, FALSE)
    BY <1>1, <1>3, <2>1, FlowMore
  <2>4. \A k : Has(o, s, k) <=> k = "Opened"
    BY <2>1, OneSays
  <2>5. l \in Seq(EventType)
    BY <2>1
  <2> HIDE DEF o, l
  <2>6. \A k : Has(q \o o, s, k) <=> Has(q, s, k) \/ Has(o, s, k)
    BY <2>2, CatSays
  <2>7. \A i \in 1..Len(o) : o[i].session = s
    BY <2>1, <2>2
  <2>8. ~Has(q \o o, s, "Closed") /\ ~Has(q \o o, s, "Message") /\ Has(q \o o, s, "Opened")
        /\ ~Has(o, s, "Message")
    BY <1>1, <2>4, <2>6
  <2>9. opened = o
    BY <1>3 DEF o, v
  <2> QED BY <2>2, <2>3, <2>5, <2>7, <2>8, <2>9
<1> QED BY <1>2, <1>3

(* service_connection. *)
LEMMA TlsServes ==
    ASSUME ServiceTypes, TlsPart, UNCHANGED <<inbox, phase, told>>, inbox = <<>>,
           NEW s \in DOMAIN poll.ready, service_connection(s)
    PROVE  TlsPart'
<1> DEFINE o == conns[s]
           q == TlsStream
           ph == phase[s]
           n == told[s]
           flags == poll.ready[s]
           ready == [t \in DOMAIN poll.ready \ {s} |-> poll.ready[t]]
<1>1. /\ s \in Held /\ s \notin poll.served /\ s \in TlsPeers /\ poll.at = "serve"
      /\ o.stage \in {"handshake", "open"}
      /\ "peer_closed" \in flags => "readable" \in flags
  BY DEF TlsPart, TlsTypes, PollOk, Held, service_connection
<1>2. /\ o \in EntryType /\ o.c \in ConnType /\ q \in Seq(EventType) /\ n \in Nat /\ TlsSane(s, o)
      /\ ph \in {"unknown", "open", "over"} /\ TlsTold(q, s, ph, n, o, Closing)
      /\ poll.batch \in Seq(EventType) /\ s \in Sessions
  BY <1>1, TlsOf, TlsStreams DEF TlsPart
<1>3. s \notin Closing
  BY <1>1 DEF TlsPart, TlsTypes, Closing
<1>4. q = poll.batch /\ \A i \in 1..Len(q) : q[i].session # s
  <2>1. q = poll.batch
    BY <1>2, CatNothing DEF TlsStream
  <2> QED BY <1>1, <2>1 DEF TlsPart, PollOk
<1>5. /\ \A k : ~Has(q, s, k)
      /\ \A m : ~HasFrame(q, s, m) /\ UpTo(q, s, m)
      /\ \A phx, nx, g : Flow(q, s, phx, nx, g)
  BY <1>4, SilentSays
<1>6. /\ o.stage = "handshake" => ph = "unknown"
      /\ o.stage = "open" => ph = "open"
      /\ n = o.c.read \div FrameSize
      /\ o.reason = "peer_closed" => o.stage = "open" /\ o.c.fin /\ o.c.read = o.c.sent
  BY <1>1, <1>2, <1>3, <1>5 DEF TlsTold, TlsReported, TlsEnd, Heard
<1>7. poll = [at |-> poll.at, ready |-> poll.ready, served |-> poll.served,
              active |-> poll.active, closes |-> poll.closes, batch |-> poll.batch]
  BY DEF TlsPart, TlsTypes
<1> HIDE DEF ready, flags, q
<1>8. CASE /\ conns' = [conns EXCEPT ![s].reason = "transport_error"]
           /\ poll' = [poll EXCEPT !.ready = ready, !.served = @ \cup {s},
                                   !.closes = @ \cup {<<s, "transport_error">>}]
  <2> DEFINE e == [o EXCEPT !.reason = "transport_error"]
             closes == poll.closes \cup {<<s, e.reason>>}
             r == <<>>
  <2>1. /\ e \in EntryType /\ e.stage = o.stage /\ e.c = o.c /\ e.reason = "transport_error"
        /\ conns' = [conns EXCEPT ![s] = e]
    BY <1>2, <1>8 DEF EntryType, TlsReasons
  <2>2. TlsSane(s, e)
    BY <1>1, <1>2, <2>1 DEF TlsSane
  <2>3. r \in Seq(EventType) /\ (\A i \in 1..Len(r) : r[i].session = s) /\ q \o r = q
        /\ poll.batch \o r = poll.batch
    <3>1. Len(<<>>) = 0 /\ <<>> \in Seq(EventType)
      OBVIOUS
    <3> QED BY <1>2, <3>1, CatNothing
  <2> HIDE DEF r, e
  <2>4. poll' = [at |-> poll.at, ready |-> ready, served |-> poll.served \cup {s},
                 active |-> poll.active, closes |-> closes, batch |-> poll.batch \o r]
    BY <1>7, <1>8, <2>1, <2>3
  <2>5. s \in {p[1] : p \in closes}
    <3> DEFINE w == <<s, e.reason>>
    <3>1. w \in closes /\ w[1] = s
      OBVIOUS
    <3> HIDE DEF w, closes
    <3> QED BY <3>1
  <2> HIDE DEF closes
  <2>6. TlsTold(q \o r, s, ph, n, e, {p[1] : p \in closes})
    BY <1>1, <1>2, <2>1, <2>3, <2>5 DEF TlsTold, TlsReported, TlsEnd
  <2>7. closes = poll.closes \cup {<<s, e.reason>>} /\ e.reason # "peer_closed"
    BY <2>1 DEF closes
  <2> QED BY <1>1, <2>1, <2>2, <2>3, <2>4, <2>6, <2>7, TlsServed DEF ready, q
<1>9. ASSUME NEW e \in Shaken(o), Served(s, e, flags) PROVE TlsPart'
  <2> DEFINE x == Flushed(Received(s, e, flags))
             over == CloseNow(x)
             f == IF over THEN x.e ELSE update_interest(x.e)
             opened == IF e.stage = "open" /\ o.stage # "open" THEN <<Event("Opened", s, 0)>> ELSE <<>>
             heard == MessagesOf(s, x.frames)
             r == opened \o heard
             q1 == q \o opened
             a == e.c.read
             b == x.e.c.read
             closes == IF over THEN poll.closes \cup {<<s, x.e.reason>>} ELSE poll.closes
             active == IF opened # <<>> \/ x.frames # {} THEN poll.active \cup {s} ELSE poll.active
  <2>1. /\ e \in EntryType /\ e.c = o.c /\ e.stage \in {"handshake", "open"}
        /\ o.stage = "open" => e.stage = "open"
        /\ TlsSane(s, e)
        /\ e.reason = "peer_closed" => e.stage = "open" /\ e.c.fin /\ e.c.read = e.c.sent
    <3>1. CASE e = o
      BY <1>1, <1>2, <1>6, <3>1
    <3>2. CASE o.stage # "open" /\ e = [o EXCEPT !.stage = "open"]
      <4>1. e \in EntryType /\ e.c = o.c /\ e.stage = "open" /\ e.reason = o.reason
        BY <1>2, <3>2 DEF EntryType
      <4> QED BY <1>2, <1>6, <3>2, <4>1 DEF TlsSane
    <3>3. CASE o.stage # "open" /\ e = [o EXCEPT !.reason = "tls_handshake_failed"]
      <4>1. e \in EntryType /\ e.c = o.c /\ e.stage = o.stage /\ e.reason = "tls_handshake_failed"
        BY <1>2, <3>3 DEF EntryType, TlsReasons
      <4> QED BY <1>1, <1>2, <3>3, <4>1 DEF TlsSane
    <3> QED BY <1>9, <3>1, <3>2, <3>3 DEF Shaken
  <2>2. /\ x.e \in EntryType /\ x.e.stage = e.stage /\ x.e.c.sent = e.c.sent
        /\ a <= b /\ b <= e.c.sent
        /\ x.frames = {} \/ (e.stage = "open" /\ x.frames = FramesIn(a, b))
        /\ x.frames = FramesIn(a, b) \/ (over /\ x.e.reason # "peer_closed")
        /\ x.e.reason = "peer_closed" =>
             /\ e.stage = "handshake" => over
             /\ e.stage = "open" => x.e.c.fin /\ x.e.c.read = x.e.c.sent
             /\ over => x.frames = {}
        /\ TlsSane(s, x.e)
    BY <1>1, <2>1, Serves
  <2>3. /\ conns' = [conns EXCEPT ![s] = f]
        /\ poll' = [poll EXCEPT !.ready = ready, !.served = @ \cup {s}, !.active = active,
                                !.closes = closes, !.batch = (@ \o opened) \o heard]
    BY <1>9 DEF Served, ready, MessagesOf
  <2>4. a \in Nat /\ b \in Nat /\ e.c.sent \in Nat /\ b <= Frames[s] * FrameSize
    <3>1. e.c \in ConnType /\ x.e.c \in ConnType
      BY <2>1, <2>2 DEF EntryType
    <3>2. a \in Nat /\ b \in Nat /\ e.c.sent \in Nat
      BY <3>1 DEF ConnType
    <3>3. e.c.sent <= Frames[s] * FrameSize /\ Frames[s] * FrameSize \in Nat
      BY <1>1, <2>1, TlsTransportAssumption, TlsConnectionAssumption DEF TlsSane
    <3> HIDE DEF x, a, b
    <3> QED BY <2>2, <3>2, <3>3
  <2>5. /\ f \in EntryType /\ f.stage = e.stage /\ f.reason = x.e.reason /\ f.c = x.e.c
        /\ TlsSane(s, f)
    <3> HIDE DEF x
    <3>1. update_interest(x.e) = [x.e EXCEPT !.wantsWrite = has_pending_output(x.e.c)]
      BY DEF update_interest
    <3>2. has_pending_output(x.e.c) \in BOOLEAN
      BY DEF has_pending_output
    <3>3. CASE f = x.e
      BY <2>2, <3>3
    <3>4. CASE f = [x.e EXCEPT !.wantsWrite = has_pending_output(x.e.c)]
      <4>1. f \in EntryType /\ f.stage = x.e.stage /\ f.reason = x.e.reason /\ f.c = x.e.c
        BY <2>2, <3>2, <3>4 DEF EntryType
      <4> QED BY <2>2, <4>1 DEF TlsSane
    <3> QED BY <3>1, <3>3, <3>4
  <2> HIDE DEF x, over, f, a, b
  <2>6. /\ opened \in Seq(EventType) /\ \A i \in 1..Len(opened) : opened[i].session = s
        /\ q1 \in Seq(EventType) /\ Flow(q1, s, ph, n, FALSE) /\ ph # "over"
        /\ ~Has(q1, s, "Closed") /\ ~Has(q1, s, "Message") /\ ~Has(opened, s, "Message")
        /\ e.stage = "open" <=> ph = "open" \/ Has(q1, s, "Opened")
        /\ Has(q1, s, "Opened") => e.stage = "open"
    <3>1. ph \in {"unknown", "open"} /\ (opened = <<>> \/ (ph = "unknown" /\ opened = <<Event("Opened", s, 0)>>))
      BY <1>1, <1>6
    <3>2. opened # <<>> <=> e.stage = "open" /\ o.stage # "open"
      OBVIOUS
    <3> HIDE DEF opened, ph, n, o
    <3>3. /\ opened \in Seq(EventType) /\ \A i \in 1..Len(opened) : opened[i].session = s
          /\ ~Has(opened, s, "Message")
          /\ q \o opened \in Seq(EventType) /\ Flow(q \o opened, s, ph, n, FALSE)
          /\ ~Has(q \o opened, s, "Closed") /\ ~Has(q \o opened, s, "Message")
          /\ Has(q \o opened, s, "Opened") <=> opened # <<>>
      <4>1. /\ q \in Seq(EventType) /\ s \in Sessions /\ n \in Nat
            /\ \A i \in 1..Len(q) : q[i].session # s
            /\ opened = <<>> \/ (ph = "unknown" /\ opened = <<Event("Opened", s, 0)>>)
        BY <1>2, <1>4, <3>1 DEF n
      <4> QED BY <4>1, Opens
    <3>4. e.stage = "open" <=> ph = "open" \/ opened # <<>>
      BY <1>1, <1>6, <2>1, <3>1, <3>2
    <3> QED BY <3>1, <3>2, <3>3, <3>4
  <2>7. n = a \div FrameSize
    BY <1>6, <2>1 DEF a
  <2>8. /\ heard \in Seq(EventType) /\ \A i \in 1..Len(heard) : heard[i].session = s
        /\ x.frames = {} => heard = <<>>
        /\ Flow(q1 \o heard, s, ph, n, FALSE) /\ ~Has(q1 \o heard, s, "Closed")
        /\ Has(q1 \o heard, s, "Opened") <=> Has(q1, s, "Opened")
        /\ UpTo(q1 \o heard, s, Frames[s])
        /\ x.frames = FramesIn(a, b) => Heard(q1 \o heard, s, n, b \div FrameSize)
    <3> DEFINE S == x.frames
    <3>1. S = {} \/ (S = FramesIn(a, b) /\ (ph = "open" \/ Has(q1, s, "Opened")))
      BY <2>2, <2>6
    <3> HIDE DEF S, q1, ph, n
    <3>3. Flow(q1, s, ph, a \div FrameSize, FALSE)
      BY <2>6, <2>7
    <3>4. b <= Frames[s] * FrameSize /\ a <= b /\ s \in TlsPeers /\ a \in Nat /\ b \in Nat
      BY <1>1, <2>2, <2>4
    <3>2. LET h == MessagesOf(s, S)
              l == q1 \o h
              m == a \div FrameSize
          IN  /\ h \in Seq(EventType) /\ \A i \in 1..Len(h) : h[i].session = s
              /\ S = {} => h = <<>>
              /\ Flow(l, s, ph, m, FALSE) /\ ~Has(l, s, "Closed")
              /\ Has(l, s, "Opened") <=> Has(q1, s, "Opened")
              /\ UpTo(l, s, Frames[s])
              /\ S = FramesIn(a, b) => Heard(l, s, m, b \div FrameSize)
      <4>1. /\ q1 \in Seq(EventType) /\ s \in TlsPeers /\ a \in Nat /\ b \in Nat /\ a <= b
            /\ b <= Frames[s] * FrameSize /\ ph # "over"
            /\ ~Has(q1, s, "Closed") /\ ~Has(q1, s, "Message")
            /\ Flow(q1, s, ph, a \div FrameSize, FALSE)
        BY <2>6, <3>3, <3>4 DEF ph
      <4> QED BY <3>1, <4>1, Hears
    <3> QED BY <2>7, <3>2 DEF S
  <2> HIDE DEF heard, opened, q1
  <2>9. /\ r \in Seq(EventType) /\ q \o r = q1 \o heard
        /\ (poll.batch \o opened) \o heard = poll.batch \o r
        /\ \A i \in 1..Len(r) : r[i].session = s
        /\ x.frames = {} => ~Has(r, s, "Message")
    <3>1. r \in Seq(EventType) /\ q1 \o heard = q \o r
          /\ (poll.batch \o opened) \o heard = poll.batch \o r
      BY <1>2, <1>4, <2>6, <2>8, EventsJoin, CatType DEF q1
    <3>2. \A i \in 1..Len(r) : \/ i \in 1..Len(opened) /\ r[i] = opened[i]
                              \/ \E j \in 1..Len(heard) : r[i] = heard[j]
      <4>1. opened \in Seq(EventType) /\ heard \in Seq(EventType)
        BY <2>6, <2>8
      <4> QED BY <4>1, EventsPlace
    <3>3. \A i \in 1..Len(r) : r[i].session = s
      BY <2>6, <2>8, <3>2
    <3>4. x.frames = {} => r = opened
      BY <2>6, <2>8, CatNothing
    <3> QED BY <2>6, <3>1, <3>3, <3>4
  <2> HIDE DEF r
  <2>10. closes = poll.closes \/ (closes = poll.closes \cup {<<s, f.reason>>}
                                 /\ (f.reason = "peer_closed" => ~Has(r, s, "Message")))
    BY <2>2, <2>5, <2>9
  <2>11. over => s \in {p[1] : p \in closes}
    <3> DEFINE w == <<s, x.e.reason>>
    <3>1. (over => w \in closes) /\ w[1] = s
      OBVIOUS
    <3> HIDE DEF w, closes
    <3> QED BY <3>1
  <2> HIDE DEF closes, active
  <2>12. poll' = [at |-> poll.at, ready |-> ready, served |-> poll.served \cup {s},
                  active |-> active, closes |-> closes, batch |-> poll.batch \o r]
    BY <1>7, <2>3, <2>9
  <2> DEFINE C == {p[1] : p \in closes}
             l == q \o r
  <2>13. over => s \in C
    BY <2>11
  <2> HIDE DEF C
  <2>14. /\ Flow(l, s, ph, n, FALSE) /\ ~Has(l, s, "Closed") /\ ph # "over"
         /\ Has(l, s, "Opened") => e.stage = "open"
         /\ ph # "unknown" => e.stage = "open"
         /\ e.stage = "open" => ph = "open" \/ Has(l, s, "Opened")
         /\ UpTo(l, s, Frames[s])
         /\ x.frames = FramesIn(a, b) => Heard(l, s, n, b \div FrameSize)
    BY <1>2, <2>6, <2>8, <2>9
  <2> HIDE DEF l
  <2>15. TlsReported(l, s, ph, n, f)
    BY <2>5, <2>14 DEF TlsReported
  <2>16. TlsEnd(l, s, ph, n, f, C)
    <3>1. f.c.read = b
      BY <2>5 DEF b
    <3>2. (s \in C => f.reason = "peer_closed") => Heard(l, s, n, f.c.read \div FrameSize)
      BY <2>2, <2>5, <2>13, <2>14, <3>1
    <3>3. f.stage = "handshake" /\ f.reason = "peer_closed" => s \in C
      BY <2>2, <2>5, <2>13
    <3>4. f.stage = "open" /\ f.reason = "peer_closed" => f.c.fin /\ f.c.read = f.c.sent
      BY <2>2, <2>5
    <3>5. f.stage # "closed"
      BY <2>1, <2>5
    <3> QED BY <3>2, <3>3, <3>4, <3>5 DEF TlsEnd
  <2>17. TlsTold(q \o r, s, ph, n, f, {p[1] : p \in closes})
    BY <2>15, <2>16 DEF TlsTold, l, C
  <2>18. f.stage \in {"handshake", "open"}
    BY <2>1, <2>5
  <2> QED BY <1>1, <2>3, <2>5, <2>9, <2>10, <2>12, <2>17, <2>18, TlsServed DEF ready, q
<1> QED BY <1>8, <1>9 DEF service_connection, ready, flags

-----------------------------------------------------------------------------
(* What leaves a part of the state alone.                                  *)

(* Nothing of QUIC happens, and the service handles nothing. *)
LEMMA QuicIdle ==
    ASSUME QuicPart, UNCHANGED <<states, events, inbox, phase, told>>
    PROVE  QuicPart' /\ GivenUp' = GivenUp
<1>1. QuicStream' = QuicStream
  BY DEF QuicStream
<1>2. GivenUp' = GivenUp
  BY DEF GivenUp
<1> QED BY <1>1, <1>2 DEF QuicPart, QuicTypes

(* A QUIC callback is nothing to a TLS connection. *)
LEMMA TlsIdle ==
    ASSUME TlsPart, UNCHANGED <<tls, inbox, phase, told>>
    PROVE  TlsPart'
<1>1. TlsStream' = TlsStream
  BY DEF TlsStream, tls
<1>2. poll.at = "serve" => inbox' = <<>>
  BY DEF TlsPart, PollOk
<1>3. \A t \in TlsPeers : TlsTold(TlsStream', t, phase'[t], told'[t], conns[t], Closing)
  BY <1>1, TlsOf
<1> QED BY <1>2, <1>3, TlsKeeps

(* The events of a TLS poll are none of a QUIC session. *)
LEMMA QuicBeside ==
    ASSUME ServiceTypes, QuicPart, UNCHANGED <<states, events, phase, told>>, inbox = <<>>,
           inbox' \in Seq(EventType), \A i \in 1..Len(inbox') : inbox'[i].session \in TlsPeers
    PROVE  QuicPart' /\ GivenUp' = GivenUp
<1>1. GivenUp' = GivenUp /\ events \in Seq(EventType)
  BY DEF GivenUp, QuicPart, QuicTypes
<1>2. QuicStream = events /\ QuicStream' = inbox' \o events
  BY <1>1, CatNothing DEF QuicStream
<1>3. \A s \in QuicPeers : QuicReported(QuicStream', s, phase[s], told[s], states[s])
  <2> TAKE s \in QuicPeers
  <2>1. QuicReported(events, s, phase[s], told[s], states[s])
    BY <1>2 DEF QuicPart
  <2>2. \A i \in 1..Len(inbox') : inbox'[i].session # s
    BY TransportsAssumption
  <2> DEFINE r == inbox'
             ph == phase[s]
             n == told[s]
             st == states[s]
  <2>3. r \in Seq(EventType)
    OBVIOUS
  <2> HIDE DEF r, ph, n, st
  <2>4. QuicReported(r \o events, s, ph, n, st)
    BY <1>1, <2>1, <2>2, <2>3, QuicOther DEF r, ph, n, st
  <2> QED BY <1>2, <2>4 DEF r, ph, n, st
<1> QED BY <1>1, <1>3 DEF QuicPart, QuicTypes

(* poll_events of the QUIC transport. *)
LEMMA QuicPolled ==
    ASSUME IInv, PollQuic
    PROVE  ServiceTypes' /\ QuicPart' /\ TlsPart' /\ GivenUp' = GivenUp
<1>1. /\ inbox = <<>> /\ poll.at = "rest" /\ inbox' = events /\ events' = <<>> /\ events # <<>>
      /\ UNCHANGED <<states, conns, poll, phase, told>>
  BY DEF PollQuic, Quiet, QuicPoll, Give, tls, history
<1>2. /\ ServiceTypes /\ QuicPart /\ TlsPart /\ events \in Seq(EventType)
      /\ \A p \in 1..Len(events) : events[p].session \in QuicPeers
  BY DEF IInv, QuicPart, QuicTypes
<1>3. ServiceTypes'
  BY <1>1, <1>2 DEF ServiceTypes
<1>4. QuicStream' = QuicStream /\ QuicStream = events
  <2>1. events \o <<>> = events /\ <<>> \o events = events
    BY <1>2, CatNothing
  <2> QED BY <1>1, <2>1 DEF QuicStream
<1>5. QuicPart' /\ GivenUp' = GivenUp
  <2>1. QuicTypes'
    BY <1>1, <1>2 DEF QuicPart, QuicTypes
  <2>2. 1..Len(events') = {}
    BY <1>1
  <2> QED BY <1>1, <1>2, <1>4, <2>1, <2>2 DEF QuicPart, GivenUp
<1>6. poll.batch = <<>>
  BY <1>1, <1>2, AtRest
<1>7. TlsStream = <<>> /\ TlsStream' = events
  <2>1. events \o <<>> = events /\ <<>> \o <<>> = <<>>
    BY <1>2, CatNothing
  <2> QED BY <1>1, <1>6, <2>1 DEF TlsStream
<1>8. \A t \in TlsPeers : TlsTold(TlsStream', t, phase'[t], told'[t], conns[t], Closing)
  <2> TAKE t \in TlsPeers
  <2> DEFINE z == TlsStream
             ph == phase[t]
             n == told[t]
             o == conns[t]
  <2>1. TlsTold(z, t, ph, n, o, Closing)
    BY <1>2, TlsOf
  <2>2. \A i \in 1..Len(events) : events[i].session # t
    BY <1>2, TransportsAssumption
  <2>3. z \in Seq(EventType) /\ z \o events = events
    <3>1. z \in Seq(EventType)
      BY <1>2, TlsStreams DEF TlsPart
    <3>2. <<>> \o events = events
      BY <1>2, CatNothing
    <3> QED BY <1>7, <3>1, <3>2
  <2> HIDE DEF z, ph, n, o
  <2>4. TlsTold(z \o events, t, ph, n, o, Closing)
    BY <1>2, <2>1, <2>2, <2>3, TlsOther
  <2> QED BY <1>1, <1>7, <2>3, <2>4 DEF ph, n, o
<1>9. TlsPart'
  BY <1>1, <1>2, <1>8, TlsKeeps DEF tls
<1> QED BY <1>3, <1>5, <1>9

-----------------------------------------------------------------------------
(* The service handles the first event.                                    *)

(* What becomes of the event and of the history. *)
LEMMA Handled ==
    ASSUME IInv, Handle
    PROVE  LET e == Head(inbox) IN
           /\ inbox # <<>> /\ inbox \in Seq(EventType) /\ inbox' = Tail(inbox) /\ poll.at = "rest"
           /\ e \in EventType /\ ServiceTypes'
           /\ \A t \in Sessions : /\ phase'[t] = PhaseAfter(e, t, phase[t])
                                  /\ told'[t] = ToldAfter(e, t, told[t])
           /\ UNCHANGED <<tls, quic>>
<1> DEFINE e == Head(inbox)
           s == e.session
<1>1. ServiceTypes /\ inbox # <<>> /\ inbox \in Seq(EventType) /\ inbox' = Tail(inbox)
  BY DEF IInv, ServiceTypes, Handle
<1>2. e \in EventType /\ inbox' \in Seq(EventType)
  BY <1>1
<1>3. poll.at = "rest"
  BY <1>1 DEF IInv, TlsPart, TlsTypes, PollOk
<1>4. /\ e.kind \in {"Opened", "Message", "Closed", "Moved"} /\ s \in Sessions /\ e.frame \in Nat
      /\ phase \in [Sessions -> {"unknown", "open", "over"}] /\ told \in [Sessions -> Nat]
  BY <1>1, <1>2 DEF EventType, ServiceTypes
<1> DEFINE k == e.kind
           f == e.frame
<1>5. /\ \/ k = "Message" /\ told' = [told EXCEPT ![s] = f] /\ phase' = phase
         \/ /\ k \in {"Opened", "Closed"} /\ told' = told
            /\ phase' = [phase EXCEPT ![s] = IF k = "Opened" THEN "open" ELSE "over"]
         \/ k = "Moved" /\ told' = told /\ phase' = phase
      /\ UNCHANGED <<tls, quic>>
  BY DEF Handle
<1>6. \A t \in Sessions : /\ PhaseAfter(e, t, phase[t]) =
                               IF s = t /\ k = "Opened" THEN "open"
                               ELSE IF s = t /\ k = "Closed" THEN "over" ELSE phase[t]
                          /\ ToldAfter(e, t, told[t]) = IF s = t /\ k = "Message" THEN f ELSE told[t]
  BY DEF PhaseAfter, ToldAfter
<1>7. s \in Sessions /\ f \in Nat
  BY <1>4
<1> HIDE DEF e, s, k, f
<1>8. \A t \in Sessions : /\ phase'[t] = PhaseAfter(e, t, phase[t])
                          /\ told'[t] = ToldAfter(e, t, told[t])
  BY <1>4, <1>5, <1>6, <1>7
<1>9. ServiceTypes'
  BY <1>2, <1>4, <1>5, <1>7 DEF ServiceTypes
<1> QED BY <1>1, <1>2, <1>3, <1>5, <1>8, <1>9 DEF e, s, k

(* For a QUIC connection. *)
LEMMA QuicHandles ==
    ASSUME IInv, Handle
    PROVE  QuicPart' /\ GivenUp' = GivenUp
<1> DEFINE e == Head(inbox)
           q == QuicStream
<1>1. /\ inbox # <<>> /\ inbox \in Seq(EventType) /\ inbox' = Tail(inbox)
      /\ e \in EventType
      /\ \A t \in Sessions : /\ phase'[t] = PhaseAfter(e, t, phase[t])
                             /\ told'[t] = ToldAfter(e, t, told[t])
      /\ states' = states /\ events' = events
  BY Handled DEF quic
<1>2. ServiceTypes /\ QuicPart /\ events \in Seq(EventType) /\ QuicTypes
  BY DEF IInv, QuicPart, QuicTypes
<1>3. QuicStream' = Tail(q) /\ Head(q) = e /\ q # <<>> /\ q \in Seq(EventType)
  <2>1. Tail(inbox) \o events = Tail(q) /\ Head(q) = e /\ q # <<>>
    BY <1>1, <1>2, CatTail DEF QuicStream
  <2> QED BY <1>1, <1>2, <2>1, Streams DEF QuicStream
<1> HIDE DEF q, e
<1>4. ASSUME NEW t \in QuicPeers
      PROVE  QuicReported(QuicStream', t, phase'[t], told'[t], states[t])
  <2> DEFINE ph == phase[t]
             n == told[t]
             st == states[t]
             ph2 == PhaseAfter(e, t, ph)
             n2 == ToldAfter(e, t, n)
  <2>1. /\ t \in Sessions /\ st \in StateType /\ ph \in {"unknown", "open", "over"} /\ n \in Nat
        /\ QuicReported(q, t, ph, n, st)
    BY <1>2, Streams DEF QuicPart, q
  <2>2. phase'[t] = ph2 /\ told'[t] = n2
    BY <1>1, <2>1
  <2> HIDE DEF st, ph, n, ph2, n2
  <2>3. QuicReported(Tail(q), t, ph2, n2, st)
    BY <1>3, <2>1, QuicVisit DEF ph2, n2
  <2> QED BY <1>3, <2>2, <2>3 DEF st
<1>5. QuicPart'
  BY <1>1, <1>2, <1>4 DEF QuicPart, QuicTypes
<1>6. GivenUp' = GivenUp
  BY <1>1 DEF GivenUp
<1> QED BY <1>5, <1>6

(* TlsTcpTransport::send and close write to the connection or close it.    *)
LEMMA TlsSends ==
    ASSUME NEW s \in TlsPeers, NEW q, NEW ph, NEW n, conns[s] \in EntryType,
           TlsSane(s, conns[s]), TlsTold(q, s, ph, n, conns[s], Closing),
           NEW e, \/ \E why \in {"send_failed", "application_requested"} :
                       e = [conns[s] EXCEPT !.stage = "closed", !.reason = why]
                  \/ /\ conns[s].stage = "open"
                     /\ e = update_interest([conns[s] EXCEPT !.c = flush_output(queue_frame(conns[s].c))])
    PROVE  e \in EntryType /\ TlsSane(s, e) /\ TlsTold(q, s, ph, n, e, Closing)
<1> DEFINE o == conns[s]
<1>2. ASSUME NEW why \in {"send_failed", "application_requested"},
             e = [o EXCEPT !.stage = "closed", !.reason = why]
      PROVE  e \in EntryType /\ TlsSane(s, e) /\ TlsTold(q, s, ph, n, e, Closing)
  <2>1. e \in EntryType /\ e.stage = "closed" /\ e.reason # "peer_closed" /\ e.c = o.c
    BY <1>2 DEF EntryType, TlsReasons
  <2>2. TlsSane(s, e)
    BY <2>1 DEF TlsSane
  <2>3. TlsTold(q, s, ph, n, e, Closing)
    <3> HIDE DEF o
    <3> QED BY <2>1, TlsCut
  <2> QED BY <2>1, <2>2, <2>3
<1>3. CASE o.stage = "open" /\ e = update_interest([o EXCEPT !.c = flush_output(queue_frame(o.c))])
  <2> DEFINE c == o.c
             more == c.out + 1
             took == Smaller(more, SockRoom - c.sock)
             out == more - took
             sock == c.sock + took
             d == [c EXCEPT !.out = out, !.sock = sock]
             y == [o EXCEPT !.c = d]
             w == has_pending_output(d)
  <2>1. c \in ConnType
    BY DEF EntryType
  <2>2. SockRoom \in Int
    BY TlsConnectionAssumption
  <2>3. c.out \in Int /\ c.sock \in Int
    BY <2>1 DEF ConnType
  <2>4. flush_output(queue_frame(c)) = d
    <3>1. queue_frame(c) = [c EXCEPT !.out = more]
      BY DEF queue_frame
    <3>2. queue_frame(c).out = more /\ queue_frame(c).sock = c.sock
      BY <2>1, <3>1 DEF ConnType
    <3>3. flush_output(queue_frame(c)) = [queue_frame(c) EXCEPT !.out = @ - took, !.sock = @ + took]
      BY <3>2 DEF flush_output
    <3> QED BY <2>1, <3>1, <3>2, <3>3 DEF ConnType
  <2>5. out \in Int /\ sock \in Int
    BY <2>2, <2>3 DEF Smaller
  <2> HIDE DEF out, sock
  <2>6. /\ d \in ConnType /\ d.read = c.read /\ d.sent = c.sent /\ d.cuts = c.cuts /\ d.fin = c.fin
    BY <2>1, <2>5 DEF ConnType
  <2>7. e = update_interest(y)
    BY <1>3, <2>4
  <2> HIDE DEF d
  <2>8. y \in EntryType /\ y.stage = o.stage /\ y.reason = o.reason /\ y.c = d
    BY <2>6 DEF EntryType
  <2>9. w \in BOOLEAN /\ e = [y EXCEPT !.wantsWrite = w]
    BY <2>7, <2>8 DEF update_interest, has_pending_output
  <2> HIDE DEF y, w
  <2>10. e \in EntryType /\ e.stage = o.stage /\ e.reason = o.reason /\ e.c = d
    BY <2>8, <2>9 DEF EntryType
  <2>11. TlsSane(s, e)
    BY <1>3, <2>6, <2>10 DEF TlsSane
  <2>12. /\ e.c.read = o.c.read /\ e.c.fin = o.c.fin /\ e.c.sent = o.c.sent
    BY <2>6, <2>10
  <2>13. TlsTold(q, s, ph, n, e, Closing)
    <3> HIDE DEF o, c
    <3> QED BY <2>10, <2>12, TlsSame DEF o
  <2> QED BY <2>10, <2>11, <2>13
<1> QED BY <1>2, <1>3

(* For a TLS connection. *)
LEMMA TlsHandles ==
    ASSUME IInv, Handle
    PROVE  TlsPart'
<1> DEFINE v == Head(inbox)
           q == TlsStream
<1>1. /\ inbox # <<>> /\ inbox \in Seq(EventType) /\ inbox' = Tail(inbox) /\ poll.at = "rest"
      /\ v \in EventType
      /\ \A t \in Sessions : /\ phase'[t] = PhaseAfter(v, t, phase[t])
                             /\ told'[t] = ToldAfter(v, t, told[t])
      /\ UNCHANGED tls
  BY Handled
<1>2. ServiceTypes /\ TlsPart /\ TlsTypes
  BY DEF IInv, TlsPart
<1>3. poll.batch = <<>> /\ poll' = poll
  BY <1>1, <1>2, AtRest DEF tls
<1>4. TlsStream' = Tail(q) /\ Head(q) = v /\ q # <<>> /\ q \in Seq(EventType)
  <2>1. q \in Seq(EventType) /\ poll.batch \in Seq(EventType)
    BY <1>2, TlsStreams
  <2>2. Tail(inbox) \o poll.batch = Tail(q) /\ Head(q) = v /\ q # <<>>
    BY <1>1, <2>1, CatTail DEF TlsStream
  <2> QED BY <1>1, <1>3, <2>1, <2>2 DEF TlsStream
<1>5. ASSUME NEW t \in TlsPeers
      PROVE  TlsTold(TlsStream', t, phase'[t], told'[t], conns[t], Closing)
  <2> DEFINE ph == phase[t]
             n == told[t]
             o == conns[t]
             ph2 == PhaseAfter(v, t, ph)
             n2 == ToldAfter(v, t, n)
  <2>1. /\ t \in Sessions /\ o.c \in ConnType /\ ph \in {"unknown", "open", "over"} /\ n \in Nat
        /\ TlsTold(q, t, ph, n, o, Closing)
    BY <1>2, TlsStreams, TlsOf
  <2>2. phase'[t] = ph2 /\ told'[t] = n2
    BY <1>1, <2>1
  <2>3. o.c.read \div FrameSize \in Nat
    <3>1. o.c.read \in Nat
      BY <2>1 DEF ConnType
    <3> HIDE DEF o
    <3> QED BY <3>1, DivStep
  <2> HIDE DEF ph, n, o, q
  <2>4. TlsTold(Tail(q), t, PhaseAfter(Head(q), t, ph), ToldAfter(Head(q), t, n), o, Closing)
    BY <1>4, <2>1, <2>3, TlsVisit
  <2> QED BY <1>4, <2>2, <2>4 DEF o
<1>6. poll.at # "serve"
  BY <1>1
<1> QED BY <1>1, <1>2, <1>5, <1>6, TlsKeeps

-----------------------------------------------------------------------------
(* The service answers a frame or closes a session.                        *)

(* A TLS session is written to or closed, between two polls. *)
LEMMA TlsSpeaks ==
    ASSUME ServiceTypes, TlsPart, UNCHANGED <<inbox, phase, told>>, poll.at = "rest",
           NEW s \in TlsPeers, TlsSend(s) \/ TlsClose(s)
    PROVE  TlsPart'
<1> DEFINE o == conns[s]
           sent == update_interest([o EXCEPT !.c = flush_output(queue_frame(o.c))])
           q == TlsStream
<1>1. o \in EntryType /\ TlsSane(s, o) /\ TlsTold(q, s, phase[s], told[s], o, Closing)
  BY TlsStreams, TlsOf DEF TlsPart
<1>2. poll' = poll /\ TlsStream' = q
  BY DEF TlsSend, TlsClose, TlsStream
<1>3. \A t \in TlsPeers : TlsTold(q, t, phase[t], told[t], conns[t], Closing)
  BY TlsOf
<1>4. PICK e : /\ \/ \E why \in {"send_failed", "application_requested"} :
                       e = [o EXCEPT !.stage = "closed", !.reason = why]
                  \/ o.stage = "open" /\ e = sent
               /\ conns' = [conns EXCEPT ![s] = e]
  <2>1. CASE TlsSend(s)
    <3>1. \/ conns' = [conns EXCEPT ![s] = [o EXCEPT !.stage = "closed", !.reason = "send_failed"]]
          \/ o.stage = "open" /\ conns' = [conns EXCEPT ![s] = sent]
      BY <2>1 DEF TlsSend, TlsRefuses
    <3> HIDE DEF o, sent
    <3> QED BY <3>1
  <2>2. CASE TlsClose(s)
    <3>1. conns' = [conns EXCEPT ![s] = [o EXCEPT !.stage = "closed", !.reason = "application_requested"]]
      BY <2>2 DEF TlsClose
    <3> HIDE DEF o
    <3> QED BY <3>1
  <2> QED BY <2>1, <2>2
<1> DEFINE ph == phase[s]
           n == told[s]
<1> HIDE DEF q, ph, n
<1>5. e \in EntryType /\ TlsSane(s, e) /\ TlsTold(q, s, ph, n, e, Closing)
  BY <1>1, <1>4, TlsSends DEF ph, n
<1> HIDE DEF o, sent
<1> QED BY <1>2, <1>3, <1>4, <1>5, TlsMove DEF ph, n

(* What the service does of its own, and between two polls. *)
LEMMA Speaks ==
    ASSUME IInv, Close \/ \E s \in Sessions : Answer(s)
    PROVE  ServiceTypes' /\ QuicPart' /\ TlsPart' /\ GivenUp \subseteq GivenUp'
<1>1. /\ ServiceTypes /\ QuicPart /\ TlsPart /\ poll.at = "rest"
      /\ UNCHANGED <<inbox, phase, told>>
  BY DEF IInv, Close, Answer, history
<1>2. ServiceTypes'
  BY <1>1 DEF ServiceTypes
<1>3. \/ \E s \in TlsPeers : (TlsSend(s) \/ TlsClose(s)) /\ UNCHANGED quic
      \/ UNCHANGED <<tls, quic>>
      \/ \E s \in QuicPeers : (QuicSend(s) \/ QuicClose(s)) /\ UNCHANGED tls
  BY DEF Close, Answer, CloseTls, CloseQuic
<1>4. ASSUME NEW s \in TlsPeers, TlsSend(s) \/ TlsClose(s), UNCHANGED quic
      PROVE  QuicPart' /\ TlsPart' /\ GivenUp' = GivenUp
  <2>1. TlsPart'
    BY <1>1, <1>4, TlsSpeaks
  <2>2. QuicPart' /\ GivenUp' = GivenUp
    BY <1>1, <1>4, QuicIdle DEF quic
  <2> QED BY <2>1, <2>2
<1>5. ASSUME UNCHANGED <<tls, quic>> PROVE QuicPart' /\ TlsPart' /\ GivenUp' = GivenUp
  <2>1. QuicPart' /\ GivenUp' = GivenUp
    BY <1>1, <1>5, QuicIdle DEF quic
  <2> QED BY <1>1, <1>5, <2>1, TlsIdle
<1>6. ASSUME NEW s \in QuicPeers, QuicSend(s) \/ QuicClose(s), UNCHANGED tls
      PROVE  QuicPart' /\ TlsPart' /\ GivenUp \subseteq GivenUp'
  <2>1. QuicClose(s) \/ (states' = [states EXCEPT ![s].pending = @ + 1] /\ UNCHANGED events)
    BY <1>6 DEF QuicSend
  <2>2. QuicPart' /\ GivenUp \subseteq GivenUp'
    BY <1>1, <2>1, QuicActs
  <2> QED BY <1>1, <1>6, <2>2, TlsIdle
<1> QED BY <1>2, <1>3, <1>4, <1>5, <1>6

(* A step of the TLS poll. *)
LEMMA TlsPolls ==
    ASSUME IInv, PollTls
    PROVE  ServiceTypes' /\ QuicPart' /\ TlsPart' /\ GivenUp' = GivenUp
<1>1. /\ ServiceTypes /\ QuicPart /\ TlsPart /\ inbox = <<>>
      /\ UNCHANGED <<states, events, phase, told>>
  BY DEF IInv, PollTls, Quiet, history
<1>2. CASE UNCHANGED inbox /\ (Wait \/ SecondPass \/ \E s \in DOMAIN poll.ready : service_connection(s))
  <2>1. TlsPart'
    BY <1>1, <1>2, TlsWaits, TlsAgain, TlsServes
  <2>2. QuicPart' /\ GivenUp' = GivenUp
    BY <1>1, <1>2, QuicIdle
  <2>3. ServiceTypes'
    BY <1>1, <1>2 DEF ServiceTypes
  <2> QED BY <2>1, <2>2, <2>3
<1>3. ASSUME NEW late \in SUBSET Held, Finish(late, Give)
      PROVE  ServiceTypes' /\ QuicPart' /\ TlsPart' /\ GivenUp' = GivenUp
  <2>1. /\ TlsPart' /\ ServiceTypes'
        /\ \A i \in 1..Len(inbox') : inbox'[i].session \in TlsPeers
    BY <1>1, <1>3, TlsFinishes
  <2>2. inbox' \in Seq(EventType)
    BY <2>1 DEF ServiceTypes
  <2>3. QuicPart' /\ GivenUp' = GivenUp
    BY <1>1, <2>1, <2>2, QuicBeside
  <2> QED BY <2>1, <2>3
<1> QED BY <1>2, <1>3 DEF PollTls

-----------------------------------------------------------------------------
(* The invariant and the refinement.                                       *)

(* What is given up stays so.  While the service handles nothing, the      *)
(* history stands still.                                                   *)
LEMMA Steps ==
    ASSUME IInv, [Next]_vars
    PROVE  /\ IInv' /\ GivenUp \subseteq GivenUp'
           /\ Handle \/ UNCHANGED <<phase, told>>
<1>1. ServiceTypes /\ QuicPart /\ TlsPart
  BY DEF IInv
<1>2. CASE PollTls
  <2>1. UNCHANGED <<phase, told>>
    BY <1>2 DEF PollTls, history
  <2> QED BY <1>1, <1>2, <2>1, TlsPolls DEF IInv
<1>3. CASE PollQuic
  <2>1. UNCHANGED <<phase, told>>
    BY <1>3 DEF PollQuic, history
  <2> QED BY <1>1, <1>3, <2>1, QuicPolled DEF IInv
<1>4. CASE Handle
  BY <1>4, Handled, QuicHandles, TlsHandles DEF IInv
<1>5. CASE Close \/ \E s \in Sessions : Answer(s)
  <2>1. UNCHANGED <<phase, told>>
    BY <1>5 DEF Close, Answer, history
  <2> QED BY <1>5, <2>1, Speaks DEF IInv
<1>6. CASE TlsPeerStep \/ \E s \in TlsPeers : ReadsReply(s)
  <2>1. UNCHANGED <<inbox, phase, told, states, events>>
    BY <1>6 DEF TlsPeerStep, ReadsReply, history, quic
  <2>2. TlsPart'
    BY <1>1, <1>6, <2>1, TlsPeerActs DEF TlsPeerStep, ReadsReply
  <2>3. QuicPart' /\ GivenUp' = GivenUp
    BY <1>1, <2>1, QuicIdle
  <2>4. ServiceTypes'
    BY <1>1, <2>1 DEF ServiceTypes
  <2> QED BY <1>1, <2>1, <2>2, <2>3, <2>4 DEF IInv
<1>7. CASE CallbackStep
  <2>1. UNCHANGED <<inbox, phase, told, tls>>
    BY <1>7 DEF CallbackStep, history
  <2>2. QuicPart' /\ GivenUp \subseteq GivenUp'
    BY <1>1, <1>7, <2>1, QuicActs DEF CallbackStep
  <2>3. TlsPart'
    BY <1>1, <2>1, TlsIdle
  <2>4. ServiceTypes'
    BY <1>1, <2>1 DEF ServiceTypes
  <2> QED BY <1>1, <2>1, <2>2, <2>3, <2>4 DEF IInv
<1>8. CASE UNCHANGED vars
  <2>1. UNCHANGED <<inbox, phase, told, tls, states, events>>
    BY <1>8 DEF vars, tls
  <2>2. TlsPart'
    BY <1>1, <2>1, TlsIdle
  <2>3. QuicPart' /\ GivenUp' = GivenUp
    BY <1>1, <2>1, QuicIdle
  <2>4. ServiceTypes'
    BY <1>1, <2>1 DEF ServiceTypes
  <2> QED BY <1>1, <2>1, <2>2, <2>3, <2>4 DEF IInv
<1> QED BY <1>2, <1>3, <1>4, <1>5, <1>6, <1>7, <1>8 DEF Next

(* Nobody has dialed. *)
LEMMA Starts ==
    ASSUME Init
    PROVE  IInv /\ GivenUp = {}
<1>1. PICK group \in Groups : TlsInit(group) /\ QuicInit(group)
  BY DEF Init
<1>2. /\ inbox = <<>> /\ events = <<>> /\ poll = Resting
      /\ phase = [s \in Sessions |-> "unknown"] /\ told = [s \in Sessions |-> 0]
  BY <1>1 DEF Init, TlsInit, QuicInit
<1>3. Len(<<>>) = 0 /\ <<>> \in Seq(EventType) /\ <<>> \o <<>> = <<>> /\ 1..0 = {}
  OBVIOUS
<1>4. QuicStream = <<>> /\ TlsStream = <<>>
  BY <1>2, <1>3 DEF QuicStream, TlsStream, Resting
<1>5. ASSUME NEW s
      PROVE  /\ \A k : ~Has(<<>>, s, k)
             /\ \A m : ~HasFrame(<<>>, s, m) /\ UpTo(<<>>, s, m)
             /\ \A ph, n, g : Flow(<<>>, s, ph, n, g)
  <2>1. \A p \in 1..Len(<<>>) : <<>>[p].session # s
    BY <1>3
  <2> QED BY <2>1, SilentSays
<1>6. ServiceTypes
  BY <1>2, <1>3 DEF ServiceTypes
<1>7. QuicPart /\ GivenUp = {}
  <2>1. ASSUME NEW s \in QuicPeers
        PROVE  /\ states[s] \in StateType /\ QuicSane(s, states[s]) /\ ~Given(states[s])
               /\ QuicReported(<<>>, s, "unknown", 0, states[s])
    <3> DEFINE st == states[s]
    <3>1. \E g \in {"away", "elsewhere"} : st = [NewState EXCEPT !.stage = g]
      BY <1>1 DEF QuicInit
    <3>2. /\ st \in StateType /\ st.connected = FALSE /\ st.stream = FALSE /\ st.closing = FALSE
          /\ st.reason = "unknown" /\ st.ended = FALSE /\ st.sent = 0 /\ st.input = 0
          /\ st.decoded = 0 /\ st.receiving = FALSE
      <4> HIDE DEF st
      <4>1. PICK g \in {"away", "elsewhere"} : st = [NewState EXCEPT !.stage = g]
        BY <3>1
      <4>2. NewState \in StateType
        BY DEF NewState, StateType
      <4>3. st \in StateType
        BY <4>1, <4>2 DEF StateType
      <4> QED BY <4>1, <4>3 DEF NewState
    <3> HIDE DEF st
    <3>3. QuicFrames[s] \in Nat
      BY QuicAssumption
    <3>4. ~Given(st)
      BY <3>2 DEF Given
    <3>5. QuicSane(s, st)
      BY <3>2, <3>3, <3>4 DEF QuicSane
    <3>6. Flow(<<>>, s, "unknown", 0, Given(st))
      BY <1>5
    <3>7. ~Has(<<>>, s, "Opened") /\ ~Has(<<>>, s, "Closed") /\ UpTo(<<>>, s, st.decoded)
      BY <1>5
    <3>8. QuicReported(<<>>, s, "unknown", 0, st)
      BY <3>2, <3>6, <3>7 DEF QuicReported
    <3> QED BY <3>2, <3>4, <3>5, <3>8 DEF st
  <2>2. states \in [QuicPeers -> StateType]
    BY <1>1, <2>1 DEF QuicInit
  <2>3. \A s \in QuicPeers : s \in Sessions /\ phase[s] = "unknown" /\ told[s] = 0
    BY <1>2 DEF Sessions
  <2>4. GivenUp = {}
    BY <2>1 DEF GivenUp
  <2>5. QuicTypes /\ 1..Len(events) = {}
    BY <1>2, <1>3, <2>2 DEF QuicTypes
  <2> QED BY <1>4, <2>1, <2>3, <2>4, <2>5 DEF QuicPart
<1>8. TlsPart
  <2>1. /\ poll.at = "rest" /\ poll.served = {} /\ poll.ready = <<>> /\ poll.closes = {}
        /\ poll.batch = <<>> /\ poll.active = {} /\ DOMAIN poll = PollFields /\ DOMAIN poll.ready = {}
        /\ poll = [at |-> poll.at, ready |-> poll.ready, served |-> poll.served,
                   active |-> poll.active, closes |-> poll.closes, batch |-> poll.batch]
    BY <1>2 DEF Resting, PollFields
  <2>2. Closing = {}
    BY <2>1 DEF Closing
  <2>3. ASSUME NEW s \in TlsPeers
        PROVE  /\ conns[s] \in EntryType /\ TlsSane(s, conns[s])
               /\ TlsReported(<<>>, s, "unknown", 0, conns[s])
               /\ TlsEnd(<<>>, s, "unknown", 0, conns[s], {})
    <3> DEFINE e == conns[s]
    <3>1. \E g \in {"away", "elsewhere"} : e = [NewEntry EXCEPT !.stage = g]
      BY <1>1 DEF TlsInit
    <3>2. /\ NewConnection \in ConnType /\ NewConnection.read = 0 /\ NewConnection.sent = 0
          /\ NewConnection.out = 0 /\ NewConnection.cuts = {}
      BY DEF NewConnection, ConnType
    <3>3. /\ e \in EntryType /\ e.stage \in {"away", "elsewhere"} /\ e.c = NewConnection
          /\ e.reason = "unknown"
      BY <3>1, <3>2 DEF NewEntry, EntryType, TlsReasons
    <3> HIDE DEF e
    <3>4. Frames[s] * FrameSize \in Nat
      BY TlsTransportAssumption, TlsConnectionAssumption
    <3>5. TlsSane(s, e)
      BY <3>2, <3>3, <3>4 DEF TlsSane
    <3>6. /\ Flow(<<>>, s, "unknown", 0, FALSE) /\ UpTo(<<>>, s, Frames[s]) /\ UpTo(<<>>, s, 0)
          /\ ~Has(<<>>, s, "Opened") /\ ~Has(<<>>, s, "Closed") /\ ~Has(<<>>, s, "Message")
      BY <1>5
    <3>7. TlsReported(<<>>, s, "unknown", 0, e)
      BY <3>3, <3>6 DEF TlsReported
    <3>8. e.c.read \div FrameSize = 0
      BY <3>2, <3>3, TlsConnectionAssumption
    <3>9. TlsEnd(<<>>, s, "unknown", 0, e, {})
      BY <3>3, <3>6, <3>8 DEF TlsEnd, Heard
    <3> QED BY <3>3, <3>5, <3>7, <3>9 DEF e
  <2>4. conns \in [TlsPeers -> EntryType]
    BY <1>1, <2>3 DEF TlsInit
  <2>5. \A s \in TlsPeers : phase[s] = "unknown" /\ told[s] = 0
    BY <1>2 DEF Sessions
  <2>6. TlsTypes
    BY <1>3, <2>1, <2>4 DEF TlsTypes
  <2>7. PollOk
    BY <1>2, <1>3, <2>1 DEF PollOk
  <2> QED BY <1>4, <2>2, <2>3, <2>5, <2>6, <2>7 DEF TlsPart
<1> QED BY <1>2, <1>6, <1>7, <1>8 DEF IInv

(* An event that is handled is a step of the contract, or none. *)
LEMMA HandlesContract ==
    ASSUME IInv, Handle
    PROVE  Contract!Next \/ UNCHANGED <<phase, told, GivenUp>>
<1> DEFINE e == Head(inbox)
           s == e.session
           ph == phase[s]
           n == told[s]
<1>1. /\ inbox # <<>> /\ inbox \in Seq(EventType) /\ e \in EventType
      /\ ServiceTypes /\ QuicPart /\ TlsPart /\ TlsTypes /\ QuicTypes
  BY Handled DEF IInv, TlsPart, QuicPart
<1>2. GivenUp' = GivenUp
  BY QuicHandles
<1>3. s \in Sessions /\ e.frame \in Nat /\ n \in Nat /\ e.kind \in {"Opened", "Message", "Closed", "Moved"}
  BY <1>1 DEF EventType, ServiceTypes
<1>4. /\ e.kind = "Opened" => ph = "unknown"
      /\ e.kind \in {"Message", "Closed"} => ph # "over" /\ (ph = "open" \/ s \in GivenUp)
      /\ e.kind = "Message" => e.frame > n /\ (s \in GivenUp \/ e.frame = n + 1)
      /\ e.kind = "Message" => e.frame \in FrameNumbers
  <2>1. CASE s \in TlsPeers
    <3> DEFINE q == TlsStream
    <3>1. q \in Seq(EventType) /\ poll.batch \in Seq(EventType) /\ TlsReported(q, s, ph, n, conns[s])
      BY <1>1, <2>1, TlsStreams, TlsOf DEF TlsTold
    <3>2. Head(q) = e /\ q # <<>>
      BY <1>1, <3>1, CatTail DEF TlsStream
    <3>3. Flow(q, s, ph, n, FALSE) /\ UpTo(q, s, Frames[s])
      BY <3>1 DEF TlsReported
    <3>4. e.session = s
      OBVIOUS
    <3>5. q[1] = e /\ 1 \in 1..Len(q)
      BY <3>1, <3>2
    <3>6. e.kind = "Message" => e.frame <= Frames[s]
      BY <3>3, <3>4, <3>5 DEF UpTo, Says
    <3> HIDE DEF q, e, s, ph, n
    <3>7. /\ e.kind = "Opened" => ph = "unknown"
          /\ e.kind \in {"Message", "Closed"} => ph # "over" /\ (FALSE \/ ph = "open")
          /\ e.kind = "Message" => e.frame > n /\ (FALSE \/ e.frame = n + 1)
      BY <1>3, <3>1, <3>2, <3>3, <3>4, FlowHead
    <3>8. e.kind = "Message" => e.frame \in 1..Frames[s]
      BY <1>3, <2>1, <3>6, <3>7, TlsTransportAssumption
    <3>9. 1..Frames[s] \subseteq FrameNumbers
      BY <2>1 DEF FrameNumbers
    <3> QED BY <3>7, <3>8, <3>9
  <2>2. CASE s \in QuicPeers
    <3> DEFINE q == QuicStream
               st == states[s]
               g == Given(st)
    <3>1. /\ q \in Seq(EventType) /\ events \in Seq(EventType) /\ st \in StateType
          /\ QuicReported(q, s, ph, n, st) /\ QuicSane(s, st)
      BY <1>1, <2>2, Streams DEF QuicPart, QuicTypes
    <3>2. Head(q) = e /\ q # <<>>
      BY <1>1, <3>1, CatTail DEF QuicStream
    <3>3. Flow(q, s, ph, n, g) /\ UpTo(q, s, st.decoded) /\ g \in BOOLEAN
      BY <3>1 DEF QuicReported, Given
    <3>4. st.decoded <= QuicFrames[s] /\ QuicFrames[s] \in Nat /\ st.decoded \in Nat
      <4> HIDE DEF st
      <4>1. /\ st.decoded <= st.input /\ st.input <= st.sent /\ st.sent <= QuicFrames[s]
            /\ st.decoded \in Nat /\ st.input \in Nat /\ st.sent \in Nat /\ QuicFrames[s] \in Nat
        BY <2>2, <3>1, QuicAssumption DEF QuicSane, StateType
      <4> QED BY <4>1
    <3>5. q[1] = e /\ 1 \in 1..Len(q) /\ e.session = s
      BY <3>1, <3>2
    <3>6. e.kind = "Message" => e.frame <= st.decoded
      BY <3>3, <3>5 DEF UpTo, Says
    <3>7. s \in GivenUp <=> g
      BY <2>2 DEF GivenUp
    <3> HIDE DEF q, e, s, ph, n, st, g
    <3>8. /\ e.kind = "Opened" => ph = "unknown"
          /\ e.kind \in {"Message", "Closed"} => ph # "over" /\ (g \/ ph = "open")
          /\ e.kind = "Message" => e.frame > n /\ (g \/ e.frame = n + 1)
      BY <1>3, <3>1, <3>2, <3>3, <3>5, FlowHead
    <3>9. e.kind = "Message" => e.frame \in 1..QuicFrames[s]
      BY <1>3, <3>4, <3>6, <3>8
    <3>10. 1..QuicFrames[s] \subseteq FrameNumbers
      BY <2>2 DEF FrameNumbers
    <3> QED BY <3>7, <3>8, <3>9, <3>10
  <2> QED BY <1>3, <2>1, <2>2 DEF Sessions
<1>5. \/ e.kind = "Message" /\ told' = [told EXCEPT ![s] = e.frame] /\ phase' = phase
      \/ e.kind = "Opened" /\ told' = told /\ phase' = [phase EXCEPT ![s] = "open"]
      \/ e.kind = "Closed" /\ told' = told /\ phase' = [phase EXCEPT ![s] = "over"]
      \/ told' = told /\ phase' = phase
  BY DEF Handle, history
<1>6. GivenUp = {t \in QuicPeers : states[t].reason \in {"overloaded", "application_requested"}}
  BY DEF GivenUp, Given
<1> HIDE DEF e, s
<1>7. CASE e.kind = "Message" /\ told' = [told EXCEPT ![s] = e.frame] /\ phase' = phase
  <2>1. Contract!Message(s, e.frame)
    BY <1>2, <1>4, <1>6, <1>7 DEF Contract!Message, Contract!Active, GivenUp, Given
  <2> QED BY <1>3, <1>4, <1>7, <2>1 DEF Contract!Next
<1>8. CASE e.kind = "Opened" /\ told' = told /\ phase' = [phase EXCEPT ![s] = "open"]
  <2>1. Contract!Open(s)
    BY <1>2, <1>4, <1>6, <1>8 DEF Contract!Open, GivenUp, Given
  <2> QED BY <1>3, <2>1 DEF Contract!Next
<1>9. CASE e.kind = "Closed" /\ told' = told /\ phase' = [phase EXCEPT ![s] = "over"]
  <2>1. Contract!Close(s)
    BY <1>2, <1>4, <1>6, <1>9 DEF Contract!Close, Contract!Active, GivenUp, Given
  <2> QED BY <1>3, <2>1 DEF Contract!Next
<1> QED BY <1>2, <1>5, <1>7, <1>8, <1>9

(* The invariant of both transports and of the thread that owns them. *)
THEOREM Invariant == Spec => []IInv
<1>1. Init => IInv
  BY Starts
<1>2. IInv /\ [Next]_vars => IInv'
  BY Steps
<1> QED BY <1>1, <1>2, PTL DEF Spec

(* Whatever MsQuic, TLS and the peers do, and however little room or       *)
(* budget there is: a session is opened once, its frames reach the         *)
(* service in order and, unless the transport has given the session up,    *)
(* without a gap, and nothing follows its Closed (poll_once of both        *)
(* transports).                                                            *)
THEOREM KeepsTheContract == Spec => KeepsContract
<1>1. Init => Contract!Init
  <2>1. ASSUME Init PROVE Contract!Init
    <3>1. GivenUp = {} /\ phase = [s \in Sessions |-> "unknown"] /\ told = [s \in Sessions |-> 0]
      BY <2>1, Starts DEF Init
    <3> QED BY <3>1 DEF Contract!Init, GivenUp, Given
  <2> QED BY <2>1
<1>2. IInv /\ [Next]_vars => [Contract!Next]_(Contract!vars)
  <2>1. ASSUME IInv, [Next]_vars PROVE [Contract!Next]_(Contract!vars)
    <3>1. GivenUp \subseteq GivenUp' /\ (Handle \/ UNCHANGED <<phase, told>>)
      BY <2>1, Steps
    <3>2. CASE Handle
      <4>1. Contract!Next \/ UNCHANGED <<phase, told, GivenUp>>
        BY <2>1, <3>2, HandlesContract
      <4> QED BY <4>1 DEF Contract!vars, GivenUp, Given
    <3>3. CASE UNCHANGED <<phase, told>>
      <4> DEFINE S == GivenUp'
      <4>1. S \in SUBSET Sessions /\ GivenUp' = GivenUp \cup S
        BY <3>1 DEF GivenUp, Sessions
      <4> HIDE DEF S
      <4>2. \E T \in SUBSET Sessions : GivenUp' = GivenUp \cup T /\ UNCHANGED <<phase, told>>
        BY <3>3, <4>1
      <4>3. \E T \in SUBSET Sessions : Contract!GiveUp(T)
        BY <4>2 DEF Contract!GiveUp, GivenUp, Given
      <4>4. Contract!Next
        BY <4>3 DEF Contract!Next
      <4> QED BY <4>4
    <3> QED BY <3>1, <3>2, <3>3
  <2> QED BY <2>1
<1> QED BY <1>1, <1>2, Invariant, PTL DEF Spec, KeepsContract, Contract!Spec

(* Whatever the reading budget, a TLS session of which the peer closed the *)
(* writing side is kept until the service has handled every complete frame *)
(* that the peer sent (service_connection, received_messages).             *)
THEOREM IsHeardOut == Spec => []HeardOut
<1>1. IInv => HeardOut
  <2>1. ASSUME IInv, NEW s \in TlsPeers, phase[s] # "unknown", conns[s].stage = "closed",
               conns[s].reason = "peer_closed"
        PROVE  told[s] = conns[s].c.sent \div FrameSize
    <3>1. TlsTold(TlsStream, s, phase[s], told[s], conns[s], Closing)
      BY <2>1, TlsOf DEF IInv
    <3> QED BY <2>1, <3>1 DEF TlsTold, TlsEnd
  <2> QED BY <2>1 DEF HeardOut
<1> QED BY <1>1, Invariant, PTL
=============================================================================
