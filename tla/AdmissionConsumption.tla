------------------------ MODULE AdmissionConsumption ------------------------
(***************************************************************************)
(* The shared consumption record of one identity: several gateways reserve *)
(* and then consume the same credentials through one etcd key, with a load *)
(* and a compare-and-put on mod_revision for every change.                 *)
(*                                                                         *)
(* An attempt is one attach message on one gateway.  Every call to the     *)
(* store is a series of requests to etcd, in which other gateways act, the *)
(* answer may be lost and the put may still be applied later.  The time a  *)
(* gateway works with is read once per frame, so it is stale by the time   *)
(* the later requests are made: it lags by up to MaxStall.                 *)
(*                                                                         *)
(* A second is RetentionSlack units of time.  Rounding to seconds          *)
(* (normalized) only lengthens the retention of the record and is left out.*)
(***************************************************************************)
EXTENDS Integers

CONSTANTS
    Attempts,        \* attach messages that carry the identity's credentials
    Owner,           \* [Attempts -> owners]: instance/connection/attempt
    Skew,            \* [Attempts -> Nat]: how far the gateway's clock is ahead
    Until,           \* consume_until: min(identity exp, grant exp) + leeway
    ReservationTtl,  \* reservation_ttl
    RetentionSlack,  \* what retention_ttl adds to the lifetime (one second)
    MaxTries,        \* max_cas_attempts
    MaxSkew,         \* bound on Skew
    MaxStall,        \* bound on the age of a frame's time when it is used
    MaxTime          \* bound on the clock

ASSUME AdmissionAssumption ==
    /\ Skew \in [Attempts -> 0..MaxSkew]
    /\ Until \in Nat
    /\ ReservationTtl \in Nat \ {0}
    /\ RetentionSlack \in Nat
    /\ MaxTries \in Nat \ {0}
    /\ MaxSkew \in Nat
    /\ MaxStall \in Nat
    /\ MaxTime \in Nat

VARIABLES
    clock,     \* elapsed time, by which etcd expires leases
    record,    \* the etcd key: StoredRecord with its mod_revision and lease
    revision,  \* etcd's revision counter
    pc,        \* where each attempt is
    op,        \* the store call it is in: reserve, commit or release
    now,       \* the frame time that call works with
    tries,     \* failed compare-and-puts of that call
    seen,      \* the record that call loaded last
    lease,     \* etcd lease granted for the replacement record, 0 if none
    fencing,   \* fencing of the reservation the attempt holds
    put,       \* compare-and-put on its way to etcd
    reply,     \* its outcome, not yet received
    admitted   \* attempts whose commit was answered Applied

etcd    == <<record, revision>>
attempt == <<pc, op, now, tries, seen, lease, fencing>>
wire    == <<put, reply>>
consumeVars == <<clock, etcd, attempt, wire, admitted>>

NoRecord == [state |-> "none", owner |-> 0, fencing |-> 0,
             expires |-> 0, ends |-> 0, rev |-> 0]

(* The wall clock of the gateway that handles attempt a. *)
Wall(a) == clock + Skew[a]

Calling(a) == pc[a] \in {"load", "grant", "wait"}

(* matches: fencing and owner; all attempts carry the same grant. *)
Matches(a, r) == r.fencing = fencing[a] /\ r.owner = Owner[a]

ConsumeInit ==
    /\ clock = 0
    /\ record = NoRecord
    /\ revision = 0
    /\ pc = [a \in Attempts |-> "idle"]
    /\ op = [a \in Attempts |-> "reserve"]
    /\ now = [a \in Attempts |-> 0]
    /\ tries = [a \in Attempts |-> 0]
    /\ seen = [a \in Attempts |-> NoRecord]
    /\ lease = [a \in Attempts |-> 0]
    /\ fencing = [a \in Attempts |-> 0]
    /\ put = [a \in Attempts |-> {}]
    /\ reply = [a \in Attempts |-> "none"]
    /\ admitted = {}

-----------------------------------------------------------------------------
(* GatewayAdmission::reserve: the credentials are verified at the time of  *)
(* the frame.  An owner name comes back only after a restart, when the     *)
(* attempts of the former process are gone.                                *)
ReserveCall(a) ==
    /\ pc[a] = "idle"
    /\ Wall(a) <= Until
    /\ \A b \in Attempts : b # a /\ Owner[b] = Owner[a] => pc[b] \in {"idle", "done"}
    /\ pc' = [pc EXCEPT ![a] = "load"]
    /\ now' = [now EXCEPT ![a] = Wall(a)]
    /\ UNCHANGED <<clock, etcd, op, tries, seen, lease, fencing, wire, admitted>>

(* on_accept_result and abandon: the handle is spent before the store is   *)
(* called.  The call is made in the frame of the reservation, or in a      *)
(* later one with its own time.                                            *)
SettleCall(a, what) ==
    /\ pc[a] = "held"
    /\ \/ Wall(a) <= now[a] + MaxStall /\ UNCHANGED now
       \/ now' = [now EXCEPT ![a] = Wall(a)]
    /\ pc' = [pc EXCEPT ![a] = "load"]
    /\ op' = [op EXCEPT ![a] = what]
    /\ tries' = [tries EXCEPT ![a] = 0]
    /\ UNCHANGED <<clock, etcd, seen, lease, fencing, wire, admitted>>

(* Accept was queued. *)
CommitCall(a) == SettleCall(a, "commit")

(* Accept could not be sent, or the session went away. *)
ReleaseCall(a) == SettleCall(a, "release")

-----------------------------------------------------------------------------
(* What a call finds in the loaded record.                                 *)

Taken(a, r) == r.state = "consumed" /\ now[a] <= Until

Busy(a, r) == r.state = "reserved" /\ now[a] < r.expires

Committable(a, r) ==
    /\ r.state = "reserved"
    /\ Matches(a, r)
    /\ now[a] < r.expires
    /\ now[a] <= Until

Releasable(a, r) == r.state = "reserved" /\ Matches(a, r)

(* The record a call wants to put in place of the one it has seen. *)
Replacement(a, r, ends) ==
    CASE op[a] = "reserve" -> [state   |-> "reserved",
                               owner   |-> Owner[a],
                               fencing |-> r.fencing + 1,
                               expires |-> now[a] + ReservationTtl,
                               ends    |-> ends,
                               rev     |-> r.rev]
      [] op[a] = "commit"  -> [r EXCEPT !.state = "consumed"]
      [] op[a] = "release" -> [r EXCEPT !.expires = now[a]]

(* A call ends without a put. *)
Return(a, where, f) ==
    /\ pc' = [pc EXCEPT ![a] = where]
    /\ fencing' = [fencing EXCEPT ![a] = f]
    /\ UNCHANGED <<lease, put>>

(* Mutant of SendPut: the revision is read again when the put is sent. *)
SendPutFresh(a, r, ends) ==
    /\ pc' = [pc EXCEPT ![a] = "wait"]
    /\ put' = [put EXCEPT ![a] = {[Replacement(a, r, ends) EXCEPT !.rev = record.rev]}]
    /\ UNCHANGED fencing

(* compare_and_put is sent: the put carries the revision it compares. *)
SendPut(a, r, ends) ==
    /\ pc' = [pc EXCEPT ![a] = "wait"]
    /\ put' = [put EXCEPT ![a] = {Replacement(a, r, ends)}]
    /\ UNCHANGED fencing

(* reserve, on the record it loaded. *)
LoadReserve(a) ==
    /\ pc[a] = "load"
    /\ op[a] = "reserve"
    /\ seen' = [seen EXCEPT ![a] = record]
    /\ \/ /\ Taken(a, record)
          /\ Return(a, "done", 0)
       \/ /\ Busy(a, record)
          /\ IF record.owner = Owner[a] THEN Return(a, "held", record.fencing)
                                        ELSE Return(a, "done", 0)
       \/ /\ ~Taken(a, record)
          /\ ~Busy(a, record)
          /\ IF lease[a] = 0
               THEN /\ pc' = [pc EXCEPT ![a] = "grant"]
                    /\ UNCHANGED <<put, lease, fencing>>
               ELSE SendPut(a, record, lease[a]) /\ UNCHANGED lease
    /\ UNCHANGED <<clock, etcd, op, now, tries, reply, admitted>>

(* grant_lease: the record is to live until consume_until, and a bit more. *)
GrantLease(a) ==
    /\ pc[a] = "grant"
    /\ LET ends == clock + (Until - now[a]) + RetentionSlack IN
       /\ lease' = [lease EXCEPT ![a] = ends]
       /\ SendPut(a, seen[a], ends)
    /\ UNCHANGED <<clock, etcd, op, now, tries, seen, reply, admitted>>

(* commit, on the record it loaded.  A record consumed under the same      *)
(* fencing is this attempt's own earlier put.                              *)
LoadCommit(a) ==
    /\ pc[a] = "load"
    /\ op[a] = "commit"
    /\ seen' = [seen EXCEPT ![a] = record]
    /\ IF Committable(a, record)
         THEN SendPut(a, record, record.ends) /\ UNCHANGED <<lease, admitted>>
         ELSE /\ Return(a, "done", fencing[a])
              /\ admitted' = IF record.state = "consumed" /\ record.fencing = fencing[a]
                               THEN admitted \cup {a} ELSE admitted
    /\ UNCHANGED <<clock, etcd, op, now, tries, reply>>

(* release, on the record it loaded. *)
LoadRelease(a) ==
    /\ pc[a] = "load"
    /\ op[a] = "release"
    /\ seen' = [seen EXCEPT ![a] = record]
    /\ IF Releasable(a, record)
         THEN SendPut(a, record, record.ends) /\ UNCHANGED lease
         ELSE Return(a, "done", fencing[a])
    /\ UNCHANGED <<clock, etcd, op, now, tries, reply, admitted>>

(* Mutant of PutApplies: the put compares nothing. *)
PutAppliesBlind(p) == p.ends > clock

(* etcd accepts a put if the record is still the one that was loaded and   *)
(* the lease is alive.                                                     *)
PutApplies(p) == p.rev = record.rev /\ p.ends > clock

(* etcd executes a put, whether or not its sender still waits for it. *)
Execute(a) ==
    /\ \E p \in put[a] :
         IF PutApplies(p)
           THEN /\ revision' = revision + 1
                /\ record' = [p EXCEPT !.rev = revision + 1]
                /\ reply' = [reply EXCEPT ![a] = "won"]
           ELSE /\ reply' = [reply EXCEPT ![a] = "missed"]
                /\ UNCHANGED etcd
    /\ put' = [put EXCEPT ![a] = {}]
    /\ UNCHANGED <<clock, attempt, admitted>>

(* The put was applied, and the call returns Reserved or Applied. *)
PutWon(a) ==
    /\ pc[a] = "wait"
    /\ reply[a] = "won"
    /\ reply' = [reply EXCEPT ![a] = "none"]
    /\ pc' = [pc EXCEPT ![a] = IF op[a] = "reserve" THEN "held" ELSE "done"]
    /\ fencing' = [fencing EXCEPT ![a] = IF op[a] = "reserve" THEN seen[a].fencing + 1
                                                              ELSE @]
    /\ admitted' = IF op[a] = "commit" THEN admitted \cup {a} ELSE admitted
    /\ UNCHANGED <<clock, etcd, op, now, tries, seen, lease, put>>

(* The compare failed: the call starts over, up to max_cas_attempts. *)
PutMissed(a) ==
    /\ pc[a] = "wait"
    /\ reply[a] = "missed"
    /\ tries[a] + 1 < MaxTries
    /\ reply' = [reply EXCEPT ![a] = "none"]
    /\ tries' = [tries EXCEPT ![a] = @ + 1]
    /\ pc' = [pc EXCEPT ![a] = "load"]
    /\ UNCHANGED <<clock, etcd, op, now, seen, lease, fencing, put, admitted>>

(* Mutant of Unavailable: a commit that was not answered counts as made. *)
UnavailableAdmits(a) ==
    /\ Calling(a)
    /\ pc' = [pc EXCEPT ![a] = "done"]
    /\ admitted' = IF op[a] = "commit" THEN admitted \cup {a} ELSE admitted
    /\ UNCHANGED <<clock, etcd, op, now, tries, seen, lease, fencing, wire>>

(* The call fails: a request is not answered, a compare miss is reported   *)
(* without a succeeded field, or the tries are used up.  The attempt is    *)
(* over, but its put may still be on the way.  So is that of a gateway     *)
(* that dies in the middle of the call.                                    *)
Unavailable(a) ==
    /\ Calling(a)
    /\ pc' = [pc EXCEPT ![a] = "done"]
    /\ UNCHANGED <<clock, etcd, op, now, tries, seen, lease, fencing, wire, admitted>>

(* The gateway dies while it holds a reservation. *)
GatewayDies(a) ==
    /\ pc[a] = "held"
    /\ pc' = [pc EXCEPT ![a] = "done"]
    /\ UNCHANGED <<clock, etcd, op, now, tries, seen, lease, fencing, wire, admitted>>

-----------------------------------------------------------------------------
(* etcd drops the record with its lease. *)
LeaseExpires ==
    /\ record # NoRecord
    /\ clock >= record.ends
    /\ record' = NoRecord
    /\ UNCHANGED <<clock, revision, attempt, wire, admitted>>

(* Time passes, but no frame stalls for longer than MaxStall. *)
Tick ==
    /\ clock < MaxTime
    /\ \A a \in Attempts : Calling(a) => Wall(a) + 1 <= now[a] + MaxStall
    /\ clock' = clock + 1
    /\ UNCHANGED <<etcd, attempt, wire, admitted>>

Step(a) ==
    \/ ReserveCall(a)
    \/ CommitCall(a)
    \/ ReleaseCall(a)
    \/ LoadReserve(a)
    \/ GrantLease(a)
    \/ LoadCommit(a)
    \/ LoadRelease(a)
    \/ Execute(a)
    \/ PutWon(a)
    \/ PutMissed(a)
    \/ Unavailable(a)
    \/ GatewayDies(a)

ConsumeNext ==
    \/ \E a \in Attempts : Step(a)
    \/ LeaseExpires
    \/ Tick

ConsumeSpec == ConsumeInit /\ [][ConsumeNext]_consumeVars

-----------------------------------------------------------------------------
Owners == {Owner[a] : a \in Attempts} \cup {0}

Records == [state : {"none", "reserved", "consumed"}, owner : Owners, fencing : Nat,
            expires : Nat, ends : Nat, rev : Nat]

(* Types; a failed call has used no more than max_cas_attempts, and a call *)
(* has at most one put on its way.                                         *)
TypeOK ==
    /\ clock \in Nat
    /\ revision \in Nat
    /\ record \in Records
    /\ pc \in [Attempts -> {"idle", "load", "grant", "wait", "held", "done"}]
    /\ op \in [Attempts -> {"reserve", "commit", "release"}]
    /\ now \in [Attempts -> Nat]
    /\ tries \in [Attempts -> 0..(MaxTries - 1)]
    /\ seen \in [Attempts -> Records]
    /\ lease \in [Attempts -> Nat]
    /\ fencing \in [Attempts -> Nat]
    /\ put \in [Attempts -> SUBSET Records]
    /\ \A a \in Attempts : \A p, q \in put[a] : p = q
    /\ reply \in [Attempts -> {"none", "won", "missed"}]
    /\ admitted \subseteq Attempts

(* The same credentials admit at most one session in the deployment, over  *)
(* lost answers, late puts, crashes, reservations taken over and gateways  *)
(* whose clocks differ (README: at most once per identity_jti).            *)
AtMostOnce == \A a, b \in admitted : a = b

(* Once consumed, the credentials are never reserved again: no late put of *)
(* a reservation or a release reopens the record (the reason why           *)
(* on_accept_result ends the handle before it calls the store).            *)
ConsumedForGood ==
    [][record.state = "consumed" => record'.state \in {"consumed", "none"}]_consumeVars

-----------------------------------------------------------------------------
(* The etcd store against the store in memory: revisions and leases are    *)
(* left out of the record.                                                 *)
Store == INSTANCE ConsumptionStore WITH
    Owners <- {Owner[a] : a \in Attempts}, Times <- 0..(MaxTime + MaxSkew),
    Ttl <- ReservationTtl,
    record <- [state |-> record.state, owner |-> record.owner,
               fencing |-> record.fencing, expires |-> record.expires]

(* Loads, leases and compare-and-puts of many gateways, lost and late ones *)
(* among them, come to what calls of the atomic store do one after the     *)
(* other: no put undoes what another gateway did after the load.           *)
ActsAtomically == Store!Spec
=============================================================================
