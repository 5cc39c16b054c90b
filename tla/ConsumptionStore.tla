-------------------------- MODULE ConsumptionStore --------------------------
(***************************************************************************)
(* What an admission consumption store promises: InMemoryAdmission-        *)
(* ConsumptionStore, whose calls are atomic, for the record of one         *)
(* identity.  A call is made at some time of its caller.  The record of a  *)
(* store that lives longer than its callers may be forgotten.              *)
(***************************************************************************)
EXTENDS Naturals

CONSTANTS
    Owners,  \* who reserves
    Times,   \* the times of calls
    Until,   \* consume_until
    Ttl      \* reservation_ttl

VARIABLES
    record   \* StoredRecord, or Forgotten

Forgotten == [state |-> "none", owner |-> 0, fencing |-> 0, expires |-> 0]

Init == record = Forgotten

(* reserve: refused while the credentials are consumed or reserved. *)
Reserve(owner, now) ==
    /\ record.state = "consumed" => now > Until
    /\ record.state = "reserved" => now >= record.expires
    /\ record' = [state |-> "reserved", owner |-> owner, fencing |-> record.fencing + 1,
                  expires |-> now + Ttl]

(* commit, by the holder of the reservation that is stored. *)
Commit(now) ==
    /\ record.state = "reserved" /\ now < record.expires /\ now <= Until
    /\ record' = [record EXCEPT !.state = "consumed"]

(* release, by the holder. *)
Release(now) ==
    /\ record.state = "reserved"
    /\ record' = [record EXCEPT !.expires = now]

Forget == record # Forgotten /\ record' = Forgotten

Next ==
    \/ \E now \in Times :
         Commit(now) \/ Release(now) \/ \E owner \in Owners : Reserve(owner, now)
    \/ Forget

Spec == Init /\ [][Next]_record
=============================================================================
