----------------------- MODULE MCAdmissionConsumption -----------------------
(* AdmissionConsumption for TLC: attempt names, owners and clocks.  The    *)
(* same run checks CredentialChain; a behaviour is of one of the two.      *)
EXTENDS AdmissionConsumption, CredentialChain

CONSTANTS a, b, c

(* c comes from the restarted gateway of a and reuses its owner name. *)
ReusedOwner == [x \in Attempts |-> IF x = b THEN 2 ELSE 1]

(* The gateway of b is ahead by MaxSkew. *)
BAhead == [x \in Attempts |-> IF x = b THEN MaxSkew ELSE 0]

-----------------------------------------------------------------------------
VARIABLE part  \* "store" or "credentials"

(* Clocks that are ahead by the leeway. *)
SomeAhead(hosts) ==
    [h \in {"verifier", "queue", "gateway", "realm"} |-> IF h \in hosts THEN Leeway ELSE 0]

SomeSkews == {SomeAhead({"verifier"}), SomeAhead({"queue", "realm"}),
              SomeAhead({"verifier", "gateway"})}

MCInit ==
    /\ ConsumeInit /\ ChainInit
    /\ \/ part = "store" /\ skew = SomeAhead({"verifier"})
       \/ part = "credentials"

MCNext ==
    /\ UNCHANGED part
    /\ \/ part = "store" /\ ConsumeNext /\ UNCHANGED chain
       \/ part = "credentials" /\ ChainNext /\ UNCHANGED consumeVars

MCSpec == MCInit /\ [][MCNext]_<<part, consumeVars, chain>>
=============================================================================
