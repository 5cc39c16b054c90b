-------------------------- MODULE CredentialChain ---------------------------
(***************************************************************************)
(* How a login gets its credentials, one with the other: the steps of the  *)
(* login verifier, the queue, the gateway and the realm that issue them,   *)
(* the change of the key that grants are signed with, and the clocks.      *)
(***************************************************************************)
EXTENDS Credentials

tokens == <<identity, number, batch, grants>>
entry  == <<admissions, ticket, consumed, redeemed, twice>>
keys   == <<key, ring, switched>>
chain   == <<time, skew, tokens, entry, keys>>

ChainInit ==
    /\ time = 0 /\ skew \in Skews
    /\ identity = [l \in Logins |-> None] /\ number = [l \in Logins |-> None]
    /\ batch = [l \in Logins |-> None] /\ grants = {}
    /\ admissions = {} /\ ticket = [l \in Logins |-> None]
    /\ consumed = {} /\ redeemed = {} /\ twice = {}
    /\ key = 1 /\ ring = {1} /\ switched = 0

-----------------------------------------------------------------------------
(* POST /v1/login/verify *)
IssueIdentity(l) ==
    /\ identity[l] = None
    /\ identity' = [identity EXCEPT ![l] =
         [iat |-> Now("verifier"), exp |-> Now("verifier") + IdentityTtl]]
    /\ UNCHANGED <<time, skew, number, batch, grants, entry, keys>>

(* POST /v1/queue/tickets: the store refuses an identity that only the     *)
(* leeway keeps valid.                                                     *)
IssueNumber(l) ==
    /\ identity[l] # None /\ number[l] = None
    /\ LET now == Now("queue") IN
         /\ Current(identity[l], now) /\ now < identity[l].exp
         /\ number' = [number EXCEPT ![l] =
              [iat |-> now, exp |-> Earlier(identity[l].exp, now + NumberTtl)]]
    /\ UNCHANGED <<time, skew, identity, batch, grants, entry, keys>>

(* release_batch *)
ReleaseNumber(l) ==
    /\ number[l] # None /\ batch[l] = None
    /\ batch' = [batch EXCEPT ![l] = Now("queue")]
    /\ UNCHANGED <<time, skew, identity, number, grants, entry, keys>>

(* GET /v1/queue/tickets/me: the grant is issued as of the release, again  *)
(* for every query, with the key of the day.                               *)
IssueGrant(l) ==
    /\ number[l] # None /\ batch[l] # None
    /\ Current(number[l], Now("queue"))
    /\ Now("queue") <= batch[l] + GrantWindow + Leeway
    /\ batch[l] <= number[l].exp
    /\ grants' = grants \cup {[login |-> l, iat |-> batch[l], kid |-> key,
                               exp |-> Earlier(number[l].exp, batch[l] + GrantWindow)]}
    /\ UNCHANGED <<time, skew, identity, number, batch, entry, keys>>

-----------------------------------------------------------------------------
ReserveGrant(g) ==
    /\ g.login \notin admissions
    /\ Reservable(g, Now("gateway"))
    /\ admissions' = admissions \cup {g.login}
    /\ UNCHANGED <<time, skew, tokens, ticket, consumed, redeemed, twice, keys>>

(* handoff_payload, some time later: the ticket. *)
IssueTicket(l) ==
    /\ l \in admissions /\ ticket[l] = None
    /\ ticket' = [ticket EXCEPT ![l] = Now("gateway") + TicketTtl]
    /\ UNCHANGED <<time, skew, tokens, admissions, consumed, redeemed, twice, keys>>

-----------------------------------------------------------------------------
(* SessionTickets::redeem.  A ticket that is in the guard is refused, and  *)
(* one that is not valid does not get to the guard.                        *)
Redeem(l) ==
    /\ TicketValid(l, Now("realm"))
    /\ LET kept == {m \in consumed : Remembered(m, Now("realm"))} IN
         /\ consumed' = kept \cup {l}
         /\ redeemed' = IF l \in kept THEN redeemed ELSE redeemed \cup {l}
         /\ twice' = IF l \in redeemed \ kept THEN twice \cup {l} ELSE twice
    /\ UNCHANGED <<time, skew, tokens, admissions, ticket, keys>>

-----------------------------------------------------------------------------
(* A change of the grants' key: the gateway learns the new one, the queue  *)
(* signs with it, and the old one goes when the last grant under it, and   *)
(* the leeway, are over (docs/operations/admission-cutover.md).            *)
Publish ==
    /\ key < MaxKey /\ ring = {key}
    /\ ring' = ring \cup {key + 1}
    /\ UNCHANGED <<time, skew, tokens, entry, key, switched>>

Switch ==
    /\ key + 1 \in ring
    /\ key' = key + 1 /\ switched' = time
    /\ UNCHANGED <<time, skew, tokens, entry, ring>>

Retire ==
    /\ key - 1 \in ring
    /\ time > switched + GrantWindow + Leeway
    /\ ring' = {key}
    /\ UNCHANGED <<time, skew, tokens, entry, key, switched>>

ChainTick ==
    /\ time < MaxClock
    /\ time' = time + 1
    /\ UNCHANGED <<skew, tokens, entry, keys>>

ChainNext ==
    \/ \E l \in Logins :
         IssueIdentity(l) \/ IssueNumber(l) \/ ReleaseNumber(l) \/ IssueGrant(l)
           \/ IssueTicket(l) \/ Redeem(l)
    \/ \E g \in grants : ReserveGrant(g)
    \/ Publish \/ Switch \/ Retire \/ ChainTick

ChainSpec == ChainInit /\ [][ChainNext]_chain
=============================================================================
