---------------------------- MODULE Credentials -----------------------------
(***************************************************************************)
(* What a login carries from service to service: the identity token of the *)
(* login verifier, the queue number and the admission grant of the queue,  *)
(* the ticket of the gateway that the realm redeems.  Each is signed with  *)
(* the clock of the host that issues it and judged by the clock of the     *)
(* host that it is shown to, with jws_clock_leeway in between; grants are  *)
(* signed with a key that is changed while the gateway knows old and new.  *)
(*                                                                         *)
(* A credential is its times and its key: signatures, names and formats    *)
(* are left out, a forged one is refused and changes nothing.  The queue   *)
(* and the consumption of grants are modelled in QueueScheduler and        *)
(* AdmissionConsumption; here each login has one number, one release and   *)
(* one admission.  Time goes in seconds, as the tokens do.                 *)
(***************************************************************************)
EXTENDS Integers

CONSTANTS
    None,
    Logins,       \* logins, each with an identity token (jti) of its own
    Leeway,       \* jws_clock_leeway
    IdentityTtl,  \* ttl_ of the login verifier
    NumberTtl,    \* ttl_ of the queue numbers
    GrantWindow,  \* policy_.grant_window
    TicketTtl,    \* enter_realm_ticket_ttl
    Skews,        \* how far the clocks of the hosts may be ahead
    MaxKey,       \* bound on the keys
    MaxClock      \* bound on the time

Hosts == {"verifier", "queue", "gateway", "realm"}

(* The hosts' clocks differ by no more than the leeway. *)
ASSUME CredentialsAssumption ==
    /\ Leeway \in Nat /\ IdentityTtl \in Nat \ {0} /\ NumberTtl \in Nat \ {0}
    /\ GrantWindow \in Nat \ {0} /\ TicketTtl \in Nat \ {0}
    /\ Skews \subseteq [Hosts -> 0..Leeway]
    /\ MaxKey \in Nat /\ MaxClock \in Nat

VARIABLES
    time,       \* what a host without skew has
    skew,       \* of each host
    identity,   \* of each login: its identity token, or None
    number,     \* its queue number, or None
    batch,      \* when the queue released the number, or None
    grants,     \* the grants that were issued, with the key they are signed with
    admissions, \* the logins whose admission the gateway reserved
    ticket,     \* of each login: when its ticket expires, or None
    consumed,   \* TicketReplayGuard: the logins whose tickets are remembered
    redeemed,   \* the logins whose tickets were accepted
    twice,      \* those whose tickets were accepted a second time
    key,        \* active_kid_ of the grants
    ring,       \* verification_keys_ of the gateway
    switched    \* when the queue went over to the active key

Now(h) == time + skew[h]

Earlier(s, t) == IF s <= t THEN s ELSE t

-----------------------------------------------------------------------------
(* Mutant of Current: a token from a clock that is ahead is refused. *)
CurrentStrictly(t, now) == now <= t.exp + Leeway /\ t.iat <= now

(* The times of a token, as IdentityTokenCodec, QueueNumberV2Codec and     *)
(* AdmissionGrantVerifier judge them alike.                                *)
Current(t, now) == now <= t.exp + Leeway /\ t.iat <= now + Leeway

(* Mutant of GrantValid: only the key that came last is known. *)
GrantValidLatest(g, now) ==
    /\ g.kid \in ring /\ \A k \in ring : k <= g.kid
    /\ g.exp <= identity[g.login].exp /\ g.exp <= g.iat + GrantWindow /\ g.iat <= g.exp
    /\ Current(g, now)

(* AdmissionGrantVerifier::validate *)
GrantValid(g, now) ==
    /\ g.kid \in ring
    /\ g.exp <= identity[g.login].exp /\ g.exp <= g.iat + GrantWindow /\ g.iat <= g.exp
    /\ Current(g, now)

(* GatewayAdmission::reserve, up to the store. *)
Reservable(g, now) == Current(identity[g.login], now) /\ GrantValid(g, now)

(* How long the store remembers the admission. *)
consume_until(g) == Earlier(identity[g.login].exp, g.exp) + Leeway

(* SessionTicketCodec::validate; a ticket does not say when it was issued. *)
TicketValid(l, now) == ticket[l] # None /\ now <= ticket[l] + Leeway

(* Mutant of Remembered: an entry goes at the last moment of its ticket. *)
RememberedLess(l, now) == now < ticket[l] + Leeway

(* What the guard keeps when it is used. *)
Remembered(l, now) == now <= ticket[l] + Leeway

-----------------------------------------------------------------------------
(* A ticket is accepted once: it is remembered as long as it would be      *)
(* accepted, to the last moment of the leeway (TicketReplayGuard::consume).*)
RedeemedOnce == twice = {}

(* What is still good by the clock of its issuer is good by the clock of   *)
(* the next host, while a key is changed too; and the store remembers an   *)
(* admission as long as its credentials would get through again.           *)
GoodAccepted ==
    /\ \A l \in Logins :
         /\ identity[l] # None /\ Now("verifier") <= identity[l].exp
              => Current(identity[l], Now("queue"))
         /\ ticket[l] # None /\ Now("gateway") <= ticket[l] => TicketValid(l, Now("realm"))
    /\ \A g \in grants :
         /\ Now("queue") <= g.exp => Reservable(g, Now("gateway"))
         /\ Reservable(g, Now("gateway")) => Now("gateway") <= consume_until(g)
=============================================================================
