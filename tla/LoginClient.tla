---------------------------- MODULE LoginClient ----------------------------
(***************************************************************************)
(* LoginChain over WireLoginTransport: verify, queue, gateway, realm, with *)
(* the retries and restarts of each.                                       *)
(*                                                                         *)
(* The chain is one thread; at is where it is.  The services answer, or    *)
(* fail, or act and do not answer; each credential is known by what the    *)
(* service that takes it has done with it.  Time is what has run out: the  *)
(* deadline of the run, the window of the grant, the life of the ticket.   *)
(***************************************************************************)
EXTENDS TransportRace

VARIABLES
    target,   \* of the run
    at,       \* where the chain is
    result,   \* LoginResult, or None
    number,   \* the queue number: state at the queue, and whether it was refused
    grant,    \* the admission grant: spent at the gateway, refused by it
    ticket,   \* the enter realm ticket: spent at the realm
    late,     \* the deadline is over
    closed,   \* the grant window is over
    stale     \* ticket_deadline is over

chain == <<target, at, result, number, grant, ticket>>
time == <<late, closed, stale>>
loginVars == <<chain, time, raceVars, faults>>

(* The runs there are: how far each goes. *)
Targets == {"Verify", "Tickets", "Poll", "Gateway", "GatewaySoak", "Full"}

InitLogin ==
    /\ target \in Targets /\ at = "verify" /\ result = None
    /\ number = None /\ grant = None /\ ticket = None
    /\ late = FALSE /\ closed = FALSE /\ stale = FALSE
    /\ InitRace

Go(next) == at' = next /\ UNCHANGED <<target, result>>
End(ok) == at' = "done" /\ result' = ok /\ UNCHANGED target

-----------------------------------------------------------------------------
(* WireLoginTransport::call: a kept connection that broke is dialled again *)
(* once, so that the service may see a request twice; the answer is of the *)
(* last.  A request can fail at any time, and does when it is late.        *)
Lost == IF late THEN NoFault ELSE Fault

(* What the transport makes of the answer to verify: 503 is busy, all but  *)
(* a 200 with a token is a failure.                                        *)
VerifyAnswer(answer) ==
    \/ answer = "token" /\ ~late /\ NoFault
    \/ answer = "busy" /\ Fault
    \/ answer = "failed" /\ (NoFault \/ Lost)

(* verify: busy is tried again after a while, all else that fails ends. *)
Verify ==
    /\ at = "verify"
    /\ \/ /\ VerifyAnswer("token")
          /\ IF target = "Verify" THEN End(TRUE) ELSE Go("tickets")
       \/ VerifyAnswer("busy") /\ (IF late THEN End(FALSE) ELSE Go("busy"))
       \/ VerifyAnswer("failed") /\ End(FALSE)
    /\ UNCHANGED <<number, grant, ticket, time, raceVars>>

Backoff ==
    /\ at = "busy"
    /\ Go("verify")
    /\ UNCHANGED <<number, grant, ticket, time, raceVars, faults>>

(* The answer to take_ticket: 202 with a number, or a failure. *)
TicketAnswer(answer) ==
    \/ answer = "number" /\ ~late /\ NoFault
    \/ answer = "failed" /\ (NoFault \/ Lost)

(* take_ticket: a failure ends the run. *)
TakeTicket ==
    /\ at = "tickets"
    /\ \/ /\ TicketAnswer("number")
          /\ IF target = "Tickets" THEN End(TRUE) ELSE Go("poll")
          /\ number' = [state |-> "waiting", refused |-> FALSE] /\ grant' = None
       \/ TicketAnswer("failed") /\ End(FALSE) /\ UNCHANGED <<number, grant>>
    /\ UNCHANGED <<ticket, time, raceVars>>

(* poll_until_admitted.  "poll" is the top of the loop, at first and after *)
(* the wait; the own number is asked for at first, when the progress has   *)
(* reached it, and when the progress is not known.                         *)
Poll ==
    /\ at = "poll"
    /\ IF late THEN End(FALSE) ELSE Go("me")
    /\ UNCHANGED <<number, grant, ticket, time, raceVars, faults>>

(* The answer to poll_progress: how far the queue is, or a failure. *)
ProgressAnswer(answer) ==
    \/ answer = "behind" /\ number.state = "waiting" /\ NoFault
    \/ answer = "reached" /\ number.state # "waiting" /\ NoFault
    \/ answer = "failed" /\ Fault

Progress ==
    /\ at = "progress"
    /\ \/ late /\ NoFault /\ End(FALSE)
       \/ ~late /\ ProgressAnswer("behind") /\ Go("progress")
       \/ ~late /\ (ProgressAnswer("reached") \/ ProgressAnswer("failed")) /\ Go("me")
    /\ UNCHANGED <<number, grant, ticket, time, raceVars>>

Admitted ==
    /\ grant' = [spent |-> FALSE, refused |-> FALSE]
    /\ closed' = FALSE
    /\ IF target = "Poll" THEN End(TRUE) ELSE Go("gateway")

(* The answer to ticket_me: a grant with its window, a position, 401 with  *)
(* code 2001, an admission without a grant or a window, or a failure.      *)
MeAnswer(answer) ==
    \/ answer = "admitted" /\ number.state = "released" /\ ~late /\ NoFault
    \/ answer = "position" /\ number.state = "waiting" /\ ~late /\ NoFault
    \/ answer = "2001" /\ number.state = "expired" /\ NoFault
    \/ answer = "incomplete" /\ Fault
    \/ answer = "failed" /\ Lost

TicketMe ==
    /\ at = "me"
    /\ \/ /\ MeAnswer("admitted")
          /\ Admitted
          /\ UNCHANGED number
       \/ /\ MeAnswer("position") \/ MeAnswer("failed")
          /\ Go("progress")
          /\ UNCHANGED <<number, grant, closed>>
       \/ /\ MeAnswer("2001")
          /\ Go("verify")
          /\ number' = [number EXCEPT !.refused = TRUE]
          /\ UNCHANGED <<grant, closed>>
       \/ MeAnswer("incomplete") /\ Go("verify") /\ UNCHANGED <<number, grant, closed>>
    /\ UNCHANGED <<ticket, late, stale, raceVars>>

-----------------------------------------------------------------------------
(* connect_racing, for the gateway and the realm. *)
Connect(stage) ==
    /\ at = stage /\ race = None /\ ~late
    /\ \E candidates \in {{"tls"}, {"quic", "tls"}} : race' = NewRace(candidates)
    /\ UNCHANGED <<chain, time, suppressed, faults>>

ConnectGateway == Connect("gateway")
ConnectRealm == Connect("realm")

Connected(stage, next, wait) ==
    /\ at = stage /\ Decided
    /\ Go(IF Won THEN next ELSE wait)
    /\ race' = None
    /\ UNCHANGED <<number, grant, ticket, time, suppressed, faults>>

(* The recovery that classify_edge_error derives from the code. *)
Recovery(code) ==
    CASE code \in {"invalid", "no_data"} -> "restart"
      [] code = "not_eligible" -> "fail"
      [] OTHER -> "retry"

(* Mutant of Recovered: a refusal is tried again within the window. *)
RecoveredRetry(code) ==
    CASE Recovery(code) = "fail" -> End(FALSE)
      [] OTHER -> Go("gateway wait")

Recovered(code) ==
    CASE Recovery(code) = "restart" -> Go("verify")
      [] Recovery(code) = "fail" -> End(FALSE)
      [] OTHER -> Go("gateway wait")

(* attach: the gateway spends the grant, or refuses it for good if it has  *)
(* been spent or is over; the answer may be lost.                          *)
Attach ==
    /\ at = "attach"
    /\ IF grant.spent \/ closed
         THEN \/ /\ ~late /\ NoFault /\ Recovered("invalid")
                 /\ grant' = [grant EXCEPT !.refused = TRUE]
              \/ Lost /\ Go("gateway wait") /\ UNCHANGED grant
         ELSE \/ /\ ~late /\ NoFault /\ Go("handoff")
                 /\ grant' = [grant EXCEPT !.spent = TRUE]
              \/ /\ NoFault /\ Recovered("not_eligible") /\ UNCHANGED grant
              \/ /\ Fault /\ Recovered("busy") /\ UNCHANGED grant
              \/ /\ Lost /\ Go("gateway wait")
                 /\ \E spent \in BOOLEAN : grant' = [grant EXCEPT !.spent = spent]
    /\ UNCHANGED <<number, ticket, time, raceVars>>

(* await_handoff: the ticket, an error, or nothing. *)
Handoff ==
    /\ at = "handoff"
    /\ \/ /\ ~late /\ NoFault
          /\ CASE target = "Gateway" -> End(TRUE)
               [] target = "GatewaySoak" -> Go("hold")
               [] OTHER -> Go("realm")
          /\ ticket' = [spent |-> FALSE]
          /\ stale' = FALSE
       \/ /\ \E code \in {"no_data", "busy", "not_eligible"} : Fault /\ Recovered(code)
          /\ UNCHANGED <<ticket, stale>>
       \/ Lost /\ Go("gateway wait") /\ UNCHANGED <<ticket, stale>>
    /\ UNCHANGED <<number, grant, late, closed, raceVars>>

(* After a try that failed, and at the top of the loop. *)
GatewayWait ==
    /\ at = "gateway wait"
    /\ IF closed THEN Go("verify") ELSE IF late THEN End(FALSE) ELSE Go("gateway")
    /\ UNCHANGED <<number, grant, ticket, time, raceVars, faults>>

TopLate ==
    /\ at \in {"gateway", "realm"} /\ race = None /\ late
    /\ End(FALSE)
    /\ UNCHANGED <<number, grant, ticket, time, raceVars, faults>>

(* The soak keeps the gateway connection until hold_until or the deadline. *)
Hold ==
    /\ at = "hold"
    /\ End(TRUE)
    /\ UNCHANGED <<number, grant, ticket, time, raceVars, faults>>

-----------------------------------------------------------------------------
(* enter_realm: the realm takes a ticket once. *)
Redeemed(answer) ==
    \/ answer = "refused" /\ (ticket.spent \/ stale) /\ (NoFault \/ Lost)
    \/ answer = "accepted" /\ ~(ticket.spent \/ stale) /\ ~late /\ NoFault
    \/ answer = "failed" /\ ~(ticket.spent \/ stale) /\ Lost

EnterRealm ==
    /\ at = "enter"
    /\ \/ Redeemed("refused") /\ Go("realm wait") /\ UNCHANGED ticket
       \/ Redeemed("accepted") /\ End(TRUE) /\ ticket' = [spent |-> TRUE]
       \/ /\ Redeemed("failed") /\ Go("realm wait")
          /\ \E spent \in BOOLEAN : ticket' = [spent |-> spent]
    /\ UNCHANGED <<number, grant, time, raceVars>>

(* Mutant of RealmWait: the ticket is tried until the deadline. *)
RealmWaitOn ==
    /\ at = "realm wait"
    /\ IF late THEN End(FALSE) ELSE Go("realm")
    /\ UNCHANGED <<number, grant, ticket, time, raceVars, faults>>

(* redeem_realm tries the ticket again as long as it lives; after that run *)
(* goes back to the gateway, or to the start if the window is over.        *)
RealmWait ==
    /\ at = "realm wait"
    /\ IF late THEN End(FALSE)
       ELSE Go(IF ~stale THEN "realm" ELSE IF closed THEN "verify" ELSE "gateway")
    /\ UNCHANGED <<number, grant, ticket, time, raceVars, faults>>

-----------------------------------------------------------------------------
(* The queue releases the number, or it expires. *)
Release ==
    /\ number # None
    /\ number.state = "waiting" /\ number' = [number EXCEPT !.state = "released"]
    /\ UNCHANGED <<target, at, result, grant, ticket, time, raceVars, faults>>

ExpireNumber ==
    /\ at \in {"me", "progress"} /\ Fault
    /\ number' = [number EXCEPT !.state = "expired"]
    /\ UNCHANGED <<target, at, result, grant, ticket, time, raceVars>>

(* A window runs out only while the chain waits: a step is short. *)
Late ==
    /\ ~late /\ at # "done" /\ late' = TRUE
    /\ UNCHANGED <<chain, closed, stale, raceVars, faults>>

CloseWindow ==
    /\ at \in {"gateway wait", "realm wait"} /\ ~closed /\ closed' = TRUE
    /\ UNCHANGED <<chain, late, stale, raceVars, faults>>

Stale ==
    /\ at = "realm wait" /\ ~stale /\ stale' = TRUE
    /\ UNCHANGED <<chain, late, closed, raceVars, faults>>

RaceMoves ==
    RaceStep /\ UNCHANGED <<chain, time>>

RaceClock ==
    (RaceTime \/ Unsuppress) /\ UNCHANGED <<chain, time>>

Chain ==
    \/ Verify \/ Backoff \/ TakeTicket \/ Poll \/ Progress \/ TicketMe
    \/ ConnectGateway \/ Connected("gateway", "attach", "gateway wait")
    \/ Attach \/ Handoff \/ GatewayWait \/ TopLate \/ Hold
    \/ ConnectRealm \/ Connected("realm", "enter", "realm wait")
    \/ EnterRealm \/ RealmWait

NextLogin == Chain \/ RaceMoves \/ RaceClock \/ Release \/ ExpireNumber \/ Late \/ CloseWindow \/ Stale

(* The chain and the workers run, time passes, the queue moves on.  The    *)
(* deadline of the run has no fairness: without it the run has to end too. *)
LoginFairness ==
    /\ WF_loginVars(Chain) /\ WF_loginVars(RaceMoves) /\ WF_loginVars(RaceTime /\ RaceClock)
    /\ WF_loginVars(Release) /\ SF_loginVars(CloseWindow) /\ SF_loginVars(Stale)

LoginSpec == InitLogin /\ [][NextLogin]_loginVars /\ LoginFairness

-----------------------------------------------------------------------------
(* The chain never shows a grant or a number again that it was refused for *)
(* good, through all restarts and retries: 1001 and 2001 mean that nothing *)
(* but a login from the start helps.                                       *)
NeverShownAgain ==
    /\ at \in {"gateway", "attach"} => ~grant.refused
    /\ at \in {"me", "progress"} => ~number.refused

(* A run ends: in the game, with a refusal, or at its deadline; whatever   *)
(* request was lost, and whatever it had spent.                            *)
EventuallyEnds == <>(at = "done")
=============================================================================
