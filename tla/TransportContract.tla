--------------------------- MODULE TransportContract --------------------------
(***************************************************************************)
(* What a message transport promises the edge runtime about one session:   *)
(* it is opened once, its frames come in the order the peer sent them and  *)
(* without a gap, and nothing follows its Closed.  Of a session that is    *)
(* given up, its Opened and any frame may be missing (EdgeRuntime ignores  *)
(* what it has no record for), but nothing comes twice or out of order.    *)
(***************************************************************************)
EXTENDS Integers

CONSTANTS Sessions, Numbers   \* the numbers a peer gives its frames

VARIABLES
    phase,     \* "unknown", "open" or "over"
    told,      \* the last frame of each session
    givenUp    \* sessions given up by the transport

vars == <<phase, told, givenUp>>

Init ==
    /\ phase = [s \in Sessions |-> "unknown"]
    /\ told = [s \in Sessions |-> 0]
    /\ givenUp = {}

Open(s) ==
    /\ phase[s] = "unknown"
    /\ phase' = [phase EXCEPT ![s] = "open"]
    /\ UNCHANGED <<told, givenUp>>

Active(s) == phase[s] = "open" \/ (s \in givenUp /\ phase[s] # "over")

Message(s, m) ==
    /\ Active(s)
    /\ m > told[s]
    /\ s \in givenUp \/ m = told[s] + 1
    /\ told' = [told EXCEPT ![s] = m]
    /\ UNCHANGED <<phase, givenUp>>

Close(s) ==
    /\ Active(s)
    /\ phase' = [phase EXCEPT ![s] = "over"]
    /\ UNCHANGED <<told, givenUp>>

GiveUp(S) ==
    /\ givenUp' = givenUp \cup S
    /\ UNCHANGED <<phase, told>>

Next ==
    \/ \E s \in Sessions : Open(s) \/ Close(s) \/ \E m \in Numbers : Message(s, m)
    \/ \E S \in SUBSET Sessions : GiveUp(S)

Spec == Init /\ [][Next]_vars
=============================================================================
