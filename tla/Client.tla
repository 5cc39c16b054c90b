------------------------------- MODULE Client -------------------------------
(***************************************************************************)
(* A client from its login to the game: a full run of the login chain      *)
(* hands its realm session over to the application.                        *)
(***************************************************************************)
EXTENDS LoginClient, RealmClient

Init == InitLogin /\ InitSession

(* run() returns FullSuccess; nothing of the chain is used after that. *)
EnterGame ==
    /\ at = "done" /\ target = "Full" /\ result
    /\ at' = "game" /\ UNCHANGED <<target, result>>
    /\ number' = None /\ grant' = None /\ ticket' = None
    /\ late' = FALSE /\ closed' = FALSE /\ stale' = FALSE
    /\ race' = None /\ suppressed' = FALSE /\ faults' = 0
    /\ UNCHANGED sessionVars

Next ==
    \/ at # "game" /\ NextLogin /\ UNCHANGED sessionVars
    \/ EnterGame
    \/ at = "game" /\ NextSession /\ UNCHANGED loginVars

Spec == Init /\ [][Next]_<<loginVars, sessionVars>> /\ LoginFairness
=============================================================================
