------------------------------- MODULE MCChat -------------------------------
(* RealmChat for TLC.  The same run checks Logger, which every service has; *)
(* a behaviour is of one of the two.                                       *)
EXTENDS RealmChat, Logger, TLC

Symmetry == Permutations(Characters) \cup Permutations(Producers)

VARIABLE part  \* "chat" or "logger"

MCInit == Init /\ LoggerInit /\ part \in {"chat", "logger"}

MCNext ==
    /\ UNCHANGED part
    /\ \/ part = "chat" /\ Next /\ UNCHANGED loggerVars
       \/ part = "logger" /\ LoggerNext /\ UNCHANGED vars

MCSpec == MCInit /\ [][MCNext]_<<part, vars, loggerVars>>
=============================================================================
